-------------------------- MODULE SessionMuxProofs --------------------------
(***************************************************************************)
(* The theorems about SessionMux: IInv is an inductive invariant, and the  *)
(* safety properties of SessionMux follow from it.                         *)
(***************************************************************************)
EXTENDS SessionMuxOpening

-----------------------------------------------------------------------------
(* Mux.shutdown *)

\* What shutdown does to stream t of p.
Downed(p, t) ==
    /\ SameSend(p, t) /\ SameRecv(p, t) /\ Raised(p, t) /\ Woken(p, t)
    /\ left'[p][t] = left[p][t] /\ chunk'[p][t] = chunk[p][t]
    /\ phase'[p][t] = phase[p][t] /\ ender'[p][t] = ender[p][t]
    /\ t \in localClosed'[p] <=> t \in localClosed[p]
    /\ t \in remoteClosed'[p] <=> t \in remoteClosed[p] \/ t \in streams[p]
    /\ t \in failed'[p] <=> t \in failed[p] \/ t \in streams[p]
    /\ t \in isOpen'[p] <=> t \in isOpen[p]
    /\ \/ accepted'[p][t] = accepted[p][t]
       \/ accepted'[p][t] = "err" /\ t \in failed'[p]

\* A shutdown loses the end of what p has sent and all it has not received.
LEMMA ShutdownNet ==
    ASSUME TypeOK, NEW p \in Peers, NEW why, Shutdown(p, why)
    PROVE  /\ net' \in [Peers -> Seq(Frame)] /\ net'[Other(p)] = <<>>
           /\ \E n \in 0..Len(net[p]) : Cuts(net[p], n, net'[p])
<1>1. Other(p) \in Peers /\ Other(p) # p /\ net[p] \in Chan /\ net \in [Peers -> Chan] /\ <<>> \in Chan
  <2>1. <<>> \in Chan
    BY DEF Chan
  <2> QED
    BY <2>1, OtherPeer, Zenon DEF TypeOK, Chan
<1>2. PICK n \in 0..Len(net[p]) : net' = [net EXCEPT ![p] = SubSeq(@, 1, n), ![Other(p)] = <<>>]
  BY Zenon DEF Shutdown
<1>3. SubSeq(net[p], 1, n) \in Chan /\ Cuts(net[p], n, SubSeq(net[p], 1, n))
  BY <1>1, ChanPrefix, Zenon
<1>4. net' \in [Peers -> Chan] /\ net'[Other(p)] = <<>> /\ net'[p] = SubSeq(net[p], 1, n)
  BY <1>1, <1>2, <1>3, Zenon
<1> QED
  BY <1>3, <1>4, Zenon DEF Chan

\* Shutdown and the types.
LEMMA ShutdownType ==
    ASSUME TypeOK, NEW p \in Peers, NEW why \in {"closed", "protocol"}, Shutdown(p, why)
    PROVE  TypeOK' /\ ~Up(p)' /\ streams'[p] = {} /\ streams'[Other(p)] = streams[Other(p)]
           /\ (Up(Other(p))' <=> Up(Other(p)))
<1>0. Other(p) \in Peers /\ Other(p) # p
  BY OtherPeer, Zenon
<1>1. net' \in [Peers -> Seq(Frame)]
  BY ShutdownNet, Zenon
<1>2. /\ cause' \in [Peers -> {"up", "closed", "protocol"}]
      /\ cause'[p] = why /\ cause'[Other(p)] = cause[Other(p)]
  BY <1>0, Zenon DEF Shutdown, TypeOK
<1>3. /\ streams' \in Sets /\ remoteClosed' \in Sets /\ failed' \in Sets /\ reading' \in Sets
      /\ streams'[p] = {} /\ streams'[Other(p)] = streams[Other(p)]
  <2>1. streams \in Sets /\ remoteClosed \in Sets /\ failed \in Sets /\ reading \in Sets
    BY Zenon DEF TypeOK
  <2> QED
    BY <1>0, <2>1, Zenon DEF Shutdown, Sets
<1>4. accepted' \in Outcomes
  <2>1. accepted \in Outcomes
    BY Zenon DEF TypeOK
  <2>2. [s \in Ids |-> IF s \in streams[p] /\ accepted[p][s] = "none" THEN "err" ELSE accepted[p][s]]
          \in [Ids -> {"none", "ok", "err"}]
    BY <2>1 DEF Outcomes
  <2> QED
    BY <2>1, <2>2, Zenon DEF Shutdown, Outcomes
<1>5. writer' \in Writers
  <2>1. writer \in Writers
    BY Zenon DEF TypeOK
  <2>2. [s \in Ids |-> IF s \in streams[p] /\ writer[p][s] = "wait" THEN "loop" ELSE writer[p][s]]
          \in [Ids -> {"idle", "loop", "wait", "send"}]
    BY <2>1 DEF Writers
  <2> QED
    BY <2>1, <2>2, Zenon DEF Shutdown, Writers
<1>6. TypeOK'
  BY <1>1, <1>2, <1>3, <1>4, <1>5, Zenon DEF TypeOK, Shutdown, sendVars, recvVars
<1> QED
  BY <1>2, <1>3, <1>6 DEF Up

\* Shutdown and the streams: those in the table fail.
LEMMA ShutdownStreams ==
    ASSUME TypeOK, NEW p \in Peers, NEW why, Shutdown(p, why), NEW t \in Ids
    PROVE  /\ Downed(p, t)
           /\ SameSend(Other(p), t) /\ SameRecv(Other(p), t) /\ SameWrite(Other(p), t)
           /\ SameOpen(Other(p), t) /\ SameEnd(Other(p), t)
<1> DEFINE q == Other(p)
<1>0. q \in Peers /\ q # p
  BY OtherPeer, Zenon
<1>1. /\ remoteClosed'[p] = remoteClosed[p] \cup streams[p] /\ remoteClosed'[q] = remoteClosed[q]
      /\ failed'[p] = failed[p] \cup streams[p] /\ failed'[q] = failed[q]
      /\ streams'[q] = streams[q]
  <2>1. streams \in Sets /\ remoteClosed \in Sets /\ failed \in Sets
    BY Zenon DEF TypeOK
  <2> QED
    BY <1>0, <2>1, Zenon DEF Shutdown, Sets
<1>2. /\ accepted'[p][t] = IF t \in streams[p] /\ accepted[p][t] = "none" THEN "err" ELSE accepted[p][t]
      /\ accepted'[q] = accepted[q]
  <2>1. accepted \in Outcomes
    BY Zenon DEF TypeOK
  <2> QED
    BY <1>0, <2>1, Zenon DEF Shutdown, Outcomes
<1>3. /\ writer'[p][t] = IF t \in streams[p] /\ writer[p][t] = "wait" THEN "loop" ELSE writer[p][t]
      /\ writer'[q] = writer[q]
  <2>1. writer \in Writers
    BY Zenon DEF TypeOK
  <2> QED
    BY <1>0, <2>1, Zenon DEF Shutdown, Writers
<1>4. UNCHANGED <<phase, isOpen, localClosed, left, chunk, grant, ender>> /\ UNCHANGED sendVars
      /\ UNCHANGED recvVars
  BY Zenon DEF Shutdown
<1>5. \A a \in Peers : SameSend(a, t) /\ SameRecv(a, t)
  BY <1>4, Zenon DEF SameSend, SameRecv, sendVars, recvVars
<1>6. Raised(p, t) /\ Woken(p, t)
  BY <1>1, <1>3, <1>4, Zenon DEF Raised, Woken
<1>7. Downed(p, t)
  BY <1>1, <1>2, <1>4, <1>5, <1>6, Zenon DEF Downed
<1>8. SameWrite(q, t) /\ SameOpen(q, t) /\ SameEnd(q, t)
  BY <1>1, <1>2, <1>3, <1>4, Zenon DEF SameWrite, SameOpen, SameEnd
<1> QED
  BY <1>0, <1>5, <1>7, <1>8, Zenon

\* Losing the end of a channel loses no DATA that a remaining CLOSE follows.
LEMMA CutClose ==
    ASSUME NEW fs \in Chan, NEW n \in 0..Len(fs), NEW gs, Cuts(fs, n, gs), NEW s \in Ids,
           NEW lo, NEW hi, Of(gs, "CLOSE", s) # {},
           \A i \in Of(fs, "DATA", s), j \in Of(fs, "CLOSE", s) : i < j
    PROVE  /\ Of(fs, "CLOSE", s) # {}
           /\ \A i \in Of(gs, "DATA", s), j \in Of(gs, "CLOSE", s) : i < j
           /\ Reaches(fs, "DATA", s, lo, hi) => Reaches(gs, "DATA", s, lo, hi)
<1>1. /\ Of(gs, "DATA", s) = {i \in Of(fs, "DATA", s) : i <= n}
      /\ Of(gs, "CLOSE", s) = {i \in Of(fs, "CLOSE", s) : i <= n}
      /\ \A i \in Of(gs, "DATA", s) : gs[i] = fs[i]
  BY PrefixOf DEF Kinds
<1>2. /\ n \in Nat /\ Len(fs) \in Nat
      /\ Of(fs, "DATA", s) \subseteq Nat /\ Of(fs, "CLOSE", s) \subseteq Nat
  BY DEF Chan, Of
<1>3. PICK j \in Of(fs, "CLOSE", s) : j <= n
  BY <1>1, Zenon
<1>4. \A i \in Of(fs, "DATA", s) : i <= n
  BY <1>2, <1>3
<1>5. Of(gs, "DATA", s) = Of(fs, "DATA", s)
  BY <1>1, <1>4, Zenon
<1> QED
  BY <1>1, <1>3, <1>5, Zenon DEF Reaches

\* What p has sent remains consistent when its end is lost.
LEMMA CutTransit ==
    ASSUME TypeOK, TypeOK', NEW p \in Peers, NEW q \in Peers, q = Other(p), NEW s \in Ids, TransitOK(p, s, q),
           \E n \in 0..Len(net[p]) : Cuts(net[p], n, net'[p]),
           Downed(p, s), Same(q, s), ~Up(p)'
    PROVE  TransitOK(p, s, q)'
<1>1. PICK n \in 0..Len(net[p]) : Cuts(net[p], n, net'[p])
  OBVIOUS
<1>2. /\ net[p] \in Chan /\ "DATA" \in Kinds /\ "WINDOW" \in Kinds /\ "OPEN" \in Kinds
      /\ "ACCEPT" \in Kinds
  BY Zenon DEF TypeOK, Chan, Kinds
<1>3. \A k \in Kinds : /\ Of(net'[p], k, s) \subseteq Of(net[p], k, s)
                       /\ \A i \in Of(net'[p], k, s) : net'[p][i] = net[p][i]
  <2>1. ASSUME NEW k \in Kinds
        PROVE  /\ Of(net'[p], k, s) = {i \in Of(net[p], k, s) : i <= n}
               /\ \A i \in Of(net'[p], k, s) : net'[p][i] = net[p][i]
    BY <1>1, <1>2, PrefixOf
  <2> QED
    BY <2>1, Zenon
<1>4. /\ delivered'[q][s] = delivered[q][s] /\ sent'[p][s] = sent[p][s] /\ chunk'[p][s] = chunk[p][s]
      /\ Credited(q, s)' = Credited(q, s) /\ Issued(p, s)' = Issued(p, s)
      /\ (s \in remoteClosed'[q] <=> s \in remoteClosed[q]) /\ (Shut(q, s)' <=> Shut(q, s))
      /\ phase'[p][s] = phase[p][s] /\ phase'[q][s] = phase[q][s]
  BY Zenon DEF Downed, Same, SameSend, SameRecv, SameEnd, SameOpen, Credited, Issued, Granted, Shut
<1>5. DataOK(p, s, q)'
  <2>1. /\ Within(net'[p], "DATA", s, delivered'[q][s], sent'[p][s] - chunk'[p][s])
        /\ s \in remoteClosed'[q] \/ Linked(net'[p], "DATA", s, delivered'[q][s])
    BY <1>1, <1>2, <1>4, CarryPrefix, Zenon DEF TransitOK, DataOK
  <2>2. \A i \in Of(net'[p], "DATA", s) : Size(net'[p][i]) <= Fragment(p)
    BY <1>2, <1>3, Zenon DEF TransitOK, DataOK
  <2> QED
    BY <2>1, <2>2, Zenon DEF DataOK, Fragment, Size
<1>6. CreditOK(p, s, q)'
  <2>1. /\ Within(net'[p], "WINDOW", s, Credited(q, s)', Issued(p, s)')
        /\ Shut(q, s)' \/ Linked(net'[p], "WINDOW", s, Credited(q, s)')
    BY <1>1, <1>2, <1>4, CarryPrefix, Zenon DEF TransitOK, CreditOK
  <2>2. \A i \in Of(net'[p], "WINDOW", s) : net'[p][i].from = 0 => net'[p][i].to = Window[p]
    <3>1. /\ Of(net'[p], "WINDOW", s) \subseteq Of(net[p], "WINDOW", s)
          /\ \A i \in Of(net'[p], "WINDOW", s) : net'[p][i] = net[p][i]
      BY <1>2, <1>3, Zenon
    <3>2. \A i \in Of(net[p], "WINDOW", s) : net[p][i].from = 0 => net[p][i].to = Window[p]
      BY Zenon DEF TransitOK, CreditOK
    <3> QED
      BY <3>1, <3>2
  <2> QED
    BY <2>1, <2>2, Zenon DEF CreditOK
<1>7. OpenOK(p, s, q)'
  BY <1>2, <1>3, <1>4, Zenon DEF TransitOK, OpenOK, PeerOwns
<1>8. CloseOK(p, s, q)'
  <2>1. Finished(p, s) => Finished(p, s)'
    BY Zenon DEF Finished, Downed, Woken
  <2>2. ASSUME Of(net'[p], "CLOSE", s) # {}
        PROVE  /\ Finished(p, s)
               /\ \A i \in Of(net'[p], "DATA", s), j \in Of(net'[p], "CLOSE", s) : i < j
               /\ \/ s \in remoteClosed[q]
                  \/ Reaches(net'[p], "DATA", s, delivered[q][s], sent[p][s])
    <3>1. Of(net[p], "CLOSE", s) # {}
      BY <1>3, <2>2, Zenon DEF Kinds
    <3>2. /\ Finished(p, s)
          /\ \A i \in Of(net[p], "DATA", s), j \in Of(net[p], "CLOSE", s) : i < j
          /\ \/ s \in remoteClosed[q]
             \/ Reaches(net[p], "DATA", s, delivered[q][s], sent[p][s])
      BY <3>1, Zenon DEF TransitOK, CloseOK
    <3> QED
      BY <1>1, <1>2, <2>2, <3>2, CutClose, Zenon
  <2> QED
    BY <1>4, <2>1, <2>2, Zenon DEF CloseOK
<1> QED
  BY <1>5, <1>6, <1>7, <1>8, Zenon DEF TransitOK

\* An empty channel is consistent when a peer is down.
LEMMA EmptyTransit ==
    ASSUME NEW p \in Peers, NEW q \in Peers, NEW s \in Ids, net'[q] = <<>>, ~Up(p)'
    PROVE  TransitOK(q, s, p)'
<1>1. \A k : Of(net'[q], k, s) = {}
  BY DEF Of
<1>2. DataOK(q, s, p)' /\ CreditOK(q, s, p)'
  BY <1>1, Zenon DEF DataOK, CreditOK, Within, Linked
<1>3. OpenOK(q, s, p)' /\ CloseOK(q, s, p)'
  BY <1>1, Zenon DEF OpenOK, CloseOK
<1> QED
  BY <1>2, <1>3, Zenon DEF TransitOK

\* shutdown keeps IInv.
LEMMA ShutdownInv ==
    ASSUME IInv, NEW p \in Peers, NEW why \in {"closed", "protocol"}, Shutdown(p, why)
    PROVE  IInv'
<1> DEFINE q == Other(p)
<1>0. q \in Peers /\ q # p /\ Other(q) = p /\ TypeOK /\ FlowConforms
  BY OtherPeer, Zenon DEF IInv
<1>1. /\ TypeOK' /\ ~Up(p)' /\ streams'[p] = {} /\ streams'[q] = streams[q]
      /\ (Up(q)' <=> Up(q))
  BY <1>0, ShutdownType, Zenon
<1>2. net'[q] = <<>> /\ \E n \in 0..Len(net[p]) : Cuts(net[p], n, net'[p])
  BY <1>0, ShutdownNet, Zenon
<1>3. nextID' = nextID /\ incoming' = incoming /\ phase' = phase /\ violated' = violated
  BY Zenon DEF Shutdown
<1>4. PeerOK(p, q) /\ PeerOK(q, p)
  BY <1>0, Zenon DEF IInv
<1>5. PeerOK(p, q)'
  BY <1>1, <1>2, <1>3, <1>4, Zenon DEF PeerOK, PeerOwns
<1>6. PeerOK(q, p)'
  <2>1. net[p] = <<>> => net'[p] = <<>>
    <3>1. net'[p] \in Seq(Frame)
      BY <1>1, Zenon DEF TypeOK
    <3>2. ASSUME net[p] = <<>> PROVE Len(net'[p]) = 0
      BY <1>2, <3>2 DEF Cuts
    <3> QED
      BY <3>1, <3>2
  <2> QED
    BY <1>1, <1>3, <1>4, <2>1, Zenon DEF PeerOK, PeerOwns
<1>7. FlowConforms'
  BY <1>0, <1>3, Zenon DEF FlowConforms
<1>8. ASSUME NEW s \in Ids
      PROVE  /\ StateOK(p, s, q)' /\ TransitOK(p, s, q)'
             /\ StateOK(q, s, p)' /\ TransitOK(q, s, p)'
  <2>1. Downed(p, s) /\ Same(q, s)
    BY <1>0, ShutdownStreams, Zenon DEF Same
  <2>2. StateOK(p, s, q) /\ StateOK(q, s, p) /\ TransitOK(p, s, q)
    BY <1>0, Zenon DEF IInv
  <2>3. TransitOK(p, s, q)'
    BY <1>0, <1>1, <1>2, <2>1, <2>2, CutTransit, Zenon
  <2>4. TransitOK(q, s, p)'
    BY <1>0, <1>1, <1>2, EmptyTransit, Zenon
  <2>5. /\ Issued(p, s)' = Issued(p, s) /\ Issued(q, s)' = Issued(q, s) /\ Raised(q, s) /\ Woken(q, s)
        /\ SameSend(p, s) /\ SameRecv(p, s) /\ Raised(p, s) /\ Woken(p, s)
        /\ SameSend(q, s) /\ SameRecv(q, s) /\ SameOpen(q, s) /\ SameEnd(q, s)
        /\ left'[p][s] = left[p][s] /\ chunk'[p][s] = chunk[p][s]
        /\ left'[q][s] = left[q][s] /\ chunk'[q][s] = chunk[q][s]
    BY <1>3, <2>1, Zenon DEF Downed, Same, SameWrite, SameRecv, SameEnd, SameOpen, Issued, Granted, Raised, Woken
  <2>6. Ledger(p, s, q)' /\ Ledger(q, s, p)'
    BY <1>0, <2>2, <2>5, LedgerSame, Zenon DEF StateOK
  <2>7. WriterOK(p, s)' /\ WriterOK(q, s)'
    BY <1>0, <2>2, <2>5, WriterSame, Zenon DEF StateOK
  <2>8. Ending(q, s, p)'
    <3>1. /\ sent'[q][s] = sent[q][s] /\ delivered'[p][s] = delivered[p][s]
          /\ s \in remoteClosed'[p] => s \in remoteClosed[p] \/ s \in failed'[p]
      BY <2>1, <2>5, Zenon DEF Downed, SameSend, SameRecv
    <3> QED
      BY <1>0, <2>2, <2>5, <3>1, EndingSame, Zenon DEF StateOK
  <2>9. Ending(p, s, q)'
    <3>1. Ending(p, s, q)
      BY <2>2, Zenon DEF StateOK
    <3>2. /\ Finished(p, s) => Finished(p, s)'
          /\ sent'[p][s] = sent[p][s] /\ delivered'[q][s] = delivered[q][s]
          /\ s \in remoteClosed'[q] <=> s \in remoteClosed[q]
          /\ s \in failed'[q] <=> s \in failed[q]
      BY <2>1, <2>5, Zenon DEF Finished, Downed, Woken, SameSend, SameRecv, SameEnd
    <3> QED
      BY <2>1, <3>1, <3>2, Zenon DEF Ending, Downed
  <2>10. Handshake(q, s, p)'
    <3>1. Handshake(q, s, p) /\ phase'[p][s] = phase[p][s] /\ Advances(q)
      BY <1>3, <2>2, Zenon DEF StateOK, Advances
    <3> QED
      BY <1>0, <2>5, <3>1, HandshakeSame, Zenon
  <2>11. Handshake(p, s, q)'
    <3>1. Handshake(p, s, q)
      BY <2>2, Zenon DEF StateOK
    <3> QED
      BY <1>1, <1>3, <2>1, <2>5, <3>1, Zenon DEF Handshake, Downed, SameRecv, Shut, PeerOwns
  <2> QED
    BY <2>3, <2>4, <2>6, <2>7, <2>8, <2>9, <2>10, <2>11, Zenon DEF StateOK
<1>9. \A a \in Peers : a = p \/ a = q
  BY OtherPeer, Zenon
<1> QED
  BY <1>0, <1>1, <1>5, <1>6, <1>7, <1>8, <1>9, Zenon DEF IInv

-----------------------------------------------------------------------------
(* Every step keeps IInv *)

\* New: the types.
LEMMA InitType ==
    ASSUME Init
    PROVE  TypeOK
<1>1. NoStream \in Sets /\ Zeros \in Counters
  BY DEF NoStream, Zeros, Sets, Counters
<1>2. All("none") \in Phases /\ All("none") \in Outcomes /\ All("none") \in Enders /\ All("idle") \in Writers
  BY Zenon DEF All, Phases, Outcomes, Enders, Writers
<1>3. /\ cause \in [Peers -> {"up", "closed", "protocol"}]
      /\ incoming \in [Peers -> Seq(Ids)] /\ net \in [Peers -> Seq(Frame)]
      /\ nextID \in [Peers -> Nat \ {0}]
  BY DEF Init
<1> QED
  BY <1>1, <1>2, <1>3, Zenon DEF Init, TypeOK

\* New: the variables of a stream.
LEMMA InitValues ==
    ASSUME Init, NEW p \in Peers, NEW s \in Ids
    PROVE  /\ sent[p][s] = 0 /\ sendCredit[p][s] = 0 /\ peerWindow[p][s] = 0 /\ recvCredit[p][s] = 0
           /\ pendingWindow[p][s] = 0 /\ delivered[p][s] = 0 /\ consumed[p][s] = 0
           /\ left[p][s] = 0 /\ chunk[p][s] = 0 /\ grant[p][s] = 0
           /\ phase[p][s] = "none" /\ accepted[p][s] = "none" /\ writer[p][s] = "idle"
           /\ ender[p][s] = "none" /\ net[p] = <<>>
           /\ s \notin localClosed[p] /\ s \notin remoteClosed[p] /\ s \notin failed[p]
           /\ s \notin peerWindowSet[p] /\ s \notin windowAdvertised[p]
<1>1. Zeros[p][s] = 0 /\ All("none")[p][s] = "none" /\ All("idle")[p][s] = "idle" /\ NoStream[p] = {}
  BY Zenon DEF Zeros, All, NoStream
<1> QED
  BY <1>1, Zenon DEF Init

\* New establishes IInv.
LEMMA InitInv ==
    ASSUME Init
    PROVE  IInv
<1>1. TypeOK
  BY InitType, Zenon
<1>2. FlowConforms
  BY Zenon DEF Init, FlowConforms, NoStream
<1>3. ASSUME NEW p \in Peers PROVE PeerOK(p, Other(p))
  <2>1. PeerOwns(Other(p), nextID[p])
    BY <1>3 DEF Init, PeerOwns, Peers, Other
  <2>2. Up(p) /\ 1..Len(incoming[p]) = {}
    BY DEF Init, Up
  <2> QED
    BY <2>1, <2>2, Zenon DEF PeerOK
<1>4. ASSUME NEW p \in Peers, NEW s \in Ids PROVE StateOK(p, s, Other(p)) /\ TransitOK(p, s, Other(p))
  <2> DEFINE q == Other(p)
  <2>0. q \in Peers
    BY OtherPeer, Zenon
  <2>1. Granted(q, s) = 0 /\ Credited(p, s) = 0 /\ Issued(q, s) = 0 /\ Credited(q, s) = 0
        /\ sent[p][s] - chunk[p][s] = 0 /\ delivered[q][s] + chunk[p][s] <= sent[p][s]
        /\ consumed[q][s] <= delivered[q][s] /\ Granted(p, s) = 0 /\ Issued(p, s) = 0
        /\ Credited(p, s) <= Issued(q, s)
    BY <2>0, InitValues DEF Granted, Credited, Issued
  <2>2. Ledger(p, s, q)
    BY <2>0, <2>1, InitValues, Zenon DEF Ledger
  <2>3. WriterOK(p, s)
    <3>1. chunk[p][s] = 0 /\ left[p][s] = 0 /\ writer[p][s] = "idle"
      BY InitValues, Zenon
    <3>2. 0 <= Fragment(p) /\ 0 <= 0
      BY Sizes
    <3> QED
      BY <3>1, <3>2 DEF WriterOK
  <2>4. Ending(p, s, q)
    BY <2>0, InitValues, Zenon DEF Ending
  <2>5. Handshake(p, s, q)
    <3>1. ~(grant[p][s] > 0)
      BY InitValues
    <3> QED
      BY <2>0, <3>1, InitValues, Zenon DEF Handshake
  <2>6. TransitOK(p, s, q)
    <3>1. \A k : Of(net[p], k, s) = {}
      BY InitValues DEF Of
    <3>2. DataOK(p, s, q)
      BY <2>0, <2>1, <3>1, InitValues, Zenon DEF DataOK, Within, Linked, Reaches
    <3>3. CreditOK(p, s, q)
      BY <2>0, <2>1, <3>1, Zenon DEF CreditOK, Within, Linked, Reaches
    <3> QED
      BY <3>1, <3>2, <3>3, Zenon DEF TransitOK, OpenOK, CloseOK
  <2> QED
    BY <2>2, <2>3, <2>4, <2>5, <2>6, Zenon DEF StateOK
<1> QED
  BY <1>1, <1>2, <1>3, <1>4, Zenon DEF IInv

\* Stuttering keeps IInv.
LEMMA StutterInv ==
    ASSUME IInv, UNCHANGED vars
    PROVE  IInv'
<1>1. TypeOK'
  BY Zenon DEF IInv, TypeOK, vars
<1>2. FlowConforms'
  BY Zenon DEF IInv, FlowConforms, vars
<1>3. ASSUME NEW p \in Peers PROVE PeerOK(p, Other(p))'
  BY Zenon DEF IInv, PeerOK, PeerOwns, Up, vars
<1>4. ASSUME NEW p \in Peers, NEW s \in Ids PROVE StateOK(p, s, Other(p))'
  <2>1. StateOK(p, s, Other(p))
    BY Zenon DEF IInv
  <2>2. Ledger(p, s, Other(p))' /\ WriterOK(p, s)'
    BY <2>1, Zenon DEF StateOK, Ledger, WriterOK, Fragment, Issued, Granted, Credited, vars
  <2>3. Ending(p, s, Other(p))'
    BY <2>1, Zenon DEF StateOK, Ending, Finished, vars
  <2>4. Handshake(p, s, Other(p))'
    BY <2>1, Zenon DEF StateOK, Handshake, Shut, PeerOwns, vars
  <2> QED
    BY <2>2, <2>3, <2>4, Zenon DEF StateOK
<1>5. ASSUME NEW p \in Peers, NEW s \in Ids PROVE TransitOK(p, s, Other(p))'
  <2>1. TransitOK(p, s, Other(p))
    BY Zenon DEF IInv
  <2> QED
    BY <2>1, Zenon DEF TransitOK, DataOK, CreditOK, OpenOK, CloseOK, Fragment, Finished, Shut, Issued, Granted,
       Credited, PeerOwns, Up, vars
<1> QED
  BY <1>1, <1>2, <1>3, <1>4, <1>5, Zenon DEF IInv

\* handleFrame keeps IInv.
LEMMA HandleFrameInv ==
    ASSUME IInv, NEW p \in Peers, HandleFrame(p)
    PROVE  IInv'
<1>1. CASE AcceptOpen(p)
  <2>1. Arrives(p, "OPEN") /\ TypeOK
    BY <1>1, Zenon DEF AcceptOpen, IInv
  <2>2. Arrived(p).id \in Ids
    BY <2>1, ArrivalFacts, Zenon DEF Arrives
  <2>3. PICK s \in Ids : s = Arrived(p).id
    BY <2>2, Zenon
  <2>4. PeerOwns(p, s)
    BY <2>1, <2>3, OpenArrives, Zenon
  <2>5. CASE s \in streams[p]
    <3>1. Shutdown(p, "protocol")
      BY <1>1, <2>3, <2>5, Zenon DEF AcceptOpen
    <3> QED
      BY <3>1, ShutdownInv, Zenon
  <2>6. CASE s \notin streams[p]
    BY <1>1, <2>3, <2>6, AcceptOpenInv, Zenon
  <2> QED
    BY <2>5, <2>6, Zenon
<1>2. CASE HandleAccept(p)
  <2>1. CASE Arrived(p).id \in streams[p]
    BY <1>2, <2>1, HandleAcceptInv, Zenon
  <2>2. CASE Arrived(p).id \notin streams[p]
    <3>1. Shutdown(p, "protocol")
      BY <1>2, <2>2, Zenon DEF HandleAccept
    <3> QED
      BY <3>1, ShutdownInv, Zenon
  <2> QED
    BY <2>1, <2>2, Zenon
<1>3. CASE RefuseOpen(p)
  BY <1>3, RefuseOpenInv, Zenon
<1>4. CASE DropWindow(p)
  BY <1>4, DropWindowInv, Zenon
<1>5. CASE HandleWindow(p)
  BY <1>5, HandleWindowInv, Zenon
<1>6. CASE RejectData(p)
  BY <1>6, RejectDataInv, Zenon
<1>7. CASE HandleData(p)
  BY <1>7, HandleDataInv, Zenon
<1>8. CASE DropEnd(p)
  BY <1>8, DropEndInv, Zenon
<1>9. CASE HandleClose(p)
  BY <1>9, HandleCloseInv, Zenon
<1>10. CASE HandleReset(p)
  BY <1>10, HandleResetInv, Zenon
<1> QED
  BY <1>1, <1>2, <1>3, <1>4, <1>5, <1>6, <1>7, <1>8, <1>9, <1>10, Zenon DEF HandleFrame

\* Every step keeps IInv.
LEMMA NextInv ==
    ASSUME IInv, Next
    PROVE  IInv'
<1>1. PICK p \in Peers :
        \/ MuxClose(p) \/ NewLocalStream(p) \/ Accept(p) \/ HandleFrame(p)
        \/ \E s \in Ids :
             \/ OpenStep(p, s) \/ CancelOpen(p, s) \/ ReadStep(p, s)
             \/ \E n \in 1..WriteLimit[p] : WriteBegin(p, s, n)
             \/ WriteStep(p, s) \/ Close(p, s) \/ Reset(p, s) \/ EndStep(p, s)
  BY Zenon DEF Next
<1>2. CASE MuxClose(p)
  <2>1. Shutdown(p, "closed")
    BY <1>2, Zenon DEF MuxClose
  <2> QED
    BY <2>1, ShutdownInv, Zenon
<1>3. CASE NewLocalStream(p)
  BY <1>3, NewLocalStreamInv, Zenon
<1>4. CASE Accept(p)
  BY <1>4, AcceptInv, Zenon
<1>5. CASE HandleFrame(p)
  BY <1>5, HandleFrameInv, Zenon
<1>6. ASSUME NEW s \in Ids, OpenStep(p, s) PROVE IInv'
  BY <1>6, SendOpenInv, OpenAcceptedInv, SendInitialWindowInv, InitialWindowFailsInv, OpenFailedInv, Zenon
     DEF OpenStep
<1>7. ASSUME NEW s \in Ids, CancelOpen(p, s) PROVE IInv'
  BY <1>7, CancelOpenInv, Zenon
<1>8. ASSUME NEW s \in Ids, ReadStep(p, s) PROVE IInv'
  BY <1>8, ReadGrantInv, ReadQuietInv, SendWindowInv, ReadWaitInv, Zenon DEF ReadStep
<1>9. ASSUME NEW s \in Ids, NEW n \in 1..WriteLimit[p], WriteBegin(p, s, n) PROVE IInv'
  BY <1>9, WriteBeginInv, Zenon
<1>10. ASSUME NEW s \in Ids, WriteStep(p, s) PROVE IInv'
  BY <1>10, WriteFailInv, WriteWaitInv, WriteChunkInv, WriteSendInv, Zenon DEF WriteStep
<1>11. ASSUME NEW s \in Ids, Close(p, s) \/ Reset(p, s) PROVE IInv'
  BY <1>11, CloseInv, ResetInv, Zenon
<1>12. ASSUME NEW s \in Ids, EndStep(p, s) PROVE IInv'
  BY <1>12, SendCloseInv, CloseRemoveInv, SendResetInv, ResetRemoveInv, Zenon DEF EndStep
<1> QED
  BY <1>1, <1>2, <1>3, <1>4, <1>5, <1>6, <1>7, <1>8, <1>9, <1>10, <1>11, <1>12, Zenon

\* IInv is an invariant of the two muxes.
THEOREM Inductive == Spec => []IInv
<1>1. Init => IInv
  BY InitInv, Zenon
<1>2. IInv /\ [Next]_vars => IInv'
  BY NextInv, StutterInv, Zenon
<1> QED
  BY <1>1, <1>2, PTL DEF Spec

\* Every variable keeps its type: counters never become negative, and queues
\* and channels hold stream IDs and frames.
THEOREM TypeCorrect == Spec => []TypeOK
<1>1. IInv => TypeOK
  BY Zenon DEF IInv
<1> QED
  BY <1>1, Inductive, PTL

\* Stream.deliver, Stream.addSendCredit and Stream.Read never report
\* ErrFlowControlViolation between two peers that run this code, whatever the
\* windows, thresholds and payload limits of New and the interleaving.
THEOREM FlowSafe == Spec => []FlowConforms
<1>1. IInv => FlowConforms
  BY Zenon DEF IInv
<1> QED
  BY <1>1, Inductive, PTL

\* Read returns io.EOF only after every byte that Write accepted at the other
\* end has been delivered.
THEOREM CleanEnd == Spec => []CleanEOF
<1>1. ASSUME IInv PROVE CleanEOF
  <2> SUFFICES ASSUME NEW p \in Peers, NEW s \in Ids, s \in remoteClosed[Other(p)] \ failed[Other(p)]
               PROVE  /\ delivered[Other(p)][s] = sent[p][s] /\ s \in localClosed[p] /\ writer[p][s] = "idle"
    BY Zenon DEF CleanEOF
  <2>1. Ending(p, s, Other(p))
    BY <1>1, Zenon DEF IInv, StateOK
  <2> QED
    BY <2>1, Zenon DEF Ending, Finished
<1> QED
  BY <1>1, Inductive, PTL

\* The arithmetic of EndToEndBound.
LEMMA Bound ==
    ASSUME NEW a \in Nat, NEW cr \in Nat, NEW c \in Nat, NEW g \in Nat, NEW gr \in Nat, NEW pw \in Nat, NEW w \in Nat,
           a + cr <= 0 \/ a + cr <= g - gr, g + pw <= w + c
    PROVE  a - c <= w
  OBVIOUS

\* The bytes written and not yet read never exceed the receiver's window.
THEOREM Bounded == Spec => []EndToEndBound
<1>1. ASSUME IInv PROVE EndToEndBound
  <2> SUFFICES ASSUME NEW p \in Peers, NEW s \in Ids
               PROVE  sent[p][s] - consumed[Other(p)][s] <= Window[Other(p)]
    BY Zenon DEF EndToEndBound
  <2> DEFINE q == Other(p)
  <2>1. Ledger(p, s, q) /\ q \in Peers /\ TypeOK
    BY <1>1, OtherPeer, Zenon DEF IInv, StateOK
  <2>2. /\ sent[p][s] \in Nat /\ sendCredit[p][s] \in Nat /\ consumed[q][s] \in Nat /\ delivered[q][s] \in Nat
        /\ recvCredit[q][s] \in Nat /\ grant[q][s] \in Nat /\ pendingWindow[q][s] \in Nat /\ Window[q] \in Nat
    BY <2>1, Numbers, Sizes, Zenon
  <2>3. Granted(q, s) \in Nat
    BY <2>2 DEF Granted
  <2>4. \/ sent[p][s] + sendCredit[p][s] <= 0
        \/ sent[p][s] + sendCredit[p][s] <= Granted(q, s) - grant[q][s]
    BY <2>1, Zenon DEF Ledger, Credited, Issued
  <2>5. Granted(q, s) + pendingWindow[q][s] <= Window[q] + consumed[q][s]
    <3>1. CASE s \in windowAdvertised[q]
      BY <2>1, <3>1, Zenon DEF Ledger
    <3>2. CASE s \notin windowAdvertised[q]
      <4>1. Granted(q, s) = 0 /\ pendingWindow[q][s] = 0
        BY <2>1, <3>2, Zenon DEF Ledger
      <4> QED
        BY <2>2, <4>1
    <3> QED
      BY <3>1, <3>2, Zenon
  <2> QED
    BY <2>2, <2>3, <2>4, <2>5, Bound
<1> QED
  BY <1>1, Inductive, PTL

\* While a direction is in use, the DATA frames in transit are exactly the
\* bytes sent and not delivered, in order, without gap or repetition.
THEOREM InOrder == Spec => []BytesInOrder
<1>1. ASSUME IInv PROVE BytesInOrder
  <2> SUFFICES ASSUME NEW p \in Peers, NEW s \in Ids, Flowing(p, s)
               PROVE  Carries(net[p], "DATA", s, delivered[Other(p)][s], sent[p][s] - chunk[p][s])
    BY Zenon DEF BytesInOrder
  <2>1. DataOK(p, s, Other(p))
    BY <1>1, Zenon DEF IInv, TransitOK
  <2> QED
    BY <2>1, Zenon DEF DataOK, Flowing, Carries
<1> QED
  BY <1>1, Inductive, PTL

\* While a direction is in use, no credit is lost: what Read has granted and
\* the sender has not booked is in transit, and it all adds up to the window.
THEOREM CreditKept == Spec => []CreditConserved
<1>1. ASSUME IInv PROVE CreditConserved
  <2> SUFFICES ASSUME NEW p \in Peers, NEW s \in Ids, Flowing(p, s), phase[Other(p)][s] # "accepted"
               PROVE  /\ Carries(net[Other(p)], "WINDOW", s, Credited(p, s),
                                 Granted(Other(p), s) - grant[Other(p)][s])
                      /\ Granted(Other(p), s) + pendingWindow[Other(p)][s]
                           = Window[Other(p)] + consumed[Other(p)][s]
    BY Zenon DEF CreditConserved
  <2> DEFINE q == Other(p)
  <2>0. q \in Peers /\ Other(q) = p
    BY OtherPeer, Zenon
  <2>1. CreditOK(q, s, p) /\ Ledger(p, s, q)
    BY <1>1, <2>0, Zenon DEF IInv, TransitOK, StateOK
  <2>2. ~Shut(p, s) /\ Issued(q, s) = Granted(q, s) - grant[q][s] /\ Up(p) /\ Up(q)
        /\ s \in windowAdvertised[q] /\ s \notin remoteClosed[q]
    BY Zenon DEF Flowing, Shut, Issued
  <2>3. Carries(net[q], "WINDOW", s, Credited(p, s), Granted(q, s) - grant[q][s])
    BY <2>1, <2>2, Zenon DEF CreditOK, Carries
  <2> QED
    BY <2>1, <2>2, <2>3, Zenon DEF Ledger
<1> QED
  BY <1>1, Inductive, PTL

=============================================================================
