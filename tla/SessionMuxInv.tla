--------------------------- MODULE SessionMuxInv ----------------------------
(***************************************************************************)
(* The inductive invariant of SessionMux, for every window, payload limit, *)
(* backlog and number of streams.                                          *)
(*                                                                         *)
(* FlowConforms is not inductive: whether a handler reports a violation    *)
(* depends on the frames in transit.  IInv adds, for each direction of     *)
(* each stream, the ledger of bytes and credit (Ledger), what the frames   *)
(* in transit carry of it (DataOK, CreditOK, OpenOK, CloseOK), and how far *)
(* opening and closing have come (Handshake, Ending).                      *)
(*                                                                         *)
(* The first part is about channels alone: what appending, taking and      *)
(* losing frames does to the frames of one kind and stream.  Appends, Drops*)
(* and Cuts state the three changes by positions, Keeps that a change      *)
(* leaves the frames of a kind and stream alone; Within, Linked and Reaches*)
(* (SessionMux) say what those frames carry.                               *)
(***************************************************************************)
EXTENDS SessionMux, TLAPS

Chan == Seq(Frame)

Appends(fs, f, gs) == /\ Len(gs) = Len(fs) + 1
                      /\ gs[Len(fs) + 1] = f
                      /\ \A i \in 1..Len(fs) : gs[i] = fs[i]

Drops(fs, gs) == /\ Len(fs) >= 1
                 /\ Len(gs) = Len(fs) - 1
                 /\ \A i \in 1..Len(gs) : gs[i] = fs[i + 1]

Cuts(fs, n, gs) == Len(gs) = n /\ \A i \in 1..n : gs[i] = fs[i]

\* Append extends a channel by one frame.
LEMMA ChanAppend ==
    ASSUME NEW fs \in Chan, NEW f \in Frame
    PROVE  Append(fs, f) \in Chan /\ Appends(fs, f, Append(fs, f))
  BY DEF Chan, Appends

\* Tail drops the first frame.
LEMMA ChanTail ==
    ASSUME NEW fs \in Chan, fs # <<>>
    PROVE  /\ Tail(fs) \in Chan /\ Drops(fs, Tail(fs))
           /\ Head(fs) = fs[1] /\ Head(fs) \in Frame
  BY DEF Chan, Drops

\* A prefix cuts a channel.
LEMMA ChanPrefix ==
    ASSUME NEW fs \in Chan, NEW n \in 0..Len(fs)
    PROVE  SubSeq(fs, 1, n) \in Chan /\ Cuts(fs, n, SubSeq(fs, 1, n))
  BY DEF Chan, Cuts

\* The positions and the fields of the frames of a kind and stream.
LEMMA OfFrames ==
    ASSUME NEW fs \in Chan, NEW k \in Kinds, NEW s \in Ids, NEW i \in Of(fs, k, s)
    PROVE  /\ Len(fs) \in Nat /\ i \in 1..Len(fs) /\ i \in Nat
           /\ fs[i] \in Frame /\ fs[i].from \in Nat /\ fs[i].to \in Nat
<1>1. Len(fs) \in Nat /\ i \in 1..Len(fs)
  BY DEF Of, Chan
<1>2. fs[i] \in Frame
  BY <1>1 DEF Chan
<1> QED
  BY <1>1, <1>2 DEF Frame

\* A frame that is not of kind k and stream s leaves the frames that are alone.
LEMMA AppendOf ==
    ASSUME NEW fs \in Chan, NEW f \in Frame, NEW k \in Kinds, NEW s \in Ids,
           NEW gs, Appends(fs, f, gs)
    PROVE  /\ ~(f.kind = k /\ f.id = s) => Of(gs, k, s) = Of(fs, k, s)
           /\ f.kind = k /\ f.id = s =>
                Of(gs, k, s) = Of(fs, k, s) \cup {Len(fs) + 1}
           /\ \A i \in Of(fs, k, s) : i \in 1..Len(fs) /\ gs[i] = fs[i]
           /\ gs[Len(fs) + 1] = f
           /\ Len(fs) \in Nat
<1>1. Len(fs) \in Nat
  BY DEF Chan
<1>2. 1..Len(gs) = 1..Len(fs) \cup {Len(fs) + 1}
  BY <1>1 DEF Appends
<1>3. gs[Len(fs) + 1] = f /\ \A i \in 1..Len(fs) : gs[i] = fs[i]
  BY DEF Appends
<1> QED
  BY <1>1, <1>2, <1>3 DEF Of

\* Dropping the first frame moves the others one place.
LEMMA TailOf ==
    ASSUME NEW fs \in Chan, NEW k \in Kinds, NEW s \in Ids,
           NEW gs, Drops(fs, gs)
    PROVE  /\ Len(fs) \in Nat
           /\ Of(gs, k, s) = {i \in Nat \ {0} : i + 1 \in Of(fs, k, s)}
           /\ \A i \in Of(gs, k, s) : gs[i] = fs[i + 1]
           /\ \A i \in Of(fs, k, s) : i \in Nat \ {0} /\ fs[i] \in Frame
           /\ 1 \in Of(fs, k, s) <=> fs[1].kind = k /\ fs[1].id = s
<1>1. Len(fs) \in Nat /\ Len(fs) >= 1 /\ Len(gs) = Len(fs) - 1
  BY DEF Drops, Chan
<1>2. \A i \in 1..Len(gs) : gs[i] = fs[i + 1]
  BY DEF Drops
<1>3. \A i \in 1..Len(fs) : fs[i] \in Frame
  BY DEF Chan
<1>4. Of(gs, k, s) = {i \in Nat \ {0} : i + 1 \in Of(fs, k, s)}
  BY <1>1, <1>2 DEF Of
<1>5. \A i \in Of(gs, k, s) : gs[i] = fs[i + 1]
  BY <1>2 DEF Of
<1> QED
  BY <1>1, <1>3, <1>4, <1>5 DEF Of

\* Cutting a channel keeps the frames up to the cut.
LEMMA PrefixOf ==
    ASSUME NEW fs \in Chan, NEW n \in 0..Len(fs), NEW k \in Kinds, NEW s \in Ids,
           NEW gs, Cuts(fs, n, gs)
    PROVE  /\ Of(gs, k, s) = {i \in Of(fs, k, s) : i <= n}
           /\ \A i \in Of(gs, k, s) : gs[i] = fs[i]
<1>1. Len(fs) \in Nat /\ Len(gs) = n /\ \A i \in 1..n : gs[i] = fs[i]
  BY DEF Chan, Cuts
<1> QED
  BY <1>1 DEF Of

\* The next frame extends what a channel carries.
LEMMA CarryNext ==
    ASSUME NEW fs \in Chan, NEW f \in Frame, NEW k \in Kinds, NEW s \in Ids,
           NEW lo \in Nat, NEW hi \in Nat,
           f.kind = k, f.id = s, f.from = hi, hi < f.to, lo <= hi,
           Within(fs, k, s, lo, hi),
           NEW gs, Appends(fs, f, gs)
    PROVE  /\ Within(gs, k, s, lo, f.to)
           /\ Reaches(fs, k, s, lo, hi) /\ Linked(fs, k, s, lo) =>
                Linked(gs, k, s, lo)
           /\ Reaches(gs, k, s, lo, f.to)
<1> DEFINE n == Len(fs) + 1
<1>1. /\ Len(fs) \in Nat
      /\ Of(gs, k, s) = Of(fs, k, s) \cup {n}
      /\ gs[n] = f
      /\ \A i \in Of(fs, k, s) : i \in 1..Len(fs) /\ gs[i] = fs[i]
  BY AppendOf
<1>2. f.from \in Nat /\ f.to \in Nat
  BY DEF Frame
<1>3. \A i \in Of(fs, k, s) : fs[i].from \in Nat /\ fs[i].to \in Nat
  BY OfFrames
<1>4. Within(gs, k, s, lo, f.to)
  BY SMTT(30), <1>1, <1>2, <1>3 DEF Within
<1>5. ASSUME Reaches(fs, k, s, lo, hi), Linked(fs, k, s, lo) PROVE Linked(gs, k, s, lo)
  BY <1>1, <1>2, <1>3, <1>5 DEF Linked, Reaches
<1>6. Reaches(gs, k, s, lo, f.to)
  BY <1>1 DEF Reaches
<1> QED
  BY <1>4, <1>5, <1>6

\* The frames of kind k and stream s stay, and move up by d places.
Keeps(fs, gs, d, k, s) ==
    /\ Of(gs, k, s) = {i \in Nat \ {0} : i + d \in Of(fs, k, s)}
    /\ \A i \in Of(gs, k, s) : gs[i] = fs[i + d]
    /\ \A i \in Of(fs, k, s) : i > d

\* Appending another frame keeps those of kind k and stream s.
LEMMA KeepsAppend ==
    ASSUME NEW fs \in Chan, NEW f \in Frame, NEW k \in Kinds, NEW s \in Ids,
           NEW gs, Appends(fs, f, gs), f.kind # k \/ f.id # s
    PROVE  Keeps(fs, gs, 0, k, s)
<1>1. /\ Of(gs, k, s) = Of(fs, k, s)
      /\ \A i \in Of(fs, k, s) : i \in Nat \ {0} /\ gs[i] = fs[i] /\ i + 0 = i
  BY AppendOf
<1> QED
  BY <1>1 DEF Keeps

\* So does no change.
LEMMA KeepsSame ==
    ASSUME NEW fs \in Chan, NEW k \in Kinds, NEW s \in Ids
    PROVE  Keeps(fs, fs, 0, k, s)
<1>1. \A i \in Of(fs, k, s) : i \in Nat \ {0} /\ i + 0 = i
  BY OfFrames
<1> QED
  BY <1>1 DEF Keeps

\* So does dropping another frame.
LEMMA KeepsDrop ==
    ASSUME NEW fs \in Chan, NEW k \in Kinds, NEW s \in Ids,
           NEW gs, Drops(fs, gs), fs[1].kind # k \/ fs[1].id # s
    PROVE  Keeps(fs, gs, 1, k, s)
<1>1. /\ Of(gs, k, s) = {i \in Nat \ {0} : i + 1 \in Of(fs, k, s)}
      /\ \A i \in Of(gs, k, s) : gs[i] = fs[i + 1]
      /\ \A i \in Of(fs, k, s) : i \in Nat \ {0}
      /\ 1 \notin Of(fs, k, s)
  BY TailOf
<1>2. \A i \in Of(fs, k, s) : i > 1
  BY <1>1
<1> QED
  BY <1>1, <1>2 DEF Keeps

\* Frames of other kinds and streams do not matter.
LEMMA CarrySame ==
    ASSUME NEW fs \in Chan, NEW gs \in Chan, NEW d \in {0, 1},
           NEW k \in Kinds, NEW s \in Ids, Keeps(fs, gs, d, k, s), NEW lo, NEW hi
    PROVE  /\ Within(fs, k, s, lo, hi) => Within(gs, k, s, lo, hi)
           /\ Linked(fs, k, s, lo) => Linked(gs, k, s, lo)
           /\ Reaches(fs, k, s, lo, hi) => Reaches(gs, k, s, lo, hi)
           /\ Of(fs, k, s) = {} => Of(gs, k, s) = {}
<1>1. /\ \A i \in Of(gs, k, s) : i \in Nat /\ i + d \in Of(fs, k, s) /\ gs[i] = fs[i + d]
      /\ d \in Nat
  BY DEF Keeps
<1>2. ASSUME NEW i \in Of(fs, k, s)
      PROVE  i - d \in Of(gs, k, s) /\ gs[i - d] = fs[i]
  <2>1. i \in Nat /\ i - d \in Nat \ {0} /\ (i - d) + d = i
    BY OfFrames DEF Keeps
  <2> QED
    BY <2>1 DEF Keeps
<1>3. ASSUME Within(fs, k, s, lo, hi) PROVE Within(gs, k, s, lo, hi)
  BY <1>1, <1>3 DEF Within
<1>4. ASSUME Linked(fs, k, s, lo) PROVE Linked(gs, k, s, lo)
  <2> SUFFICES ASSUME NEW i \in Of(gs, k, s), gs[i].from # lo
               PROVE  \E j \in Of(gs, k, s) : j < i /\ gs[j].to = gs[i].from
    BY DEF Linked
  <2>1. PICK j \in Of(fs, k, s) : j < i + d /\ fs[j].to = gs[i].from
    BY <1>1, <1>4 DEF Linked
  <2>2. j \in Nat /\ i \in Nat
    BY <1>1, OfFrames
  <2>3. j - d < i
    BY <1>1, <2>1, <2>2
  <2> QED
    BY <1>2, <2>1, <2>3
<1>5. ASSUME Reaches(fs, k, s, lo, hi) PROVE Reaches(gs, k, s, lo, hi)
  BY <1>2, <1>5 DEF Reaches
<1>6. Of(fs, k, s) = {} => Of(gs, k, s) = {}
  BY <1>1
<1> QED
  BY <1>3, <1>4, <1>5, <1>6

\* Taking the next frame shortens what a channel carries.
LEMMA CarryTail ==
    ASSUME NEW fs \in Chan, NEW k \in Kinds, NEW s \in Ids, NEW lo \in Nat, NEW hi,
           Within(fs, k, s, lo, hi),
           NEW gs, Drops(fs, gs)
    PROVE  /\ Within(gs, k, s, lo, hi)
           /\ fs[1].kind = k /\ fs[1].id = s =>
                /\ Linked(fs, k, s, lo) => /\ fs[1].from = lo
                                           /\ Linked(gs, k, s, fs[1].to)
                /\ lo <= fs[1].from /\ fs[1].from < fs[1].to /\ fs[1].to <= hi
                /\ Within(gs, k, s, fs[1].to, hi)
                /\ Reaches(fs, k, s, lo, hi) => Reaches(gs, k, s, fs[1].to, hi)
<1>1. /\ Of(gs, k, s) = {i \in Nat \ {0} : i + 1 \in Of(fs, k, s)}
      /\ \A i \in Of(gs, k, s) : gs[i] = fs[i + 1]
      /\ \A i \in Of(fs, k, s) : i \in Nat \ {0} /\ fs[i] \in Frame
      /\ 1 \in Of(fs, k, s) <=> fs[1].kind = k /\ fs[1].id = s
  BY TailOf
<1>a. \A i \in Of(fs, k, s) : fs[i].from \in Nat /\ fs[i].to \in Nat
  BY <1>1 DEF Frame
<1>b. \A i \in Of(fs, k, s) : i # 1 => i - 1 \in Of(gs, k, s) /\ gs[i - 1] = fs[i]
  <2> SUFFICES ASSUME NEW i \in Of(fs, k, s), i # 1
               PROVE  i - 1 \in Of(gs, k, s) /\ gs[i - 1] = fs[i]
    OBVIOUS
  <2>1. i - 1 \in Nat \ {0} /\ (i - 1) + 1 = i
    BY <1>1
  <2> QED
    BY <1>1, <2>1
<1>2. Within(gs, k, s, lo, hi)
  BY <1>1 DEF Within
<1>5. ASSUME 1 \in Of(fs, k, s) PROVE /\ lo <= fs[1].from /\ fs[1].from < fs[1].to
                                      /\ fs[1].to <= hi
                                      /\ Linked(fs, k, s, lo) => fs[1].from = lo
  BY <1>1, <1>5 DEF Within, Linked
<1>6. ASSUME 1 \in Of(fs, k, s) PROVE Within(gs, k, s, fs[1].to, hi)
  <2>1. \A i \in Of(gs, k, s) : fs[1].to <= gs[i].from
    BY <1>1, <1>6 DEF Within
  <2> QED
    BY <1>2, <2>1 DEF Within
<1>7. ASSUME 1 \in Of(fs, k, s), Linked(fs, k, s, lo) PROVE Linked(gs, k, s, fs[1].to)
  <2> SUFFICES ASSUME NEW i \in Of(gs, k, s), gs[i].from # fs[1].to
               PROVE  \E j \in Of(gs, k, s) : j < i /\ gs[j].to = gs[i].from
    BY DEF Linked
  <2>0. i + 1 \in Of(fs, k, s) /\ gs[i] = fs[i + 1] /\ i \in Nat /\ i >= 1
    BY <1>1
  <2>4. fs[1].to <= fs[i + 1].from /\ lo < fs[1].to
    BY <1>7, <1>5, <1>a, <2>0 DEF Within
  <2>5. fs[i + 1].from # lo
    BY <1>a, <1>7, <2>0, <2>4
  <2>1. PICK j \in Of(fs, k, s) : j < i + 1 /\ fs[j].to = fs[i + 1].from
    BY <1>7, <2>0, <2>5 DEF Linked
  <2>2. j # 1 /\ j \in Nat
    BY <1>1, <2>0, <2>1
  <2>3. j - 1 \in Of(gs, k, s) /\ gs[j - 1] = fs[j] /\ j - 1 < i
    BY <1>1, <1>b, <2>0, <2>1, <2>2
  <2> QED
    BY <2>0, <2>1, <2>3
<1>8. ASSUME 1 \in Of(fs, k, s), Reaches(fs, k, s, lo, hi) PROVE Reaches(gs, k, s, fs[1].to, hi)
  <2>1. lo # hi
    BY <1>5, <1>8, <1>a DEF Within
  <2> QED
    BY <1>b, <1>8, <2>1 DEF Reaches
<1> QED
  BY <1>1, <1>2, <1>5, <1>6, <1>7, <1>8

\* What remains when the end of a channel is lost.
LEMMA CarryPrefix ==
    ASSUME NEW fs \in Chan, NEW n \in 0..Len(fs), NEW k \in Kinds, NEW s \in Ids, NEW lo, NEW hi,
           NEW gs, Cuts(fs, n, gs)
    PROVE  /\ Within(fs, k, s, lo, hi) => Within(gs, k, s, lo, hi)
           /\ Linked(fs, k, s, lo) => Linked(gs, k, s, lo)
<1>1. /\ Of(gs, k, s) = {i \in Of(fs, k, s) : i <= n}
      /\ \A i \in Of(gs, k, s) : gs[i] = fs[i]
      /\ Of(fs, k, s) \subseteq Nat
  BY PrefixOf DEF Of
<1>2. Within(fs, k, s, lo, hi) => Within(gs, k, s, lo, hi)
  BY <1>1 DEF Within
<1>3. Linked(fs, k, s, lo) => Linked(gs, k, s, lo)
  BY <1>1 DEF Linked
<1> QED
  BY <1>2, <1>3

-----------------------------------------------------------------------------
(* The inductive invariant *)

\* p takes no more credit on s.
Shut(p, s) == s \in localClosed[p] \/ s \in failed[p]

\* p has sent CLOSE on s and writes no more.
Finished(p, s) == /\ s \in localClosed[p]
                  /\ writer[p][s] = "idle"
                  /\ ender[p][s] \in {"closed", "done"}

\* The largest DATA frame p can send.
Fragment(p) == Min2(MaxData[p], Window[Other(p)])

\* The credit p has sent on s so far.
Issued(p, s) == IF phase[p][s] = "accepted" THEN 0 ELSE Granted(p, s) - grant[p][s]

\* Direction p -> q of stream s: the bytes and the credit add up.
Ledger(p, s, q) ==
    /\ consumed[q][s] <= delivered[q][s]
    /\ delivered[q][s] + chunk[p][s] <= sent[p][s]
    /\ Credited(p, s) <= Issued(q, s)
    /\ IF s \in windowAdvertised[q]
       THEN /\ Granted(q, s) + pendingWindow[q][s] <= Window[q] + consumed[q][s]
            /\ \/ s \in remoteClosed[q]
               \/ Granted(q, s) + pendingWindow[q][s] = Window[q] + consumed[q][s]
       ELSE Granted(q, s) = 0 /\ pendingWindow[q][s] = 0
    /\ IF s \in peerWindowSet[p]
       THEN peerWindow[p][s] = Window[q]
       ELSE Credited(p, s) = 0

\* The call of Write in progress on stream s of p.
WriterOK(p, s) ==
    /\ chunk[p][s] <= Fragment(p)
    /\ chunk[p][s] <= left[p][s]
    /\ writer[p][s] = "send" => chunk[p][s] > 0
    /\ writer[p][s] # "send" => chunk[p][s] = 0
    /\ writer[p][s] # "idle" => left[p][s] > 0

\* How far closing direction p -> q of stream s has come.
Ending(p, s, q) ==
    /\ \/ s \notin remoteClosed[q] \/ s \in failed[q]
       \/ /\ Finished(p, s)
          /\ delivered[q][s] = sent[p][s]
    /\ ender[p][s] # "none" => s \in localClosed[p]
    /\ ender[p][s] \in {"reset", "aborted"} => s \in failed[p]
    /\ s \in failed[p] => s \in remoteClosed[p]

\* How far opening stream s has come at p, and what that says about q.
Handshake(p, s, q) ==
    /\ phase[p][s] \in {"none", "created", "waiting"} => s \notin windowAdvertised[p]
    /\ phase[p][s] = "accepted" => grant[p][s] = 0 /\ recvCredit[p][s] = Window[p]
    /\ grant[p][s] > 0 => consumed[p][s] > 0
    /\ s \in windowAdvertised[p] => phase[q][s] # "none"
    /\ accepted[p][s] = "ok" => phase[q][s] # "none"
    /\ accepted[p][s] = "err" => s \in failed[p]
    /\ s \in windowAdvertised[p] => s \in isOpen[p]
    /\ phase[p][s] # "none" /\ s \notin streams[p] =>
         Shut(p, s) /\ s \in remoteClosed[p]
    /\ PeerOwns(q, s) /\ phase[p][s] \in {"none", "created"} => phase[q][s] = "none"
    /\ PeerOwns(q, s) /\ s >= nextID[p] => phase[p][s] = "none"
    /\ phase[p][s] = "created" => PeerOwns(q, s)

\* The DATA frames of stream s in transit from p to q ...
DataOK(p, s, q) ==
    /\ Within(net[p], "DATA", s, delivered[q][s], sent[p][s] - chunk[p][s])
    /\ s \in remoteClosed[q] \/ Linked(net[p], "DATA", s, delivered[q][s])
    /\ \/ s \in remoteClosed[q] \/ ~Up(p) \/ ~Up(q)
       \/ Reaches(net[p], "DATA", s, delivered[q][s], sent[p][s] - chunk[p][s])
    /\ \A i \in Of(net[p], "DATA", s) : Size(net[p][i]) <= Fragment(p)

\* ... the WINDOW frames ...
CreditOK(p, s, q) ==
    /\ Within(net[p], "WINDOW", s, Credited(q, s), Issued(p, s))
    /\ Shut(q, s) \/ Linked(net[p], "WINDOW", s, Credited(q, s))
    /\ \/ Shut(q, s) \/ ~Up(p) \/ ~Up(q)
       \/ Reaches(net[p], "WINDOW", s, Credited(q, s), Issued(p, s))
    /\ \A i \in Of(net[p], "WINDOW", s) : net[p][i].from = 0 => net[p][i].to = Window[p]

\* ... OPEN and ACCEPT ...
OpenOK(p, s, q) ==
    /\ \A i, j \in Of(net[p], "OPEN", s) : i = j
    /\ Of(net[p], "OPEN", s) # {} => /\ PeerOwns(q, s)
                                     /\ phase[q][s] = "none"
                                     /\ phase[p][s] \notin {"none", "created"}
    /\ Of(net[p], "ACCEPT", s) # {} => phase[p][s] # "none"

\* ... and CLOSE, which comes after the last DATA.
CloseOK(p, s, q) ==
    Of(net[p], "CLOSE", s) # {} =>
        /\ Finished(p, s)
        /\ \A i \in Of(net[p], "DATA", s), j \in Of(net[p], "CLOSE", s) : i < j
        /\ \/ s \in remoteClosed[q]
           \/ Reaches(net[p], "DATA", s, delivered[q][s], sent[p][s])

PeerOK(p, q) ==
    /\ PeerOwns(q, nextID[p])
    /\ ~Up(p) => streams[p] = {} /\ net[q] = <<>>
    /\ \A i \in 1..Len(incoming[p]) : phase[p][incoming[p][i]] \in {"queued", "open"}

StateOK(p, s, q) == /\ Ledger(p, s, q)
                    /\ WriterOK(p, s)
                    /\ Ending(p, s, q)
                    /\ Handshake(p, s, q)

TransitOK(p, s, q) == /\ DataOK(p, s, q)
                      /\ CreditOK(p, s, q)
                      /\ OpenOK(p, s, q)
                      /\ CloseOK(p, s, q)

IInv ==
    /\ TypeOK
    /\ FlowConforms
    /\ \A p \in Peers : PeerOK(p, Other(p))
    /\ \A p \in Peers, s \in Ids : StateOK(p, s, Other(p)) /\ TransitOK(p, s, Other(p))

-----------------------------------------------------------------------------

\* The two peers.
LEMMA OtherPeer ==
    ASSUME NEW p \in Peers
    PROVE  /\ Other(p) \in Peers
           /\ Other(p) # p
           /\ Other(Other(p)) = p
           /\ \A r \in Peers : r = p \/ r = Other(p)
  BY Zenon DEF Peers, Other

-----------------------------------------------------------------------------
(* What a step leaves alone *)

\* Nothing about stream t of a changes ...
SameSend(a, t) == /\ sent'[a][t] = sent[a][t]
                  /\ sendCredit'[a][t] = sendCredit[a][t]
                  /\ peerWindow'[a][t] = peerWindow[a][t]
                  /\ t \in peerWindowSet'[a] <=> t \in peerWindowSet[a]

SameRecv(a, t) == /\ recvCredit'[a][t] = recvCredit[a][t]
                  /\ pendingWindow'[a][t] = pendingWindow[a][t]
                  /\ delivered'[a][t] = delivered[a][t]
                  /\ consumed'[a][t] = consumed[a][t]
                  /\ t \in windowAdvertised'[a] <=> t \in windowAdvertised[a]
                  /\ grant'[a][t] = grant[a][t]

SameWrite(a, t) == /\ writer'[a][t] = writer[a][t]
                   /\ left'[a][t] = left[a][t]
                   /\ chunk'[a][t] = chunk[a][t]

SameOpen(a, t) == /\ phase'[a][t] = phase[a][t]
                  /\ accepted'[a][t] = accepted[a][t]
                  /\ t \in isOpen'[a] <=> t \in isOpen[a]
                  /\ t \in streams'[a] <=> t \in streams[a]

SameEnd(a, t) == /\ ender'[a][t] = ender[a][t]
                 /\ t \in localClosed'[a] <=> t \in localClosed[a]
                 /\ t \in remoteClosed'[a] <=> t \in remoteClosed[a]
                 /\ t \in failed'[a] <=> t \in failed[a]

Same(a, t) == /\ SameSend(a, t) /\ SameRecv(a, t) /\ SameWrite(a, t)
              /\ SameOpen(a, t) /\ SameEnd(a, t)

\* ... or its flags are only raised and its writer is at most woken.
Raised(a, t) == /\ t \in localClosed[a] => t \in localClosed'[a]
                /\ t \in remoteClosed[a] => t \in remoteClosed'[a]
                /\ t \in failed[a] => t \in failed'[a]

Woken(a, t) == \/ writer'[a][t] = writer[a][t]
               \/ writer[a][t] = "wait" /\ writer'[a][t] = "loop"

\* The counters are natural numbers.
LEMMA Numbers ==
    ASSUME TypeOK, NEW a \in Peers, NEW t \in Ids
    PROVE  /\ sent[a][t] \in Nat /\ sendCredit[a][t] \in Nat /\ peerWindow[a][t] \in Nat
           /\ recvCredit[a][t] \in Nat /\ pendingWindow[a][t] \in Nat
           /\ delivered[a][t] \in Nat /\ consumed[a][t] \in Nat
           /\ left[a][t] \in Nat /\ chunk[a][t] \in Nat /\ grant[a][t] \in Nat
           /\ nextID[a] \in Nat /\ net[a] \in Chan
  BY Zenon DEF TypeOK, Counters, Chan

\* The windows and payload limits, and that a fragment fits both peers' (frameLimit in Stream.Write).
LEMMA Sizes ==
    ASSUME NEW a \in Peers
    PROVE  /\ Window[a] \in Nat /\ Window[a] >= 1 /\ Window[a] <= MaxWindow
           /\ MaxWindow \in Nat
           /\ MaxData[a] \in Nat /\ MaxData[a] >= 1
           /\ Fragment(a) \in Nat /\ Fragment(a) <= MaxData[a]
           /\ Fragment(a) <= MaxData[Other(a)] /\ Fragment(a) <= Window[Other(a)]
  BY WindowAssumption, PayloadAssumption, OtherPeer DEF Fragment, Min2

\* The ledger only depends on the sender's and the receiver's counters.
LEMMA LedgerSame ==
    ASSUME NEW a \in Peers, NEW b \in Peers, NEW t \in Ids, Ledger(a, t, b),
           SameSend(a, t), chunk'[a][t] = chunk[a][t], SameRecv(b, t),
           Issued(b, t)' = Issued(b, t), Raised(b, t)
    PROVE  Ledger(a, t, b)'
  BY Zenon DEF Ledger, SameSend, SameRecv, Raised, Credited, Granted

\* Waking a writer keeps what Write assumes.
LEMMA WriterSame ==
    ASSUME NEW a \in Peers, NEW t \in Ids, WriterOK(a, t),
           Woken(a, t), left'[a][t] = left[a][t], chunk'[a][t] = chunk[a][t]
    PROVE  WriterOK(a, t)'
  BY Zenon DEF WriterOK, Woken, Fragment

\* Ending survives errors at the receiver.
LEMMA EndingSame ==
    ASSUME NEW a \in Peers, NEW b \in Peers, NEW t \in Ids, Ending(a, t, b),
           SameEnd(a, t), Woken(a, t), sent'[a][t] = sent[a][t],
           Raised(b, t), t \in remoteClosed'[b] => t \in remoteClosed[b] \/ t \in failed'[b],
           delivered'[b][t] = delivered[b][t]
    PROVE  Ending(a, t, b)'
  BY Zenon DEF Ending, SameEnd, Woken, Raised, Finished

\* nextID only grows.
Advances(a) == \A t \in Ids : t >= nextID'[a] => t >= nextID[a]

\* Handshake survives the end of a stream.
LEMMA HandshakeSame ==
    ASSUME NEW a \in Peers, NEW b \in Peers, NEW t \in Ids, Handshake(a, t, b),
           SameRecv(a, t), SameOpen(a, t), Raised(a, t), phase'[b][t] = phase[b][t],
           Advances(a)
    PROVE  Handshake(a, t, b)'
  BY Zenon DEF Handshake, SameRecv, SameOpen, Raised, Shut, PeerOwns, Advances

\* DataOK survives what leaves the DATA frames and the counters alone ...
LEMMA DataSame ==
    ASSUME TypeOK, TypeOK', NEW a \in Peers, NEW b \in Peers, NEW t \in Ids, DataOK(a, t, b),
           NEW d \in {0, 1}, Keeps(net[a], net'[a], d, "DATA", t),
           delivered'[b][t] = delivered[b][t],
           sent'[a][t] - chunk'[a][t] = sent[a][t] - chunk[a][t],
           Raised(b, t), UNCHANGED cause
    PROVE  DataOK(a, t, b)'
<1>1. /\ net[a] \in Chan /\ net'[a] \in Chan /\ "DATA" \in Kinds
  BY Zenon DEF TypeOK, Chan, Kinds
<1>2. \A i \in Of(net'[a], "DATA", t) : Size(net'[a][i]) <= Fragment(a)
  BY Zenon DEF Keeps, DataOK
<1> QED
  BY SMTT(30), <1>1, <1>2, CarrySame DEF DataOK, Raised, Up, Fragment, Size

\* ... CreditOK, the WINDOW frames; ...
LEMMA CreditSame ==
    ASSUME TypeOK, TypeOK', NEW a \in Peers, NEW b \in Peers, NEW t \in Ids, CreditOK(a, t, b),
           NEW d \in {0, 1}, Keeps(net[a], net'[a], d, "WINDOW", t),
           Credited(b, t)' = Credited(b, t), Issued(a, t)' = Issued(a, t),
           Raised(b, t), UNCHANGED cause
    PROVE  CreditOK(a, t, b)'
<1>1. /\ net[a] \in Chan /\ net'[a] \in Chan /\ "WINDOW" \in Kinds
  BY Zenon DEF TypeOK, Chan, Kinds
<1>2. \A i \in Of(net'[a], "WINDOW", t) : net'[a][i].from = 0 => net'[a][i].to = Window[a]
  BY Zenon DEF Keeps, CreditOK
<1>3. Shut(b, t) => Shut(b, t)'
  BY Zenon DEF Shut, Raised
<1> HIDE DEF Issued, Credited, Shut
<1> QED
  BY SMTT(30), <1>1, <1>2, <1>3, CarrySame DEF CreditOK, Up

\* ... OpenOK, OPEN and ACCEPT; ...
LEMMA OpenSame ==
    ASSUME TypeOK, TypeOK', NEW a \in Peers, NEW b \in Peers, NEW t \in Ids, OpenOK(a, t, b),
           NEW d \in {0, 1}, Keeps(net[a], net'[a], d, "OPEN", t),
           Keeps(net[a], net'[a], d, "ACCEPT", t),
           phase'[a][t] = phase[a][t] \/ phase'[a][t] \notin {"none", "created"},
           phase'[b][t] = phase[b][t]
    PROVE  OpenOK(a, t, b)'
<1>1. \A i, j \in Of(net'[a], "OPEN", t) : i = j
  BY SMTT(30) DEF OpenOK, Keeps
<1>2. /\ Of(net[a], "OPEN", t) = {} => Of(net'[a], "OPEN", t) = {}
      /\ Of(net[a], "ACCEPT", t) = {} => Of(net'[a], "ACCEPT", t) = {}
  BY Zenon DEF Keeps
<1> QED
  BY <1>1, <1>2, Zenon DEF OpenOK, PeerOwns

\* ... CloseOK, CLOSE and DATA.
LEMMA CloseSame ==
    ASSUME TypeOK, TypeOK', NEW a \in Peers, NEW b \in Peers, NEW t \in Ids, CloseOK(a, t, b),
           NEW d \in {0, 1}, Keeps(net[a], net'[a], d, "CLOSE", t),
           Keeps(net[a], net'[a], d, "DATA", t),
           Finished(a, t) => Finished(a, t)' /\ sent'[a][t] = sent[a][t],
           delivered'[b][t] = delivered[b][t], Raised(b, t)
    PROVE  CloseOK(a, t, b)'
<1>1. /\ net[a] \in Chan /\ net'[a] \in Chan /\ "DATA" \in Kinds
  BY Zenon DEF TypeOK, Chan, Kinds
<1>2. Of(net[a], "CLOSE", t) = {} => Of(net'[a], "CLOSE", t) = {}
  BY Zenon DEF Keeps
<1>3. ASSUME Of(net[a], "CLOSE", t) # {}
      PROVE  \A i \in Of(net'[a], "DATA", t), j \in Of(net'[a], "CLOSE", t) : i < j
  <2>1. \A i \in Of(net[a], "DATA", t), j \in Of(net[a], "CLOSE", t) : i < j
    BY <1>3, Zenon DEF CloseOK
  <2> QED
    BY SMTT(30), <2>1 DEF Keeps
<1>4. ASSUME Of(net[a], "CLOSE", t) # {}
      PROVE  t \in remoteClosed'[b] \/ Reaches(net'[a], "DATA", t, delivered'[b][t], sent'[a][t])
  BY SMTT(30), <1>1, <1>4, CarrySame DEF CloseOK, Raised
<1> QED
  BY <1>2, <1>3, <1>4, Zenon DEF CloseOK

\* The four together.
LEMMA KeepTransit ==
    ASSUME TypeOK, TypeOK', NEW a \in Peers, NEW b \in Peers, NEW t \in Ids, TransitOK(a, t, b),
           NEW d \in {0, 1}, \A k \in Kinds \ {"RESET"} : Keeps(net[a], net'[a], d, k, t),
           delivered'[b][t] = delivered[b][t], Credited(b, t)' = Credited(b, t),
           sent'[a][t] - chunk'[a][t] = sent[a][t] - chunk[a][t],
           Issued(a, t)' = Issued(a, t),
           Finished(a, t) => Finished(a, t)' /\ sent'[a][t] = sent[a][t],
           phase'[a][t] = phase[a][t] \/ phase'[a][t] \notin {"none", "created"},
           phase'[b][t] = phase[b][t],
           Raised(b, t), UNCHANGED cause
    PROVE  TransitOK(a, t, b)'
<1>1. /\ Keeps(net[a], net'[a], d, "DATA", t) /\ Keeps(net[a], net'[a], d, "WINDOW", t)
      /\ Keeps(net[a], net'[a], d, "OPEN", t) /\ Keeps(net[a], net'[a], d, "ACCEPT", t)
      /\ Keeps(net[a], net'[a], d, "CLOSE", t)
  BY Zenon DEF Kinds
<1>2. DataOK(a, t, b)'
  BY <1>1, DataSame, Zenon DEF TransitOK
<1>3. CreditOK(a, t, b)'
  BY <1>1, CreditSame, Zenon DEF TransitOK
<1>4. OpenOK(a, t, b)'
  BY <1>1, OpenSame, Zenon DEF TransitOK
<1>5. CloseOK(a, t, b)'
  BY <1>1, CloseSame, Zenon DEF TransitOK
<1> QED
  BY <1>2, <1>3, <1>4, <1>5, Zenon DEF TransitOK

\* A step that concerns only stream s of p and one frame of stream s.
OneStream(p, s) ==
    /\ TypeOK' /\ FlowConforms' /\ cause' = cause
    /\ \A a \in Peers : PeerOK(a, Other(a))' /\ Advances(a)
    /\ \A a \in Peers, t \in Ids : a # p \/ t # s => Same(a, t)
    /\ \A a \in Peers, t \in Ids \ {s} : \E d \in {0, 1} :
           \A k \in Kinds : Keeps(net[a], net'[a], d, k, t)

\* A stream no variable of which changes keeps its part of IInv ...
LEMMA SameState ==
    ASSUME TypeOK, TypeOK', NEW a \in Peers, NEW b \in Peers, NEW t \in Ids, StateOK(a, t, b),
           Same(a, t), Same(b, t), Advances(a)
    PROVE  StateOK(a, t, b)'
<1>1. Ledger(a, t, b) /\ WriterOK(a, t) /\ Ending(a, t, b) /\ Handshake(a, t, b)
  BY Zenon DEF StateOK
<1>2. /\ SameSend(a, t) /\ SameRecv(a, t) /\ SameWrite(a, t) /\ SameOpen(a, t) /\ SameEnd(a, t)
      /\ SameRecv(b, t) /\ SameOpen(b, t) /\ SameEnd(b, t)
  BY Zenon DEF Same
<1>3. Raised(a, t) /\ Raised(b, t) /\ Woken(a, t)
  BY <1>2, Zenon DEF SameEnd, SameWrite, Raised, Woken
<1>4. Issued(b, t)' = Issued(b, t)
  BY <1>2, Zenon DEF SameOpen, SameRecv, Issued, Granted
<1>5. /\ chunk'[a][t] = chunk[a][t] /\ left'[a][t] = left[a][t] /\ sent'[a][t] = sent[a][t]
      /\ delivered'[b][t] = delivered[b][t] /\ phase'[b][t] = phase[b][t]
      /\ t \in remoteClosed'[b] => t \in remoteClosed[b]
  BY <1>2, Zenon DEF SameSend, SameRecv, SameWrite, SameOpen, SameEnd
<1>6. Ledger(a, t, b)'
  BY <1>1, <1>2, <1>3, <1>4, <1>5, LedgerSame, Zenon
<1>7. WriterOK(a, t)'
  BY <1>1, <1>3, <1>5, WriterSame, Zenon
<1>8. Ending(a, t, b)'
  BY <1>1, <1>2, <1>3, <1>5, EndingSame, Zenon
<1>9. Handshake(a, t, b)'
  BY <1>1, <1>2, <1>3, <1>5, HandshakeSame, Zenon
<1> QED
  BY <1>6, <1>7, <1>8, <1>9, Zenon DEF StateOK

\* ... and its frames theirs.
LEMMA SameTransit ==
    ASSUME TypeOK, TypeOK', NEW a \in Peers, NEW b \in Peers, NEW t \in Ids, TransitOK(a, t, b),
           Same(a, t), Same(b, t), cause' = cause,
           NEW d \in {0, 1}, \A k \in Kinds : Keeps(net[a], net'[a], d, k, t)
    PROVE  TransitOK(a, t, b)'
<1>1. /\ SameSend(a, t) /\ SameRecv(a, t) /\ SameWrite(a, t) /\ SameOpen(a, t) /\ SameEnd(a, t)
      /\ SameSend(b, t) /\ SameRecv(b, t) /\ SameOpen(b, t) /\ SameEnd(b, t)
  BY Zenon DEF Same
<1>2. Raised(b, t)
  BY <1>1, Zenon DEF SameEnd, Raised
<1>3. Issued(a, t)' = Issued(a, t) /\ Credited(b, t)' = Credited(b, t)
  BY <1>1, Zenon DEF SameOpen, SameRecv, SameSend, Issued, Granted, Credited
<1>4. /\ chunk'[a][t] = chunk[a][t] /\ sent'[a][t] = sent[a][t]
      /\ delivered'[b][t] = delivered[b][t]
      /\ phase'[a][t] = phase[a][t] /\ phase'[b][t] = phase[b][t]
  BY <1>1, Zenon DEF SameSend, SameRecv, SameWrite, SameOpen
<1>5. Finished(a, t) => Finished(a, t)'
  BY <1>1, Zenon DEF Finished, SameWrite, SameEnd
<1> QED
  BY <1>2, <1>3, <1>4, <1>5, KeepTransit, Zenon

\* A step that concerns stream s only keeps IInv if it keeps it for s.
LEMMA StepInv ==
    ASSUME IInv, NEW p \in Peers, NEW s \in Ids, OneStream(p, s),
           StateOK(p, s, Other(p))', TransitOK(p, s, Other(p))',
           StateOK(Other(p), s, p)', TransitOK(Other(p), s, p)'
    PROVE  IInv'
<1>1. ASSUME NEW a \in Peers, NEW t \in Ids
      PROVE  StateOK(a, t, Other(a))' /\ TransitOK(a, t, Other(a))'
  <2>1. CASE t = s
    BY <2>1, OtherPeer, Zenon
  <2>2. CASE t # s
    <3> DEFINE b == Other(a)
    <3>1. b \in Peers /\ StateOK(a, t, b) /\ TransitOK(a, t, b) /\ TypeOK
      BY OtherPeer, Zenon DEF IInv
    <3>2. Same(a, t) /\ Same(b, t) /\ Advances(a) /\ TypeOK' /\ cause' = cause
      BY <2>2, <3>1, Zenon DEF OneStream
    <3>3. PICK d \in {0, 1} : \A k \in Kinds : Keeps(net[a], net'[a], d, k, t)
      BY <2>2, Zenon DEF OneStream
    <3> HIDE DEF b
    <3>4. StateOK(a, t, b)'
      BY <3>1, <3>2, SameState, Zenon
    <3>5. TransitOK(a, t, b)'
      BY <3>1, <3>2, <3>3, SameTransit, Zenon
    <3> QED
      BY <3>4, <3>5, Zenon DEF b
  <2> QED
    BY <2>1, <2>2, Zenon
<1> QED
  BY <1>1, Zenon DEF IInv, OneStream

-----------------------------------------------------------------------------
(* The channels under the steps *)

\* What send and sendAsync do to the channels.
LEMMA SendChannel ==
    ASSUME TypeOK, NEW p \in Peers, NEW f \in Frame, Send(p, f)
    PROVE  /\ net' \in [Peers -> Seq(Frame)]
           /\ net'[Other(p)] = net[Other(p)]
           /\ IF Up(p) /\ Up(Other(p)) THEN Appends(net[p], f, net'[p])
                                       ELSE net'[p] = net[p]
           /\ \A a \in Peers, k \in Kinds, t \in Ids :
                a # p \/ k # f.kind \/ t # f.id => Keeps(net[a], net'[a], 0, k, t)
<1>1. Other(p) \in Peers /\ Other(p) # p /\ \A a \in Peers : net[a] \in Chan
  BY OtherPeer, Zenon DEF TypeOK, Chan
<1>2. Append(net[p], f) \in Chan /\ Appends(net[p], f, Append(net[p], f))
  BY <1>1, ChanAppend, Zenon
<1>3. /\ net' \in [Peers -> Seq(Frame)]
      /\ \A a \in Peers : a # p => net'[a] = net[a]
      /\ net'[p] = IF Up(p) /\ Up(Other(p)) THEN Append(net[p], f) ELSE net[p]
  BY <1>2, Zenon DEF Send, TypeOK, Chan
<1>4. \A a \in Peers, k \in Kinds, t \in Ids :
                a # p \/ k # f.kind \/ t # f.id => Keeps(net[a], net'[a], 0, k, t)
  <2> SUFFICES ASSUME NEW a \in Peers, NEW k \in Kinds, NEW t \in Ids,
                      a # p \/ k # f.kind \/ t # f.id
               PROVE  Keeps(net[a], net'[a], 0, k, t)
    BY Zenon
  <2>1. CASE net'[a] = net[a]
    BY <1>1, <2>1, KeepsSame, Zenon
  <2>2. CASE a = p /\ Appends(net[p], f, net'[p])
    BY <1>1, <2>2, KeepsAppend, Zenon
  <2> QED
    BY <1>2, <1>3, <2>1, <2>2, Zenon
<1> QED
  BY <1>1, <1>2, <1>3, <1>4, Zenon

\* What taking a frame, and answering it or not, does to the channels.
LEMMA TakeChannel ==
    ASSUME TypeOK, NEW p \in Peers, net[Other(p)] # <<>>,
           NEW f \in Frame, Silent(p) \/ Answer(p, f)
    PROVE  /\ net' \in [Peers -> Seq(Frame)]
           /\ Arrived(p) = net[Other(p)][1] /\ Arrived(p) \in Frame
           /\ Drops(net[Other(p)], net'[Other(p)])
           /\ \A k \in Kinds, t \in Ids :
                /\ k # Arrived(p).kind \/ t # Arrived(p).id =>
                     Keeps(net[Other(p)], net'[Other(p)], 1, k, t)
                /\ Silent(p) \/ k # f.kind \/ t # f.id =>
                     Keeps(net[p], net'[p], 0, k, t)
<1> DEFINE q == Other(p)
<1>1. q \in Peers /\ q # p /\ net[p] \in Chan /\ net[q] \in Chan
  BY OtherPeer, Zenon DEF TypeOK, Chan
<1>2. Append(net[p], f) \in Chan /\ Appends(net[p], f, Append(net[p], f))
  BY <1>1, ChanAppend, Zenon
<1>3. /\ Tail(net[q]) \in Chan /\ Drops(net[q], Tail(net[q]))
      /\ Arrived(p) = net[q][1] /\ Arrived(p) \in Frame
  BY <1>1, ChanTail, Zenon DEF Arrived
<1>4. /\ net' \in [Peers -> Seq(Frame)]
      /\ net'[q] = Tail(net[q])
      /\ net'[p] = net[p] \/ net'[p] = Append(net[p], f)
      /\ Silent(p) => net'[p] = net[p]
  <2>1. net \in [Peers -> Chan]
    BY Zenon DEF TypeOK, Chan
  <2>2. CASE net' = [net EXCEPT ![q] = Tail(net[q])]
    BY <1>1, <1>3, <2>1, <2>2, Zenon DEF Chan
  <2>3. CASE ~Silent(p) /\ net' = [net EXCEPT ![q] = Tail(net[q]), ![p] = Append(net[p], f)]
    BY <1>1, <1>2, <1>3, <2>1, <2>3, Zenon DEF Chan
  <2> QED
    BY <1>1, <2>1, <2>2, <2>3, Zenon DEF Silent, Answer
<1>5. ASSUME NEW k \in Kinds, NEW t \in Ids, k # Arrived(p).kind \/ t # Arrived(p).id
      PROVE  Keeps(net[q], net'[q], 1, k, t)
  <2>1. Drops(net[q], net'[q])
    BY <1>3, <1>4, Zenon
  <2> QED
    BY <1>1, <1>3, <1>5, <2>1, KeepsDrop, Zenon
<1>6. ASSUME NEW k \in Kinds, NEW t \in Ids, Silent(p) \/ k # f.kind \/ t # f.id
      PROVE  Keeps(net[p], net'[p], 0, k, t)
  <2>1. CASE net'[p] = net[p]
    BY <1>1, <2>1, KeepsSame, Zenon
  <2>2. CASE Appends(net[p], f, net'[p]) /\ (k # f.kind \/ t # f.id)
    BY <1>1, <2>2, KeepsAppend, Zenon
  <2> QED
    BY <1>2, <1>4, <1>6, <2>1, <2>2, Zenon
<1> QED
  BY <1>3, <1>4, <1>5, <1>6, Zenon

\* A step sets f[p][s] to v, or puts s in the set f[p] or takes it out.
Updates(f, g, p, s, v) ==
    /\ g[p][s] = v
    /\ \A a \in Peers, t \in Ids : a # p \/ t # s => g[a][t] = f[a][t]

Flips(f, g, p, s) ==
    \A a \in Peers, t \in Ids : a # p \/ t # s => (t \in g[a] <=> t \in f[a])

\* Changing one stream's entry of a variable: counters, ...
LEMMA CounterStep ==
    ASSUME NEW f \in Counters, NEW p \in Peers, NEW s \in Ids, NEW v \in Nat,
           NEW g, g = [f EXCEPT ![p][s] = v]
    PROVE  g \in Counters /\ Updates(f, g, p, s, v)
  BY Zenon DEF Counters, Updates

\* ... writers, ...
LEMMA WriterStep ==
    ASSUME NEW f \in Writers, NEW p \in Peers, NEW s \in Ids, NEW v \in {"idle", "loop", "wait", "send"},
           NEW g, g = [f EXCEPT ![p][s] = v]
    PROVE  g \in Writers /\ Updates(f, g, p, s, v)
  BY Zenon DEF Writers, Updates

\* ... phases, ...
LEMMA PhaseStep ==
    ASSUME NEW f \in Phases, NEW p \in Peers, NEW s \in Ids,
           NEW v \in {"created", "waiting", "accepted", "queued", "open", "failed"},
           NEW g, g = [f EXCEPT ![p][s] = v]
    PROVE  g \in Phases /\ Updates(f, g, p, s, v)
  BY Zenon DEF Phases, Updates

\* ... and calls of Close and Reset.
LEMMA EnderStep ==
    ASSUME NEW f \in Enders, NEW p \in Peers, NEW s \in Ids,
           NEW v \in {"close", "closed", "reset", "aborted", "done"},
           NEW g, g = [f EXCEPT ![p][s] = v]
    PROVE  g \in Enders /\ Updates(f, g, p, s, v)
  BY Zenon DEF Enders, Updates

\* Adding a stream to a set of streams.
LEMMA AddStep ==
    ASSUME NEW f \in Sets, NEW p \in Peers, NEW s \in Ids
    PROVE  Add(f, p, s) \in Sets /\ Flips(f, Add(f, p, s), p, s) /\ s \in Add(f, p, s)[p]
  BY Zenon DEF Sets, Flips, Add

\* Removing one.
LEMMA RemoveStep ==
    ASSUME NEW f \in Sets, NEW p \in Peers, NEW s \in Ids
    PROVE  Remove(f, p, s) \in Sets /\ Flips(f, Remove(f, p, s), p, s) /\ s \notin Remove(f, p, s)[p]
  BY Zenon DEF Sets, Flips, Remove

\* Nothing sent, nothing received.
LEMMA StillChannel ==
    ASSUME TypeOK, UNCHANGED net
    PROVE  \A a \in Peers, k \in Kinds, t \in Ids : Keeps(net[a], net'[a], 0, k, t)
  BY KeepsSame, Zenon DEF TypeOK, Chan

\* PeerOK needs no more than the streams, queues and phases.
LEMMA StillPeers ==
    ASSUME IInv, UNCHANGED <<cause, nextID, incoming, phase>>,
           \A a \in Peers : ~Up(a) => net'[Other(a)] = net[Other(a)] /\ streams'[a] \subseteq streams[a]
    PROVE  \A a \in Peers : PeerOK(a, Other(a))' /\ Advances(a)
<1>1. \A a \in Peers : PeerOK(a, Other(a))'
  BY Zenon DEF IInv, PeerOK, PeerOwns, Up
<1>2. \A a \in Peers : Advances(a)
  BY Zenon DEF Advances
<1> QED
  BY <1>1, <1>2, Zenon

\* writeReady.Broadcast: at most the writer of s is woken.
LEMMA WakeEffect ==
    ASSUME TypeOK, NEW p \in Peers, NEW s \in Ids, BroadcastWrite(p, s)
    PROVE  /\ writer' \in Writers /\ Woken(p, s)
           /\ \A a \in Peers, t \in Ids : a # p \/ t # s => writer'[a][t] = writer[a][t]
<1> DEFINE v == IF writer[p][s] = "wait" THEN "loop" ELSE writer[p][s]
<1>1. writer \in Writers /\ v \in {"idle", "loop", "wait", "send"}
  BY Zenon DEF TypeOK, Writers
<1>2. writer' = [writer EXCEPT ![p][s] = v]
  BY Zenon DEF BroadcastWrite
<1>3. Updates(writer, writer', p, s, v) /\ writer' \in Writers
  BY <1>1, <1>2, WriterStep, Zenon
<1> QED
  BY <1>3, Zenon DEF Updates, Woken

\* signalAccepted: at most the outcome of s is set.
LEMMA SignalEffect ==
    ASSUME TypeOK, NEW p \in Peers, NEW s \in Ids, NEW o \in {"ok", "err"}, SignalAccepted(p, s, o)
    PROVE  /\ accepted' \in Outcomes
           /\ accepted'[p][s] = accepted[p][s] \/ accepted'[p][s] = o
           /\ \A a \in Peers, t \in Ids : a # p \/ t # s => accepted'[a][t] = accepted[a][t]
  BY Zenon DEF TypeOK, Outcomes, SignalAccepted

\* remoteClose(err): the flags of s are raised and its calls woken.
LEMMA FailEffect ==
    ASSUME TypeOK, NEW p \in Peers, NEW s \in Ids, RemoteCloseError(p, s)
    PROVE  /\ remoteClosed' \in Sets /\ failed' \in Sets /\ reading' \in Sets
           /\ s \in remoteClosed'[p] /\ s \in failed'[p]
           /\ Flips(remoteClosed, remoteClosed', p, s) /\ Flips(failed, failed', p, s)
           /\ BroadcastWrite(p, s)
<1>1. /\ remoteClosed \in Sets /\ failed \in Sets /\ reading \in Sets
      /\ remoteClosed' = Add(remoteClosed, p, s) /\ failed' = Add(failed, p, s)
      /\ reading' = Remove(reading, p, s) /\ BroadcastWrite(p, s)
  BY Zenon DEF TypeOK, RemoteCloseError, BroadcastRead
<1> QED
  BY <1>1, AddStep, RemoveStep, Zenon

\* remove: s leaves the table.
LEMMA RemoveEffect ==
    ASSUME TypeOK, NEW p \in Peers, NEW s \in Ids, RemoveStream(p, s)
    PROVE  streams' \in Sets /\ Flips(streams, streams', p, s)
  BY RemoveStep, Zenon DEF TypeOK, RemoveStream

=============================================================================
