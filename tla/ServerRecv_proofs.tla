-------------------------- MODULE ServerRecv_proofs --------------------------
(***************************************************************************)
(* Proofs about the server's receive path, for every buffer size that      *)
(* holds the longest frame, every set of sendable messages and any number  *)
(* of frames and of cut ones.                                              *)
(*                                                                         *)
(* The safety properties are not inductive: they say nothing of where the  *)
(* parse position base + start is.  IInv adds that whole frames are laid   *)
(* out one after the other (Layout), that while the stream is intact the   *)
(* parse position is the offset of the next frame to handle (Aligned), and *)
(* what the loop knows when it ends (Extent, Drained).                     *)
(***************************************************************************)
EXTENDS ServerRecv, TLAPS

(* Every frame has a tag and fits in MaxClientFrame.                       *)
LEMMA FrameSizes ==
  ASSUME NEW tag \in ClientTag
  PROVE  /\ ClientBody[tag] \in Nat
         /\ ClientFrame(tag) \in Nat
         /\ ClientFrame(tag) = ClientBody[tag] + 4
         /\ ClientFrame(tag) <= 72
BY DEF ClientTag, ClientBody, ClientFrame, TagSize

(* The facts about the tags the switch treats apart.                       *)
LEMMA Tags ==
  /\ "ResetBeachballScore" \in ClientTag
  /\ "UpdateBeachball" \in ClientTag
  /\ Garbage \notin ClientTag
  /\ ClientFrame("UpdateBeachball") = 72
  /\ ClientFrame("ResetBeachballScore") = 4
  /\ ClientBody["UpdateBeachball"] = 68
BY DEF ClientTag, ClientBody, ClientFrame, TagSize, Garbage

(* What the types of the two histories give.                               *)
LEMMA HistoryTypes ==
  ASSUME TypeOK
  PROVE  /\ Len(sent) \in Nat /\ DOMAIN sent = 1 .. Len(sent)
         /\ Len(handled) \in Nat /\ DOMAIN handled = 1 .. Len(handled)
         /\ \A k \in 1 .. Len(sent) : sent[k] \in Frame
         /\ \A k \in 1 .. Len(sent) : sent[k].at \in Nat /\ sent[k].tag \in ClientTag
<1>1. sent \in Seq(Frame) /\ handled \in Seq(Frame)
  BY DEF TypeOK
<1>2. \A f \in Frame : f.at \in Nat /\ f.tag \in ClientTag
  BY DEF Frame
<1>3. \A k \in 1 .. Len(sent) : sent[k] \in Frame
  BY <1>1
<1> QED BY <1>1, <1>2, <1>3

(* A tag read at the offset of a frame is that frame's tag.                *)
LEMMA TagAtFrame ==
  ASSUME TypeOK, Layout, NEW k \in 1 .. Len(sent)
  PROVE  TagsAt(sent[k].at) = {sent[k].tag}
<1>1. DOMAIN sent = 1 .. Len(sent)
  BY HistoryTypes
<1>2. ASSUME NEW j \in 1 .. Len(sent), sent[j].at = sent[k].at PROVE j = k
  <2>1. \A i \in 1 .. Len(sent) : sent[i].at \in Nat
    BY HistoryTypes
  <2>2. ~ (j < k) /\ ~ (k < j)
    BY <1>2, <2>1 DEF Layout
  <2> QED BY <2>2
<1>3. {j \in DOMAIN sent : sent[j].at = sent[k].at} = {k}
  BY <1>1, <1>2
<1> QED BY <1>1, <1>3 DEF TagsAt

-----------------------------------------------------------------------------
(* The invariant holds in the initial state.                               *)
LEMMA InitIInv == Init => IInv
BY BufSizeAssumption, BoundsAssumption
   DEF Init, IInv, TypeOK, Layout, Extent, InOrderWhileIntact, Aligned, Drained,
       RoomToReceive, ExpelledForCause, Offset, Intact, NoResetHandled,
       MaxClientFrame, Frame

(* Send extends the layout and leaves everything else as it was.           *)
LEMMA SendIInv ==
  ASSUME IInv, NEW tag \in Sendable, Send(tag)
  PROVE  IInv'
<1> USE SendableAssumption, FrameSizes DEF IInv
<1> DEFINE f == [tag |-> tag, at |-> sentBytes]
<1>1. /\ tag \in ClientTag
      /\ f \in Frame
      /\ sent' = Append(sent, f)
      /\ sentBytes' = sentBytes + ClientFrame(tag)
      /\ UNCHANGED <<cut, conn, base, start, end, pc, looping, handled>>
  BY DEF Send, TypeOK, Frame
<1>2. TypeOK'
  BY <1>1 DEF TypeOK
<1>3. /\ Len(sent') = Len(sent) + 1
      /\ \A k \in 1 .. Len(sent) : sent'[k] = sent[k]
      /\ sent'[Len(sent) + 1] = f
      /\ Len(sent) \in Nat
      /\ \A k \in 1 .. Len(sent) : sent[k].at \in Nat /\ sent[k].tag \in ClientTag
  BY <1>1, HistoryTypes DEF TypeOK
<1>4. \A k \in Nat \ {0} : k <= Len(sent) + 1 => Offset(sent', sentBytes', k) = Offset(sent, sentBytes, k)
  BY <1>1, <1>3 DEF Offset
<1>5. Offset(sent', sentBytes', Len(sent) + 2) = sentBytes'
  BY <1>1, <1>3 DEF Offset
<1>6. sentBytes \in Nat /\ ClientFrame(tag) \in Nat /\ ClientFrame(tag) >= 4
  BY <1>1 DEF TypeOK
<1>7. Layout'
  <2>1. cut' = 0 => Offset(sent', sentBytes', 1) = 0
    BY <1>1, <1>3, <1>4 DEF Layout
  <2>2. ASSUME cut' = 0, NEW k \in 1 .. Len(sent')
        PROVE  Offset(sent', sentBytes', k + 1) = sent'[k].at + ClientFrame(sent'[k].tag)
    <3>1. CASE k <= Len(sent)
      BY <2>2, <3>1, <1>1, <1>3, <1>4 DEF Layout
    <3>2. CASE k = Len(sent) + 1
      <4>1. Offset(sent', sentBytes', k + 1) = sentBytes'
        BY <3>2, <1>5, <1>3
      <4>2. sent'[k].at = sentBytes /\ sent'[k].tag = tag
        BY <3>2, <1>3
      <4> QED BY <4>1, <4>2, <1>1
    <3> QED BY <3>1, <3>2, <1>3
  <2>3. \A k \in 1 .. Len(sent') : sent'[k].at < sentBytes'
    BY <1>1, <1>3, <1>6 DEF Layout
  <2>4. \A j, k \in 1 .. Len(sent') : j < k => sent'[j].at < sent'[k].at
    BY <1>1, <1>3, <1>6 DEF Layout
  <2> QED BY <2>1, <2>2, <2>3, <2>4 DEF Layout
<1>8. Extent'
  BY <1>1, <1>6 DEF Extent, TypeOK
<1>9. Intact' = Intact
  BY <1>1 DEF Intact, NoResetHandled
<1>10. Len(handled) \in Nat /\ DOMAIN handled = 1 .. Len(handled)
  BY HistoryTypes
<1>11. InOrderWhileIntact'
  BY <1>1, <1>3, <1>9, <1>10 DEF InOrderWhileIntact
<1>12. Aligned'
  BY <1>1, <1>3, <1>4, <1>9, <1>10 DEF Aligned, InOrderWhileIntact
<1>13. Drained'
  <2> SUFFICES ASSUME Intact, Len(handled) < Len(sent'), looping = 0
               PROVE  base + end < Offset(sent', sentBytes', Len(handled) + 2)
    BY <1>1, <1>9 DEF Drained
  <2>1. CASE Len(handled) < Len(sent)
    <3>1. Offset(sent', sentBytes', Len(handled) + 2) = Offset(sent, sentBytes, Len(handled) + 2)
      BY <2>1, <1>3, <1>4, <1>10
    <3> QED BY <2>1, <3>1 DEF Drained
  <2>2. CASE Len(handled) = Len(sent)
    <3>1. Offset(sent', sentBytes', Len(handled) + 2) = sentBytes'
      BY <2>2, <1>5
    <3>2. base + end <= sentBytes /\ base \in Nat /\ end \in Nat
      BY DEF Extent, TypeOK
    <3> QED BY <3>1, <3>2, <1>1, <1>6
  <2> QED BY <2>1, <2>2, <1>3, <1>10 DEF InOrderWhileIntact
<1>14. RoomToReceive' /\ ExpelledForCause'
  BY <1>1, <1>9 DEF RoomToReceive, ExpelledForCause
<1> QED BY <1>2, <1>7, <1>8, <1>11, <1>12, <1>13, <1>14

(* SendCut ends the intact part of the stream; what is left to show is     *)
(* that the frame it begins, if any, lies after the others.                *)
LEMMA SendCutIInv ==
  ASSUME IInv, NEW tag \in Sendable, SendCut(tag)
  PROVE  IInv'
<1> USE SendableAssumption, BoundsAssumption DEF IInv
<1> DEFINE f == [tag |-> tag, at |-> sentBytes]
<1>1. /\ cut < MaxCut
      /\ cut' = cut + 1
      /\ UNCHANGED <<conn, base, start, end, pc, looping, handled>>
  BY DEF SendCut
<1>2. tag \in ClientTag /\ ClientFrame(tag) \in Nat
  BY FrameSizes
<1>3. PICK n \in 0 .. ClientFrame(tag) - 1 :
        /\ sentBytes' = sentBytes + n
        /\ sent' = IF n < TagSize THEN sent ELSE Append(sent, f)
  BY DEF SendCut
<1>4. sentBytes \in Nat /\ cut \in Nat /\ n \in Nat /\ sent \in Seq(Frame)
  BY <1>2 DEF TypeOK
<1>5. f \in Frame
  BY <1>2, <1>4 DEF Frame
<1>6. cut' \in 0 .. MaxCut /\ cut' # 0 /\ sentBytes' \in Nat /\ sentBytes <= sentBytes'
  BY <1>1, <1>3, <1>4
<1>7. /\ sent' \in Seq(Frame)
      /\ \A k \in 1 .. Len(sent') : sent'[k].at < sentBytes'
      /\ \A j, k \in 1 .. Len(sent') : j < k => sent'[j].at < sent'[k].at
  <2>1. /\ \A k \in 1 .. Len(sent) : sent[k].at < sentBytes /\ sent[k].at \in Nat
        /\ \A j, k \in 1 .. Len(sent) : j < k => sent[j].at < sent[k].at
        /\ Len(sent) \in Nat
    BY HistoryTypes DEF Layout
  <2>2. CASE n < TagSize
    BY <2>1, <2>2, <1>3, <1>4, <1>6
  <2>3. CASE ~ (n < TagSize)
    <3>1. sent' = Append(sent, f) /\ sentBytes < sentBytes'
      BY <2>3, <1>3, <1>4 DEF TagSize
    <3>2. /\ sent' \in Seq(Frame)
          /\ Len(sent') = Len(sent) + 1
          /\ \A k \in 1 .. Len(sent) : sent'[k] = sent[k]
          /\ sent'[Len(sent) + 1] = f
      BY <3>1, <1>4, <1>5
    <3> QED BY <2>1, <3>1, <3>2, <1>4, <1>6
  <2> QED BY <2>2, <2>3
<1>8. TypeOK'
  BY <1>1, <1>6, <1>7 DEF TypeOK
<1>9. Layout'
  BY <1>6, <1>7 DEF Layout
<1>10. Extent'
  <2>1. base \in Nat /\ end \in Nat /\ base + end <= sentBytes
    BY DEF TypeOK, Extent
  <2>2. base' + end' <= sentBytes'
    BY <2>1, <1>1, <1>4, <1>6
  <2> QED BY <2>2, <1>1 DEF Extent
<1>11. ~ Intact'
  BY <1>6 DEF Intact
<1>12. RoomToReceive'
  BY <1>1 DEF RoomToReceive
<1> QED
  BY <1>8, <1>9, <1>10, <1>11, <1>12
     DEF InOrderWhileIntact, Aligned, Drained, ExpelledForCause

-----------------------------------------------------------------------------
(* The steps of the socket.                                                *)
LEMMA CloseIInv ==
  ASSUME IInv, NEW how \in {"shut", "reset"}, Close(how)
  PROVE  IInv'
BY DEF Close, IInv, TypeOK, Layout, Extent, InOrderWhileIntact, Aligned, Drained,
       RoomToReceive, ExpelledForCause, Intact, NoResetHandled

LEMMA ReceiveIInv == IInv /\ Receive => IInv'
<1> SUFFICES ASSUME IInv, Receive PROVE IInv'
  OBVIOUS
<1> USE BufSizeAssumption DEF IInv
<1>1. PICK n \in 1 .. BufSize : n <= Unread /\ n <= BufSize - end /\ end' = end + n
  BY DEF Receive
<1>2. /\ UNCHANGED <<sent, sentBytes, cut, conn, base, start, handled>>
      /\ pc' = "loop" /\ looping' = 1
      /\ conn \in {"open", "shut"}
  BY DEF Receive
<1>3. base \in Nat /\ sentBytes \in Nat /\ start \in Nat /\ end \in 0 .. BufSize
  BY DEF TypeOK
<1>4. end' \in 0 .. BufSize /\ end' > end /\ base + end' <= sentBytes
  BY <1>1, <1>3 DEF Unread
<1>5. TypeOK'
  BY <1>2, <1>4 DEF TypeOK
<1>6. Extent'
  <2>1. start <= end /\ end \in Nat /\ end' \in Nat
    BY <1>3, <1>4 DEF Extent
  <2>2. start' = start /\ base' = base /\ sentBytes' = sentBytes
    BY <1>2
  <2>3. start <= end'
    BY <2>1, <1>3, <1>4
  <2>4. base + end' <= sentBytes
    BY <1>4
  <2> QED BY <2>2, <2>3, <2>4, <1>2 DEF Extent
<1> QED
  BY <1>2, <1>5, <1>6 DEF Layout, InOrderWhileIntact, Aligned, Drained, RoomToReceive,
                          ExpelledForCause, Intact, NoResetHandled

LEMMA ReceiveFailsIInv == IInv /\ ReceiveFails => IInv'
BY DEF ReceiveFails, NoBytes, IInv, TypeOK, Layout, Extent, InOrderWhileIntact, Aligned,
       Drained, RoomToReceive, ExpelledForCause, Intact, NoResetHandled

-----------------------------------------------------------------------------
(* The steps of the loop.                                                  *)

(* While the stream is intact, a tag read by the loop is the tag of the    *)
(* next frame in order.                                                    *)
LEMMA TagIsNext ==
  ASSUME IInv, InLoop, Intact
  PROVE  LET k == Len(handled) + 1 IN
         /\ Len(handled) < Len(sent)
         /\ base + start = sent[k].at
         /\ TagsAt(base + start) = {sent[k].tag}
         /\ Offset(sent, sentBytes, k + 1) = base + start + ClientFrame(sent[k].tag)
<1> DEFINE k == Len(handled) + 1
<1>1. /\ base + start = Offset(sent, sentBytes, k)
      /\ Len(handled) <= Len(sent)
      /\ base + end <= sentBytes
      /\ start + 4 <= end
  BY DEF IInv, Aligned, InOrderWhileIntact, Extent, InLoop, TagSize
<1>2. base \in Nat /\ start \in Nat /\ end \in Nat /\ sentBytes \in Nat
  BY DEF IInv, TypeOK
<1>3. Len(sent) \in Nat /\ Len(handled) \in Nat
  BY HistoryTypes DEF IInv
<1>4. Len(handled) < Len(sent)
  <2> SUFFICES ASSUME Len(handled) = Len(sent) PROVE FALSE
    BY <1>1, <1>3
  <2>1. Offset(sent, sentBytes, k) = sentBytes
    BY <1>3 DEF Offset
  <2> QED BY <2>1, <1>1, <1>2
<1>5. k \in 1 .. Len(sent)
  BY <1>3, <1>4
<1>6. base + start = sent[k].at
  BY <1>1, <1>5, <1>3 DEF Offset
<1>7. TagsAt(sent[k].at) = {sent[k].tag}
  BY <1>5, TagAtFrame DEF IInv
<1>8. Offset(sent, sentBytes, k + 1) = sent[k].at + ClientFrame(sent[k].tag)
  BY <1>5 DEF IInv, Layout, Intact
<1> QED BY <1>4, <1>6, <1>7, <1>8

LEMMA HandleOneIInv ==
  ASSUME IInv, NEW tag \in ClientTag, HandleOne(tag)
  PROVE  IInv'
<1> USE DEF IInv
<1> DEFINE f == [tag |-> tag, at |-> base + start]
<1>1. /\ InLoop
      /\ tag \in TagsAt(base + start)
      /\ tag # "ResetBeachballScore"
      /\ UNCHANGED <<sent, sentBytes, cut, conn, base, end, pc>>
  BY DEF HandleOne
<1>2. /\ base \in Nat /\ start \in Nat /\ end \in 0 .. BufSize /\ BufSize \in Nat
      /\ sentBytes \in Nat /\ pc = "loop" /\ looping = 1
  BY <1>1, BufSizeAssumption DEF TypeOK, InLoop
<1>3. Len(sent) \in Nat /\ Len(handled) \in Nat /\ DOMAIN handled = 1 .. Len(handled)
  BY HistoryTypes
<1>4. ClientBody[tag] \in Nat /\ ClientFrame(tag) = ClientBody[tag] + 4 /\ ClientFrame(tag) <= 72
  BY FrameSizes
<1>5. Layout'
  BY <1>1 DEF Layout
<1>6. CASE HasFull(start, ClientBody[tag])
  <2>1. /\ start' = start + ClientFrame(tag)
        /\ handled' = Append(handled, f)
        /\ looping' = looping
        /\ start' \in Nat /\ start' <= end
    BY <1>1, <1>2, <1>4, <1>6 DEF HandleOne, HasFull, TagSize
  <2>2. f \in Frame /\ handled \in Seq(Frame)
    BY <1>2 DEF Frame, TypeOK
  <2>3. TypeOK'
    BY <1>1, <2>1, <2>2 DEF TypeOK
  <2>4. Extent'
    BY <1>1, <1>2, <2>1 DEF Extent
  <2>5. /\ Len(handled') = Len(handled) + 1
        /\ DOMAIN handled' = 1 .. Len(handled) + 1
        /\ \A k \in 1 .. Len(handled) : handled'[k] = handled[k]
        /\ handled'[Len(handled) + 1] = f
    BY <2>1, <2>2, <1>3
  <2>6. Intact' => Intact
    BY <1>1, <2>5, <1>3 DEF Intact, NoResetHandled
  <2>7. ASSUME Intact'
        PROVE  /\ Len(handled) + 1 <= Len(sent)
               /\ sent[Len(handled) + 1] = f
               /\ base + start' = Offset(sent, sentBytes, Len(handled) + 2)
    <3>1. Intact
      BY <2>6, <2>7
    <3> DEFINE k == Len(handled) + 1
    <3>2. /\ Len(handled) < Len(sent)
          /\ base + start = sent[k].at
          /\ TagsAt(base + start) = {sent[k].tag}
          /\ Offset(sent, sentBytes, k + 1) = base + start + ClientFrame(sent[k].tag)
      BY <3>1, <1>1, TagIsNext
    <3>3. tag = sent[k].tag
      BY <3>2, <1>1
    <3>4. k \in 1 .. Len(sent)
      BY <3>2, <1>3
    <3>5. sent[k] \in Frame
      BY <3>4, HistoryTypes
    <3>6. sent[k] = f
      BY <3>5, <3>3, <3>2 DEF Frame
    <3> QED BY SMTT(25), <3>2, <3>3, <3>4, <3>6, <2>1, <1>2, <1>3, <1>4
  <2>8. InOrderWhileIntact'
    BY <1>1, <1>3, <2>5, <2>6, <2>7 DEF InOrderWhileIntact
  <2>9. Aligned'
    BY <1>1, <1>3, <2>5, <2>7 DEF Aligned
  <2>10. Drained' /\ RoomToReceive'
    BY <1>1, <1>2, <2>1 DEF Drained, RoomToReceive
  <2>11. ExpelledForCause'
    BY <1>1, <2>6 DEF ExpelledForCause
  <2> QED BY <1>5, <2>3, <2>4, <2>8, <2>9, <2>10, <2>11
<1>7. CASE ~ HasFull(start, ClientBody[tag])
  <2>1. looping' = 0 /\ UNCHANGED <<start, handled>>
    BY <1>7 DEF HandleOne
  <2>2. end < start + ClientFrame(tag)
    BY <1>2, <1>4, <1>7 DEF HasFull, TagSize
  <2>3. TypeOK'
    BY <1>1, <2>1 DEF TypeOK
  <2>4. Extent'
    BY <1>1, <1>2, <1>4, <2>1, <2>2 DEF Extent, MaxClientFrame
  <2>5. Intact' = Intact
    BY <1>1, <2>1 DEF Intact, NoResetHandled
  <2>6. Drained'
    <3> SUFFICES ASSUME Intact
                 PROVE  base + end < Offset(sent, sentBytes, Len(handled) + 2)
      BY <1>1, <2>1, <2>5 DEF Drained
    <3> DEFINE k == Len(handled) + 1
    <3>1. /\ TagsAt(base + start) = {sent[k].tag}
          /\ Offset(sent, sentBytes, k + 1) = base + start + ClientFrame(sent[k].tag)
      BY <1>1, TagIsNext
    <3>2. tag = sent[k].tag
      BY <3>1, <1>1
    <3>3. k + 1 = Len(handled) + 2
      BY <1>3
    <3> QED BY <3>1, <3>2, <3>3, <2>2, <1>2, <1>4
  <2>7. InOrderWhileIntact' /\ Aligned'
    BY <1>1, <2>1, <2>5 DEF InOrderWhileIntact, Aligned
  <2>8. RoomToReceive' /\ ExpelledForCause'
    BY <1>1, <1>2, <2>1, <2>5 DEF RoomToReceive, ExpelledForCause
  <2> QED BY <1>5, <2>3, <2>4, <2>6, <2>7, <2>8
<1> QED BY <1>6, <1>7

LEMMA HandleResetIInv == IInv /\ HandleReset => IInv' /\ ~ Intact'
<1> SUFFICES ASSUME IInv, HandleReset PROVE IInv' /\ ~ Intact'
  OBVIOUS
<1> USE Tags DEF IInv
<1> DEFINE next  == start + TagSize
           reset == [tag |-> "ResetBeachballScore", at |-> base + start]
           ball  == [tag |-> "UpdateBeachball", at |-> base + next]
           full  == HasFull(next, ClientBody["UpdateBeachball"])
<1>1. InLoop /\ UNCHANGED <<sent, sentBytes, cut, conn, base, end, pc>>
  BY DEF HandleReset
<1>2. /\ base \in Nat /\ start \in Nat /\ end \in 0 .. BufSize /\ BufSize \in Nat
      /\ sentBytes \in Nat /\ pc = "loop" /\ looping = 1
      /\ next = start + 4 /\ next <= end
  BY <1>1, BufSizeAssumption DEF TypeOK, InLoop, TagSize
<1>3. reset \in Frame /\ ball \in Frame /\ handled \in Seq(Frame) /\ Len(handled) \in Nat
  BY <1>2 DEF Frame, TypeOK
<1>4. /\ start' \in Nat /\ start' <= end
      /\ looping' \in {0, 1}
      /\ looping' = 0 => end < start' + 72
  <2>1. CASE full
    BY <2>1, <1>2 DEF HandleReset, HasFull, TagSize
  <2>2. CASE ~ full
    BY <2>2, <1>2 DEF HandleReset, HasFull, TagSize
  <2> QED BY <2>1, <2>2
<1>5. handled' = Append(handled, reset) \/ handled' = handled \o <<reset, ball>>
  BY DEF HandleReset
<1>6. handled' \in Seq(Frame) /\ ~ Intact'
  <2>1. CASE handled' = Append(handled, reset)
    <3>1. handled' \in Seq(Frame) /\ Len(handled) + 1 \in DOMAIN handled'
      BY <2>1, <1>3
    <3>2. handled'[Len(handled) + 1] = reset
      BY <2>1, <1>3
    <3> QED BY <3>1, <3>2 DEF Intact, NoResetHandled
  <2>2. CASE handled' = handled \o <<reset, ball>>
    <3>1. <<reset, ball>> \in Seq(Frame) /\ Len(<<reset, ball>>) = 2
      BY <1>3
    <3>2. /\ handled' \in Seq(Frame)
          /\ Len(handled') = Len(handled) + 2
          /\ Len(handled) + 1 \in DOMAIN handled'
      BY <2>2, <3>1, <1>3
    <3>3. handled'[Len(handled) + 1] = reset
      BY <2>2, <3>1, <1>3
    <3> QED BY <3>2, <3>3 DEF Intact, NoResetHandled
  <2> QED BY <1>5, <2>1, <2>2
<1>7. TypeOK'
  BY <1>1, <1>4, <1>6 DEF TypeOK
<1>8. Extent'
  BY <1>1, <1>2, <1>4 DEF Extent, MaxClientFrame
<1>9. Layout'
  BY <1>1 DEF Layout
<1> QED
  BY <1>1, <1>2, <1>6, <1>7, <1>8, <1>9
     DEF InOrderWhileIntact, Aligned, Drained, RoomToReceive, ExpelledForCause

LEMMA HandleGarbageIInv == IInv /\ HandleGarbage => IInv' /\ ~ Intact'
<1> SUFFICES ASSUME IInv, HandleGarbage PROVE IInv' /\ ~ Intact'
  OBVIOUS
<1> USE DEF IInv
<1>1. /\ InLoop /\ Garbage \in TagsAt(base + start)
      /\ conn' = "expelled" /\ pc' = "poll" /\ looping' = 0
      /\ UNCHANGED <<sent, sentBytes, cut, base, start, end, handled>>
  BY DEF HandleGarbage
<1>2. ~ Intact
  <2> SUFFICES ASSUME Intact PROVE FALSE
    OBVIOUS
  <2> DEFINE k == Len(handled) + 1
  <2>1. Len(handled) < Len(sent) /\ TagsAt(base + start) = {sent[k].tag}
    BY <1>1, TagIsNext
  <2>2. sent[k].tag \in ClientTag
    BY <2>1, HistoryTypes
  <2> QED BY <1>1, <2>1, <2>2, Tags
<1>3. Intact' = Intact
  BY <1>1 DEF Intact, NoResetHandled
<1> QED
  BY <1>1, <1>2, <1>3 DEF TypeOK, Layout, Extent, InOrderWhileIntact, Aligned, Drained,
                          RoomToReceive, ExpelledForCause

LEMMA CompactIInv == IInv /\ Compact => IInv'
<1> SUFFICES ASSUME IInv, Compact PROVE IInv'
  OBVIOUS
<1> USE DEF IInv
<1>1. /\ pc = "loop" /\ ~ InLoop
      /\ pc' = "poll" /\ looping' = 0 /\ start' = 0
      /\ base' = base + start /\ end' = end - start
      /\ UNCHANGED <<sent, sentBytes, cut, conn, handled>>
  BY DEF Compact
<1>2. /\ base \in Nat /\ start \in Nat /\ end \in 0 .. BufSize /\ BufSize \in Nat
      /\ sentBytes \in Nat /\ looping \in {0, 1} /\ start <= end
  BY BufSizeAssumption DEF TypeOK, Extent
<1>3. end' \in 0 .. BufSize /\ base' \in Nat /\ base' + end' = base + end
      /\ base' + start' = base + start
  BY <1>1, <1>2
<1>4. looping = 0 \/ end < start + 4
  BY <1>1, <1>2 DEF InLoop, TagSize
<1>5. end' < MaxClientFrame
  BY <1>1, <1>2, <1>4 DEF Extent, MaxClientFrame
<1>6. TypeOK' /\ Layout'
  BY <1>1, <1>3 DEF TypeOK, Layout
<1>7. Extent'
  BY <1>1, <1>2, <1>3 DEF Extent
<1>8. Intact' = Intact
  BY <1>1 DEF Intact, NoResetHandled
<1>9. InOrderWhileIntact' /\ Aligned' /\ ExpelledForCause'
  BY <1>1, <1>3, <1>8 DEF InOrderWhileIntact, Aligned, ExpelledForCause
<1>10. RoomToReceive'
  BY <1>1, <1>5 DEF RoomToReceive
<1>11. Drained'
  <2> SUFFICES ASSUME Intact, Len(handled) < Len(sent)
               PROVE  base + end < Offset(sent, sentBytes, Len(handled) + 2)
    BY <1>1, <1>3, <1>8 DEF Drained
  <2>1. CASE looping = 0
    BY <2>1 DEF Drained
  <2>2. CASE end < start + 4
    <3> DEFINE k == Len(handled) + 1
    <3>1. k \in 1 .. Len(sent) /\ k + 1 = Len(handled) + 2 /\ k <= Len(sent)
      BY HistoryTypes
    <3>2. Offset(sent, sentBytes, k) = sent[k].at
      BY <3>1 DEF Offset
    <3>3. base + start = sent[k].at
      BY <3>2 DEF Aligned
    <3>4. Offset(sent, sentBytes, k + 1) = base + start + ClientFrame(sent[k].tag)
      BY <3>1, <3>3 DEF Layout, Intact
    <3>5. ClientFrame(sent[k].tag) \in Nat /\ ClientFrame(sent[k].tag) >= 4
      <4>1. sent[k].tag \in ClientTag
        BY <3>1, HistoryTypes
      <4> QED BY <4>1, FrameSizes
    <3> QED BY <3>1, <3>4, <3>5, <2>2, <1>2
  <2> QED BY <1>4, <2>1, <2>2
<1> QED BY <1>6, <1>7, <1>9, <1>10, <1>11

-----------------------------------------------------------------------------
LEMMA NextIInv == IInv /\ [Next]_vars => IInv'
<1> SUFFICES ASSUME IInv, [Next]_vars PROVE IInv'
  OBVIOUS
<1>1. CASE Client
  BY <1>1, SendIInv, SendCutIInv, CloseIInv DEF Client
<1>2. CASE Server
  BY <1>2, ReceiveIInv, ReceiveFailsIInv, HandleOneIInv, HandleResetIInv,
     HandleGarbageIInv, CompactIInv DEF Server
<1>3. CASE UNCHANGED vars
  BY <1>3 DEF vars, IInv, TypeOK, Layout, Extent, InOrderWhileIntact, Aligned,
              Drained, RoomToReceive, ExpelledForCause, Intact, NoResetHandled
<1> QED BY <1>1, <1>2, <1>3 DEF Next

(* IInv is an invariant of the receive path.                               *)
THEOREM Invariance == Spec => []IInv
<1>1. Init => IInv
  BY InitIInv
<1>2. IInv /\ [Next]_vars => IInv'
  BY NextIInv
<1> QED BY <1>1, <1>2, PTL DEF Spec

(* The receive buffer always has room when the server asks for more bytes  *)
(* (line 190): no live session is dropped because its buffer is full.      *)
THEOREM RoomToReceiveHolds == Spec => []RoomToReceive
<1>1. IInv => RoomToReceive
  BY DEF IInv
<1> QED BY <1>1, Invariance, PTL

(* Until a write is cut or a reset handled, the server runs its handlers   *)
(* for exactly the messages sent, in order (lines 203-371).                *)
THEOREM InOrderWhileIntactHolds == Spec => []InOrderWhileIntact
<1>1. IInv => InOrderWhileIntact
  BY DEF IInv
<1> QED BY <1>1, Invariance, PTL

(* Only a session with a cut write or a handled reset can reach the        *)
(* default branch (line 350).                                              *)
THEOREM ExpelledForCauseHolds == Spec => []ExpelledForCause
<1>1. IInv => ExpelledForCause
  BY DEF IInv
<1> QED BY <1>1, Invariance, PTL

(* Every variable keeps its type.                                          *)
THEOREM TypeCorrect == Spec => []TypeOK
<1>1. IInv => TypeOK
  BY DEF IInv
<1> QED BY <1>1, Invariance, PTL

-----------------------------------------------------------------------------
(* While nothing has gone wrong the receive path implements FrameFifo.     *)

(* Cuts are counted, and handled resets remembered.                        *)
LEMMA IntactBefore ==
  ASSUME IInv, [Next]_vars, Intact'
  PROVE  Intact
<1>1. cut' = cut \/ cut' = cut + 1
  <2>1. ASSUME NEW tag \in Sendable, SendCut(tag) PROVE cut' = cut + 1
    BY <2>1 DEF SendCut
  <2> QED BY <2>1 DEF Next, Client, Server, Send, Close, Receive, ReceiveFails, HandleOne,
                      HandleReset, HandleGarbage, Compact, vars
<1>2. cut = 0
  BY <1>1, BoundsAssumption DEF Intact, IInv, TypeOK
<1>3. ~ HandleReset
  BY HandleResetIInv
<1>4. ASSUME NEW tag \in ClientTag, HandleOne(tag) PROVE NoResetHandled
  <2> DEFINE f == [tag |-> tag, at |-> base + start]
  <2>1. handled' = handled \/ handled' = Append(handled, f)
    BY <1>4 DEF HandleOne
  <2>2. f \in Frame /\ handled \in Seq(Frame)
    BY DEF IInv, TypeOK, Frame
  <2>3. \A k \in DOMAIN handled : k \in DOMAIN handled' /\ handled'[k] = handled[k]
    BY <2>1, <2>2
  <2> QED BY <2>3 DEF Intact, NoResetHandled
<1>5. handled' = handled => NoResetHandled
  BY DEF Intact, NoResetHandled
<1>6. (\E tag \in ClientTag : HandleOne(tag)) \/ handled' = handled
  <2>1. ASSUME NEW tag \in Sendable, SendCut(tag) PROVE handled' = handled
    BY <2>1 DEF SendCut
  <2> QED BY <1>3, <2>1 DEF Next, Client, Server, Send, Close, Receive, ReceiveFails,
                            HandleGarbage, Compact, vars
<1> QED BY <1>2, <1>4, <1>5, <1>6 DEF Intact

(* Until then every step is a step of the FIFO, or none.                   *)
LEMMA FifoStep ==
  ASSUME IInv, [Next]_vars, Intact'
  PROVE  [Fifo!Next]_(Fifo!vars)
<1> USE DEF Fifo!Next, Fifo!vars
<1>0. Intact
  BY IntactBefore
<1>1. Len(sent) \in Nat /\ Len(handled) \in Nat /\ sent \in Seq(Frame) /\ handled \in Seq(Frame)
  BY HistoryTypes DEF IInv, TypeOK
<1>2. ASSUME NEW tag \in Sendable, Send(tag) PROVE Fifo!Write
  <2> DEFINE f == [tag |-> tag, at |-> sentBytes]
  <2>1. sent' = Append(sent, f) /\ f \in Frame /\ conn = "open" /\ UNCHANGED <<handled, conn>>
    BY <1>2, SendableAssumption DEF Send, IInv, TypeOK, Frame
  <2>2. Len(sent') = Len(sent) + 1 /\ sent'[Len(sent) + 1] = f
    BY <2>1, <1>1
  <2> QED BY <2>1, <2>2 DEF Fifo!Write
<1>3. ASSUME NEW how \in {"shut", "reset"}, Close(how) PROVE Fifo!Close
  BY <1>3 DEF Close, Fifo!Close
<1>4. ASSUME ReceiveFails PROVE Fifo!HangUp
  <2>1. CASE conn = "reset"
    BY <2>1, <1>4 DEF ReceiveFails, Fifo!HangUp
  <2>3. ~ (conn \in {"open", "shut"} /\ end = BufSize)
    BY <1>4, BufSizeAssumption DEF ReceiveFails, IInv, RoomToReceive, MaxClientFrame
  <2>2. CASE conn = "shut" /\ Unread = 0
    <3>1. base + end = sentBytes /\ looping = 0
      BY <2>2, <1>4 DEF ReceiveFails, Unread, IInv, TypeOK, Extent
    <3>2. Len(handled) = Len(sent)
      <4> SUFFICES ASSUME Len(handled) < Len(sent) PROVE FALSE
        BY <1>0, <1>1 DEF IInv, InOrderWhileIntact
      <4>1. sentBytes < Offset(sent, sentBytes, Len(handled) + 2)
        BY <3>1, <1>0 DEF IInv, Drained
      <4>2. \A k \in 1 .. Len(sent) : sent[k].at < sentBytes /\ sent[k].at \in Nat
        BY HistoryTypes DEF IInv, Layout
      <4>3. sentBytes \in Nat
        BY DEF IInv, TypeOK
      <4>4. CASE Len(handled) + 2 <= Len(sent)
        BY <4>1, <4>2, <4>3, <4>4, <1>1 DEF Offset
      <4>5. CASE ~ (Len(handled) + 2 <= Len(sent))
        BY <4>1, <4>3, <4>5 DEF Offset
      <4> QED BY <4>4, <4>5
    <3>3. \A k \in 1 .. Len(sent) : handled[k] = sent[k]
      BY <3>2, <1>1, <1>0 DEF IInv, InOrderWhileIntact
    <3>4. handled = sent
      BY <3>2, <3>3, <1>1
    <3> QED BY <2>2, <3>4, <1>4 DEF ReceiveFails, Fifo!HangUp
  <2> QED BY <2>1, <2>2, <2>3, <1>4 DEF ReceiveFails, NoBytes
<1>5. ASSUME NEW tag \in ClientTag, HandleOne(tag)
      PROVE  Fifo!Deliver \/ UNCHANGED <<sent, handled, conn>>
  <2> DEFINE f == [tag |-> tag, at |-> base + start]
             k == Len(handled) + 1
  <2>1. /\ handled' = Append(handled, f) \/ handled' = handled
        /\ UNCHANGED <<sent, conn>> /\ InLoop /\ tag \in TagsAt(base + start)
    BY <1>5 DEF HandleOne
  <2>2. /\ Len(handled) < Len(sent)
        /\ base + start = sent[k].at
        /\ TagsAt(base + start) = {sent[k].tag}
    BY <1>0, <2>1, TagIsNext
  <2>3. sent[k] \in Frame
    BY <2>2, <1>1, HistoryTypes DEF IInv
  <2>4. sent[k] = f
    BY <2>1, <2>2, <2>3 DEF Frame
  <2>5. conn # "gone"
    BY <2>1 DEF IInv, Extent, InLoop
  <2> QED BY <2>1, <2>2, <2>4, <2>5 DEF Fifo!Deliver
<1>6. ~ HandleReset /\ ~ HandleGarbage
  BY HandleResetIInv, HandleGarbageIInv
<1>7. Receive \/ Compact \/ UNCHANGED vars => UNCHANGED <<sent, handled, conn>>
  BY DEF Receive, Compact, vars
<1>8. ASSUME NEW tag \in Sendable PROVE ~ SendCut(tag)
  BY <1>0 DEF SendCut, Intact
<1> QED BY <1>2, <1>3, <1>4, <1>5, <1>6, <1>7, <1>8 DEF Next, Client, Server

(* The server gives its handlers a FIFO of whole messages, complete up to  *)
(* an orderly close, for as long as no write is cut and no reset handled   *)
(* (lines 186-372).                                                        *)
THEOREM ImplementsFifoHolds == Spec => ImplementsFifo
<1>1. Init => Fifo!Init
  BY DEF Init, Fifo!Init
<1>2. IInv /\ [Next]_vars => [Intact' => Fifo!Next]_(Fifo!vars)
  BY FifoStep
<1> QED BY <1>1, <1>2, Invariance, PTL DEF Spec, ImplementsFifo
=============================================================================
