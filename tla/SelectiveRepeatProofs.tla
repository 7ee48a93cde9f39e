------------------------ MODULE SelectiveRepeatProofs -----------------------
(***************************************************************************)
(* Safety of SelectiveRepeat for every file, window, buffer and number     *)
(* space, as long as the sequence numbers do not wrap around (NoWrap).     *)
(***************************************************************************)
EXTENDS SelectiveRepeat, ArqLinkProofs, TLAPS

\* Every chunk and the end of transmission have a number of their own.
\* QUICKSTART.md counts on it.
NoWrap == Chunks + 1 < SeqSpace

\* A copy of one of the first n frames; payload k travels as frame number k.
Copy(f, n) == f \in Frame /\ f.seq = f.payload /\ f.seq < n

\* The counters of the sender agree, and the receiver is between Sf and Sn.
CountersOK ==
    /\ Sn = IF eotSent THEN Chunks + 1 ELSE offset
    /\ eotSent => offset = Chunks
    /\ WindowBracketsReceiver

\* What the receiver has written is told by Rn alone.
FileOK ==
    /\ eot <=> Rn = Chunks + 1
    /\ output = FilePrefix(IF eot THEN Chunks ELSE Rn)

\* Nothing but frames that were sent is in the store, on the link and in the hands of
\* the receiver.
FramesOK ==
    /\ \A k \in 1 .. Len(data) : data[k] # Corrupt => Copy(data[k], Sn)
    /\ dataWrite \notin {Corrupt, Idle} => Copy(dataWrite, Sn)
    /\ \A k \in 0 .. Sn - 1 : Copy(frame_store[k % Sw], Sn)
    /\ rpc = "check" /\ frame # Corrupt => Copy(frame, Sn)

\* A marked slot holds a payload of the window that was sent.
BufferOK ==
    /\ BufferHoldsWindow
    /\ \A s \in 0 .. NBuf - 1 : buffer[s] # Unset => buffer[s] < Sn
    /\ rpc = "deliver" => Marked(buffer, Rn)

\* No ACK and no NAK is ahead of the receiver.
RepliesOK ==
    /\ \A k \in 1 .. Len(acks) : acks[k] # Corrupt => acks[k].seq <= Rn
    /\ ackWrite \notin {Corrupt, Idle} => ackWrite.seq <= Rn

\* Nobody ends before the end of transmission is accepted.
EndOK ==
    /\ rpc = "done" \/ hungUp \/ spc = "done" => eot
    /\ spc = "done" => dataWrite = Idle

\* Only outstanding frames are timed, and only they are sent again.
TimersOK ==
    /\ \A s \in pending : \E k \in Sf .. Sn - 1 : k % Sw = s
    /\ spc \in {"nak", "timeout"} => i \in Sf .. Sn - 1

\* The window of the main loop.
WindowOK ==
    /\ ~ eotSent => Sn - Sf <= Sw
    /\ MainLoopKeepsWindow

IInv ==
    /\ TypeOK /\ CountersOK /\ FileOK /\ FramesOK /\ BufferOK /\ RepliesOK /\ EndOK
    /\ TimersOK /\ WindowOK

-----------------------------------------------------------------------------
(* The numbers of the code.                                                *)

\* Without wrap-around the increments of the code are those of the naturals.
LEMMA Increment ==
    ASSUME NoWrap, NEW n \in 0 .. Chunks
    PROVE  (n + 1) % SeqSpace = n + 1 /\ n + 1 \in SeqNo
BY ChunksAssumption, SeqSpaceAssumption DEF NoWrap, SeqNo

\* A number has a slot in the store and in the array of timers ...
LEMMA SlotOf == ASSUME NEW k \in Nat PROVE k % Sw \in Slots
BY SwAssumption DEF Slots

\* ... and one in the receiver's buffer.
LEMMA PlaceOf == ASSUME NEW k \in Nat PROVE k % NBuf \in 0 .. NBuf - 1
BY SwAssumption, NBufAssumption

\* The counters are natural numbers, at most the number of frames.
LEMMA Counters ==
    ASSUME IInv
    PROVE  /\ Sf \in Nat /\ Sn \in Nat /\ Rn \in Nat /\ i \in Nat
           /\ Sn \in 0 .. Chunks + 1 /\ Sf <= Rn /\ Rn <= Sn
BY ChunksAssumption, SeqSpaceAssumption
   DEF IInv, TypeOK, CountersOK, WindowBracketsReceiver, SeqNo

\* Starting and stopping timers keeps the types of the timers.
LEMMA TimerTypes ==
    ASSUME pending \subseteq Slots, older \in [Slots -> SUBSET Slots],
           \/ \E slot \in Slots : StartTimer(slot)
           \/ \E stopped \in SUBSET Slots : StopTimers(stopped)
    PROVE  pending' \subseteq Slots /\ older' \in [Slots -> SUBSET Slots]
<1>1. CASE \E slot \in Slots : StartTimer(slot)
  <2>1. PICK slot \in Slots : StartTimer(slot)
    BY <1>1
  <2> QED
    BY <2>1 DEF StartTimer
<1>2. CASE \E stopped \in SUBSET Slots : StopTimers(stopped)
  <2>1. PICK stopped \in SUBSET Slots : StopTimers(stopped)
    BY <1>2
  <2> QED
    BY <2>1 DEF StopTimers
<1> QED
  BY <1>1, <1>2

-----------------------------------------------------------------------------
(* The steps of the sender.                                                *)

\* The two sends of new frames.  In the main loop the new frame overwrites the copy and
\* restarts the timer of a slot that no outstanding frame has.
LEMMA SendNextStep ==
    ASSUME NoWrap, IInv, SendData \/ SendEot
    PROVE  IInv'
<1> DEFINE f == [seq |-> Sn, payload |-> Sn]
<1> USE ChunksAssumption DEF IInv
<1>1. /\ ~ eotSent /\ Sn = offset /\ Sn \in 0 .. Chunks
      /\ SendNext(Sn)
  BY DEF SendData, SendEot, CountersOK, TypeOK, MoreToSend, Eot
<1>2. /\ Sn' = Sn + 1 /\ Sn' \in SeqNo
      /\ SenderAt("top")
      /\ frame_store' = [frame_store EXCEPT ![Sn % Sw] = f]
      /\ ChannelSendData(f)
      /\ StartTimer(Sn % Sw)
      /\ UNCHANGED <<spc, Sf, i, rpc, Rn, nak_sent, frame, buffer, output, eot,
                     acks, ackWrite, hungUp>>
  BY <1>1, Increment DEF SendNext, file, ackLink, receiverVars
<1>3. f \in Frame /\ f.seq = f.payload /\ f.seq < Sn'
  BY <1>1, <1>2 DEF Frame, TypeOK, Payload, SeqNo
<1>4. /\ data' \in Seq(Frame \cup {Corrupt})
      /\ dataWrite' \in Frame \cup {Corrupt, Idle}
      /\ \A k \in 1 .. Len(data') :
            \/ k \in 1 .. Len(data) /\ data'[k] = data[k]
            \/ data'[k] \in {f, Corrupt}
      /\ dataWrite' \in {dataWrite, f, Corrupt}
  BY <1>2, <1>3, SendDataEffect DEF TypeOK, LinkTypeOK
<1>5. offset' \in 0 .. Chunks /\ eotSent' \in BOOLEAN
  <2>1. CASE SendData
    BY <2>1, <1>1 DEF SendData, MoreToSend, TypeOK
  <2>2. CASE SendEot
    BY <2>2 DEF SendEot, TypeOK
  <2> QED
    BY <2>1, <2>2
<1>6. Sf \in Nat /\ Sn \in Nat /\ Rn \in Nat /\ Sf <= Rn /\ Rn <= Sn
  BY Counters
<1>7. Sn % Sw \in Slots
  BY <1>6, SlotOf
<1>8. pending' \subseteq Slots /\ older' \in [Slots -> SUBSET Slots]
  BY <1>2, <1>7, TimerTypes DEF TypeOK
<1>9. frame_store' \in [Slots -> Frame \cup {Unset}]
  BY <1>2, <1>3 DEF TypeOK
<1>10. TypeOK'
  BY <1>2, <1>4, <1>5, <1>8, <1>9 DEF TypeOK, LinkTypeOK
<1>11. CountersOK'
  <2>1. CASE SendData
    <3>1. offset' = Sn + 1 /\ ~ eotSent'
      BY <2>1, <1>1 DEF SendData
    <3> QED
      BY <3>1, <1>1, <1>2, <1>6 DEF CountersOK, WindowBracketsReceiver
  <2>2. CASE SendEot
    <3>1. offset' = Chunks /\ eotSent' /\ Sn = Chunks
      BY <2>2, <1>1 DEF SendEot, MoreToSend
    <3> QED
      BY <3>1, <1>1, <1>2, <1>6 DEF CountersOK, WindowBracketsReceiver
  <2> QED
    BY <2>1, <2>2
<1>12. FileOK'
  BY <1>2 DEF FileOK, FilePrefix
<1>13. FramesOK'
  <2>1. \A g : Copy(g, Sn) => Copy(g, Sn')
    BY <1>2, <1>6 DEF Copy, SeqNo, Frame
  <2>2. Copy(f, Sn')
    BY <1>3 DEF Copy
  <2>3. ASSUME NEW k \in 0 .. Sn' - 1
        PROVE  Copy(frame_store'[k % Sw], Sn')
    <3>1. k % Sw \in Slots /\ Sn % Sw \in Slots
      BY <1>6, SlotOf
    <3>2. CASE k % Sw = Sn % Sw
      BY <3>1, <3>2, <2>2, <1>2 DEF TypeOK
    <3>3. CASE k % Sw # Sn % Sw
      <4>1. k \in 0 .. Sn - 1
        BY <3>3, <1>2, <1>6
      <4>2. frame_store'[k % Sw] = frame_store[k % Sw]
        BY <3>1, <3>3, <1>2 DEF TypeOK
      <4> QED
        BY <4>1, <4>2, <2>1 DEF FramesOK
    <3> QED
      BY <3>2, <3>3
  <2>4. \A k \in 1 .. Len(data') : data'[k] # Corrupt => Copy(data'[k], Sn')
    BY <1>4, <2>1, <2>2 DEF FramesOK
  <2>5. dataWrite' \notin {Corrupt, Idle} => Copy(dataWrite', Sn')
    BY <1>4, <2>1, <2>2 DEF FramesOK
  <2>6. rpc' = "check" /\ frame' # Corrupt => Copy(frame', Sn')
    BY <1>2, <2>1 DEF FramesOK
  <2> QED
    BY <2>3, <2>4, <2>5, <2>6 DEF FramesOK
<1>14. BufferOK'
  <2>1. ASSUME NEW s \in 0 .. NBuf - 1, buffer[s] # Unset
        PROVE  buffer[s] < Sn'
    <3>1. buffer[s] \in Payload /\ buffer[s] < Sn
      BY <2>1 DEF BufferOK, TypeOK
    <3> QED
      BY <3>1, <1>2, <1>6 DEF Payload
  <2> QED
    BY <2>1, <1>2 DEF BufferOK, BufferHoldsWindow, Marked
<1>15. RepliesOK' /\ EndOK'
  BY <1>2 DEF RepliesOK, EndOK, SenderAt
<1>16. TimersOK'
  <2>1. ASSUME NEW s \in pending' PROVE \E k \in Sf .. Sn : k % Sw = s
    <3>1. CASE s = Sn % Sw
      BY <3>1, <1>6
    <3>2. CASE s # Sn % Sw
      <4>1. s \in pending
        BY <3>2, <1>2 DEF StartTimer
      <4> QED
        BY <4>1, <1>6 DEF TimersOK
    <3> QED
      BY <3>1, <3>2
  <2> QED
    BY <2>1, <1>2, <1>6 DEF TimersOK, SenderAt
<1>17. WindowOK'
  <2> SUFFICES ASSUME ~ eotSent' PROVE (Sn - Sf <= Sw)' /\ MainLoopKeepsWindow'
    BY DEF WindowOK, MainLoopKeepsWindow
  <2>1. SendData /\ Sn - Sf < Sw
    BY <1>6, SwAssumption DEF SendData, SendEot, WindowFull
  <2>2. Sn' - Sf' <= Sw
    BY <2>1, <1>2, <1>6, SwAssumption
  <2>3. ASSUME NEW k \in Sf .. Sn
        PROVE  /\ frame_store'[k % Sw] = [seq |-> k, payload |-> k]
               /\ k % Sw \in pending'
    <3>1. k % Sw \in Slots
      BY <1>6, SlotOf
    <3>2. CASE k = Sn
      BY <3>1, <3>2, <1>2 DEF TypeOK, StartTimer
    <3>3. CASE k # Sn
      <4>1. k % Sw # Sn % Sw
        <5>1. k \in Nat /\ k < Sn /\ Sn - k < Sw
          BY <3>3, <2>1, <1>6, SwAssumption
        <5> QED
          BY <5>1, <1>6, SwAssumption, DistinctResidues
      <4>2. frame_store[k % Sw] = [seq |-> k, payload |-> k] /\ k % Sw \in pending
        BY <3>3, <1>1, <1>6 DEF WindowOK, MainLoopKeepsWindow
      <4> QED
        BY <3>1, <4>1, <4>2, <1>2, <1>7 DEF TypeOK, StartTimer
    <3> QED
      BY <3>2, <3>3
  <2> QED
    BY <2>2, <2>3, <1>2, <1>6 DEF MainLoopKeepsWindow
<1> QED
  BY <1>10, <1>11, <1>12, <1>13, <1>14, <1>15, <1>16, <1>17

\* A reply is read.  An ACK slides the window at most to Rn, and stops no timer of a
\* frame that stays outstanding while the window holds.
LEMMA ReadReplyStep ==
    ASSUME NoWrap, IInv, ReadReply
    PROVE  IInv'
<1> DEFINE reply == Head(acks)
           stopped == {k % Sw : k \in Sf .. reply.seq - 1}
<1> USE DEF IInv
<1>1. /\ SenderAt("top") \/ SenderAt("reading")
      /\ acks # << >> /\ acks' = Tail(acks)
      /\ spc' = IF ValidNak(reply) THEN "nak" ELSE "reading"
      /\ i' = IF ValidNak(reply) THEN reply.seq ELSE i
      /\ IF ValidAck(reply)
           THEN Sf' = reply.seq /\ StopTimers(stopped)
           ELSE UNCHANGED <<Sf, pending, older>>
      /\ UNCHANGED <<Sn, offset, eotSent, frame_store, rpc, Rn, nak_sent, frame, buffer,
                     output, eot, data, dataWrite, ackWrite, hungUp>>
  BY DEF ReadReply, InSelect, progress, timers, receiverVars, file, dataLink
<1>2. acks \in Seq(Reply \cup {Corrupt})
  BY DEF TypeOK, LinkTypeOK
<1>3. /\ reply \in Reply \cup {Corrupt} /\ reply = acks[1] /\ 1 \in 1 .. Len(acks)
      /\ acks' \in Seq(Reply \cup {Corrupt})
      /\ \A k \in 1 .. Len(acks') : k + 1 \in 1 .. Len(acks) /\ acks'[k] = acks[k + 1]
  BY <1>1, <1>2, HeadAndTail
<1>4. Sf \in Nat /\ Sn \in Nat /\ Rn \in Nat /\ Sf <= Rn /\ Rn <= Sn
  BY Counters
<1>5. ValidNak(reply) => reply.seq \in SeqNo /\ reply.seq \in Sf .. Sn - 1 /\ ~ ValidAck(reply)
  <2> SUFFICES ASSUME ValidNak(reply)
               PROVE  reply.seq \in SeqNo /\ reply.seq \in Sf .. Sn - 1 /\ ~ ValidAck(reply)
    OBVIOUS
  <2>1. reply.seq \in SeqNo /\ reply.type = "NAK"
    BY <1>3 DEF ValidNak, Reply
  <2> QED
    BY <2>1, <1>4 DEF ValidNak, ValidAck, SeqNo
<1>6. ValidAck(reply) => reply.seq \in SeqNo /\ Sf < reply.seq /\ reply.seq <= Rn
  <2> SUFFICES ASSUME ValidAck(reply)
               PROVE  reply.seq \in SeqNo /\ Sf < reply.seq /\ reply.seq <= Rn
    OBVIOUS
  <2>1. reply.seq \in SeqNo
    BY <1>3 DEF ValidAck, Reply
  <2>2. reply.seq <= Rn
    BY <1>3 DEF ValidAck, RepliesOK
  <2> QED
    BY <2>1, <2>2, <1>4 DEF ValidAck, SeqNo
<1>7. Sf' \in SeqNo /\ Sf' \in Nat /\ Sf <= Sf' /\ Sf' <= Rn
  <2>1. CASE ValidAck(reply)
    <3>1. Sf' = reply.seq /\ reply.seq \in SeqNo /\ Sf < reply.seq /\ reply.seq <= Rn
      BY <2>1, <1>1, <1>6
    <3> QED
      BY <3>1, <1>4, SeqSpaceAssumption DEF SeqNo
  <2>2. CASE ~ ValidAck(reply)
    BY <2>2, <1>1, <1>4 DEF TypeOK
  <2> QED
    BY <2>1, <2>2
<1>8. \/ UNCHANGED <<Sf, pending, older>>
      \/ /\ Sf' = reply.seq /\ reply.seq \in Nat
         /\ stopped \in SUBSET Slots /\ StopTimers(stopped)
  <2>1. CASE ValidAck(reply)
    <3>1. reply.seq \in Nat
      BY <2>1, <1>6 DEF SeqNo
    <3>2. stopped \in SUBSET Slots
      <4>1. ASSUME NEW k \in Sf .. reply.seq - 1 PROVE k % Sw \in Slots
        BY <3>1, <1>4, SlotOf
      <4> QED
        BY <4>1
    <3> QED
      BY <3>1, <3>2, <2>1, <1>1
  <2> QED
    BY <2>1, <1>1
<1>9. pending' \subseteq Slots /\ older' \in [Slots -> SUBSET Slots]
  BY <1>8, TimerTypes DEF TypeOK
<1>10. spc' \in {"nak", "reading"} /\ i' \in SeqNo
       /\ (spc' = "nak" => i' \in Sf' .. Sn' - 1)
  BY <1>1, <1>5 DEF TypeOK
<1>11. TypeOK'
  BY <1>1, <1>3, <1>7, <1>9, <1>10 DEF TypeOK, LinkTypeOK
<1>12. CountersOK'
  BY <1>1, <1>7 DEF CountersOK, WindowBracketsReceiver
<1>13. FileOK' /\ FramesOK' /\ BufferOK'
  BY <1>1 DEF FileOK, FilePrefix, FramesOK, BufferOK, BufferHoldsWindow, Marked
<1>14. RepliesOK'
  BY <1>1, <1>3 DEF RepliesOK
<1>15. EndOK'
  BY <1>1 DEF EndOK, SenderAt
<1>16. TimersOK'
  <2>1. ASSUME NEW s \in pending' PROVE \E k \in Sf' .. Sn - 1 : k % Sw = s
    <3>1. CASE UNCHANGED <<Sf, pending, older>>
      BY <3>1 DEF TimersOK
    <3>2. CASE /\ Sf' = reply.seq /\ reply.seq \in Nat
               /\ stopped \in SUBSET Slots /\ StopTimers(stopped)
      <4>1. s \in pending /\ s \notin stopped
        BY <3>2 DEF StopTimers
      <4>2. PICK k \in Sf .. Sn - 1 : k % Sw = s
        BY <4>1 DEF TimersOK
      <4>3. ~ (k < reply.seq)
        BY <4>1, <4>2, <3>2, <1>4
      <4> QED
        BY <4>2, <4>3, <3>2, <1>4
    <3> QED
      BY <3>1, <3>2, <1>8
  <2> QED
    BY <2>1, <1>1, <1>10 DEF TimersOK
<1>17. WindowOK'
  <2> SUFFICES ASSUME ~ eotSent' PROVE (Sn - Sf <= Sw)' /\ MainLoopKeepsWindow'
    BY DEF WindowOK, MainLoopKeepsWindow
  <2>1. ~ eotSent /\ Sn - Sf <= Sw
    BY <1>1 DEF WindowOK
  <2>2. Sn' - Sf' <= Sw
    <3>1. \A f \in Nat : f >= Sf => Sn - f <= Sw
      BY <2>1, <1>4, SwAssumption
    <3> QED
      BY <3>1, <1>1, <1>7
  <2>3. ASSUME NEW k \in Sf' .. Sn - 1
        PROVE  /\ frame_store[k % Sw] = [seq |-> k, payload |-> k]
               /\ k % Sw \in pending'
    <3>1. /\ k \in Nat /\ k \in Sf .. Sn - 1
      BY <1>4, <1>7
    <3>2. frame_store[k % Sw] = [seq |-> k, payload |-> k] /\ k % Sw \in pending
      BY <3>1, <2>1 DEF WindowOK, MainLoopKeepsWindow
    <3>3. CASE UNCHANGED <<Sf, pending, older>>
      BY <3>2, <3>3
    <3>4. CASE /\ Sf' = reply.seq /\ reply.seq \in Nat
               /\ stopped \in SUBSET Slots /\ StopTimers(stopped)
      <4>1. ASSUME NEW j \in Sf .. reply.seq - 1 PROVE j % Sw # k % Sw
        <5>1. j \in Nat /\ j < k /\ k - j < Sw
          BY <3>1, <3>4, <2>1, <1>4, SwAssumption
        <5> QED
          BY <5>1, <3>1, SwAssumption, DistinctResidues
      <4>2. k % Sw \notin stopped
        BY <4>1
      <4> QED
        BY <4>2, <3>2, <3>4 DEF StopTimers
    <3> QED
      BY <3>3, <3>4, <1>8
  <2> QED
    BY <2>2, <2>3, <1>1 DEF MainLoopKeepsWindow
<1> QED
  BY <1>11, <1>12, <1>13, <1>14, <1>15, <1>16, <1>17

\* One frame is sent again: a copy of a frame numbered before, of an outstanding one.
LEMMA ResendStep ==
    ASSUME NoWrap, IInv, Resend
    PROVE  IInv'
<1> DEFINE f == frame_store[i % Sw]
<1> USE DEF IInv
<1>1. /\ SenderAt("timeout") \/ SenderAt("nak")
      /\ spc' \in {"reading", "top"} /\ i' = 0
      /\ ChannelSendData(f) /\ StartTimer(i % Sw)
      /\ UNCHANGED <<Sf, Sn, offset, eotSent, frame_store, rpc, Rn, nak_sent, frame, buffer,
                     output, eot, acks, ackWrite, hungUp>>
  BY DEF Resend, progress, receiverVars, file, ackLink
<1>2. i \in Sf .. Sn - 1 /\ Sf \in Nat /\ Sn \in Nat
  BY <1>1, Counters DEF TimersOK, SenderAt
<1>3. i' \in SeqNo /\ i % Sw \in Slots
  BY <1>1, <1>2, SeqSpaceAssumption, SlotOf DEF SeqNo
<1>4. Copy(f, Sn) /\ f \in Frame
  BY <1>2 DEF FramesOK, Copy
<1>5. /\ data' \in Seq(Frame \cup {Corrupt})
      /\ dataWrite' \in Frame \cup {Corrupt, Idle}
      /\ \A k \in 1 .. Len(data') :
            \/ k \in 1 .. Len(data) /\ data'[k] = data[k]
            \/ data'[k] \in {f, Corrupt}
      /\ dataWrite' \in {dataWrite, f, Corrupt}
  BY <1>1, <1>4, SendDataEffect DEF TypeOK, LinkTypeOK
<1>6. pending' \subseteq Slots /\ older' \in [Slots -> SUBSET Slots]
  BY <1>1, <1>3, TimerTypes DEF TypeOK
<1>7. TypeOK'
  BY <1>1, <1>3, <1>5, <1>6 DEF TypeOK, LinkTypeOK
<1>8. CountersOK' /\ FileOK' /\ BufferOK' /\ RepliesOK'
  BY <1>1 DEF CountersOK, WindowBracketsReceiver, FileOK, FilePrefix, BufferOK,
              BufferHoldsWindow, Marked, RepliesOK
<1>9. FramesOK'
  BY <1>1, <1>4, <1>5 DEF FramesOK
<1>10. EndOK'
  BY <1>1 DEF EndOK, SenderAt
<1>11. pending' = pending \cup {i % Sw}
  BY <1>1 DEF StartTimer
<1>12. TimersOK'
  BY <1>1, <1>2, <1>11 DEF TimersOK
<1>13. WindowOK'
  BY <1>1, <1>11 DEF WindowOK, MainLoopKeepsWindow
<1> QED
  BY <1>7, <1>8, <1>9, <1>10, <1>12, <1>13

\* The frame chosen for a timeout is outstanding.
LEMMA EarliestIsOutstanding ==
    ASSUME IInv, NEW expired \in SUBSET pending, expired # {}
    PROVE  EarliestOf(expired) \in Sf .. Sn - 1
<1> DEFINE S == {k \in Sf .. Sn - 1 : k % Sw \in expired}
<1>1. Sf \in Nat /\ Sn \in Nat
  BY Counters
<1>2. S \in SUBSET Nat /\ S # {}
  BY <1>1 DEF IInv, TimersOK
<1> HIDE DEF S
<1>3. \E m \in S : \A n \in S : m <= n
  BY <1>2, LeastElement
<1>4. Min(S) \in S
  BY <1>3 DEF Min
<1> USE DEF S
<1> QED
  BY <1>4 DEF EarliestOf

\* The steps of the sender that touch neither the link nor the window.
LEMMA SenderLocalStep ==
    ASSUME NoWrap, IInv,
           StopReading \/ PeerClosed \/ Timeout \/ IdleTimeout \/ DrainDone
    PROVE  IInv'
<1> USE DEF IInv
<1>1. /\ SenderAt("top") \/ SenderAt("reading")
      /\ UNCHANGED <<Sf, Sn, offset, eotSent, frame_store, pending, older, rpc, Rn,
                     nak_sent, frame, buffer, output, eot, data, dataWrite, acks,
                     ackWrite, hungUp>>
  BY DEF StopReading, PeerClosed, Timeout, IdleTimeout, DrainDone, senderVars, progress,
         timers, receiverVars, linkVars, vars, file, dataLink, ackLink, InSelect, Readable
<1>2. /\ spc' \in {"top", "reading", "timeout", "done"}
      /\ i' \in SeqNo
      /\ spc' = "timeout" => i' \in Sf .. Sn - 1
      /\ spc' = "done" => eot
  <2>1. CASE StopReading
    BY <2>1 DEF StopReading, senderVars, TypeOK
  <2>2. CASE PeerClosed
    BY <2>2 DEF PeerClosed, AtEof, EndOK, senderVars, TypeOK
  <2>3. CASE Timeout
    <3>1. spc' = "timeout" /\ i' \in Sf .. Sn - 1
      BY <2>3, EarliestIsOutstanding DEF Timeout, MayHaveExpired
    <3>2. Sf \in SeqNo /\ Sn \in SeqNo
      BY DEF TypeOK
    <3> QED
      BY <3>1, <3>2, SeqSpaceAssumption DEF SeqNo
  <2>4. CASE IdleTimeout
    BY <2>4, <1>1 DEF IdleTimeout, vars, linkVars, senderVars, SenderAt, TypeOK
  <2>5. CASE DrainDone
    <3>1. spc' = "done" /\ eotSent /\ ~ (Sf < Sn) /\ i' = i
      BY <2>5 DEF DrainDone, Outstanding, senderVars
    <3>2. Rn = Chunks + 1
      BY <3>1, Counters DEF CountersOK
    <3> QED
      BY <3>1, <3>2 DEF FileOK, TypeOK
  <2> QED
    BY <2>1, <2>2, <2>3, <2>4, <2>5
<1>3. TypeOK'
  BY <1>1, <1>2 DEF TypeOK, LinkTypeOK
<1>4. CountersOK' /\ FileOK' /\ FramesOK' /\ BufferOK' /\ RepliesOK' /\ WindowOK'
  BY <1>1 DEF CountersOK, WindowBracketsReceiver, FileOK, FilePrefix, FramesOK, BufferOK,
              BufferHoldsWindow, Marked, RepliesOK, WindowOK, MainLoopKeepsWindow
<1>5. EndOK'
  BY <1>1, <1>2 DEF EndOK, SenderAt
<1>6. TimersOK'
  BY <1>1, <1>2 DEF TimersOK
<1> QED
  BY <1>3, <1>4, <1>5, <1>6

\* The kernel finishes or fails the sender's blocked write.
LEMMA SenderKernelStep ==
    ASSUME NoWrap, IInv, SenderKernel
    PROVE  IInv'
<1> USE DEF IInv
<1>1. /\ dataWrite' \in {dataWrite, Idle}
      /\ spc' \in {spc, "killed"}
      /\ \/ data' = data
         \/ dataWrite \notin {Corrupt, Idle} /\ data' = Append(data, dataWrite)
         \/ dataWrite = Corrupt /\ data' = Append(data, Corrupt)
      /\ UNCHANGED <<Sf, Sn, offset, eotSent, frame_store, pending, older, i, rpc, Rn,
                     nak_sent, frame, buffer, output, eot, acks, ackWrite, hungUp>>
  BY DEF SenderKernel, UnblockData, WriteFails, BrokenPipe, senderVars, progress,
         timers, receiverVars, file, ackLink
<1>2. /\ data \in Seq(Frame \cup {Corrupt})
      /\ dataWrite \notin {Corrupt, Idle} => dataWrite \in Frame
  BY DEF TypeOK, LinkTypeOK
<1>3. data' \in Seq(Frame \cup {Corrupt})
  BY <1>1, <1>2
<1>4. TypeOK'
  BY <1>1, <1>3 DEF TypeOK, LinkTypeOK
<1>5. CountersOK' /\ FileOK' /\ BufferOK' /\ RepliesOK' /\ TimersOK' /\ WindowOK'
  BY <1>1 DEF CountersOK, WindowBracketsReceiver, FileOK, FilePrefix, BufferOK,
              BufferHoldsWindow, Marked, RepliesOK, TimersOK, WindowOK, MainLoopKeepsWindow
<1>6. FramesOK'
  <2>1. \A k \in 1 .. Len(data') : data'[k] # Corrupt => Copy(data'[k], Sn)
    BY <1>1, <1>2 DEF FramesOK
  <2> QED
    BY <2>1, <1>1 DEF FramesOK
<1>7. EndOK'
  BY <1>1 DEF EndOK
<1> QED
  BY <1>4, <1>5, <1>6, <1>7

-----------------------------------------------------------------------------
(* The steps of the receiver, of the kernel on its side and of the harness. *)

\* The receiver reads a frame.
LEMMA ReceiveStep ==
    ASSUME NoWrap, IInv, Receive
    PROVE  IInv'
<1> USE DEF IInv
<1>1. /\ data # << >> /\ data' = Tail(data) /\ rpc' = "check" /\ frame' = Head(data)
      /\ ReceiverAt("recv")
      /\ UNCHANGED <<Sf, Sn, offset, eotSent, frame_store, pending, older, i, spc, Rn,
                     nak_sent, buffer, output, eot, dataWrite, acks, ackWrite, hungUp>>
  BY DEF Receive, senderVars, progress, timers, file, ackLink
<1>2. data \in Seq(Frame \cup {Corrupt})
  BY DEF TypeOK, LinkTypeOK
<1>3. /\ frame' \in Frame \cup {Corrupt} /\ frame' = data[1] /\ 1 \in 1 .. Len(data)
      /\ data' \in Seq(Frame \cup {Corrupt})
      /\ \A k \in 1 .. Len(data') : k + 1 \in 1 .. Len(data) /\ data'[k] = data[k + 1]
  BY <1>1, <1>2, HeadAndTail
<1>4. TypeOK'
  BY <1>1, <1>3 DEF TypeOK, LinkTypeOK
<1>5. CountersOK' /\ FileOK' /\ BufferOK' /\ RepliesOK' /\ EndOK' /\ TimersOK' /\ WindowOK'
  BY <1>1 DEF CountersOK, WindowBracketsReceiver, FileOK, FilePrefix, BufferOK,
              BufferHoldsWindow, Marked, RepliesOK, EndOK, ReceiverAt, TimersOK, WindowOK,
              MainLoopKeepsWindow
<1>6. FramesOK'
  BY <1>1, <1>3 DEF FramesOK
<1> QED
  BY <1>4, <1>5, <1>6

\* What a reply of the receiver does to the link.
LEMMA ReplyEffect ==
    ASSUME IInv, NEW type \in {"ACK", "NAK"},
           ChannelSendAck([type |-> type, seq |-> Rn]), Rn' = Rn
    PROVE  /\ acks' \in Seq(Reply \cup {Corrupt})
           /\ ackWrite' \in Reply \cup {Corrupt, Idle}
           /\ RepliesOK'
<1> DEFINE r == [type |-> type, seq |-> Rn]
<1> USE DEF IInv
<1>1. r \in Reply /\ r.seq <= Rn
  BY DEF Reply, TypeOK, SeqNo
<1>2. /\ acks' \in Seq(Reply \cup {Corrupt})
      /\ ackWrite' \in Reply \cup {Corrupt, Idle}
      /\ \A k \in 1 .. Len(acks') :
            \/ k \in 1 .. Len(acks) /\ acks'[k] = acks[k]
            \/ acks'[k] \in {r, Corrupt}
      /\ ackWrite' \in {ackWrite, r, Corrupt}
  BY <1>1, SendAckEffect DEF TypeOK, LinkTypeOK
<1>3. \A k \in 1 .. Len(acks') : acks'[k] # Corrupt => acks'[k].seq <= Rn
  BY <1>1, <1>2 DEF RepliesOK
<1>4. ackWrite' \notin {Corrupt, Idle} => ackWrite'.seq <= Rn
  BY <1>1, <1>2 DEF RepliesOK
<1> QED
  BY <1>2, <1>3, <1>4 DEF RepliesOK

\* A NAK and an ACK both carry Rn.
LEMMA ReplyStep ==
    ASSUME NoWrap, IInv, SendNak \/ SendAck
    PROVE  IInv'
<1> USE DEF IInv
<1>1. /\ \E type \in {"ACK", "NAK"} : ChannelSendAck([type |-> type, seq |-> Rn])
      /\ nak_sent' \in BOOLEAN
      /\ rpc' \in {"recv", "check", "done"}
      /\ rpc' = "check" => rpc = "check"
      /\ rpc' = "done" => eot
      /\ UNCHANGED <<Sf, Sn, offset, eotSent, frame_store, pending, older, i, spc, Rn,
                     frame, buffer, output, eot, data, dataWrite, hungUp>>
  <2>1. CASE SendNak
    BY <2>1 DEF SendNak, ReceiverAt, senderVars, progress, timers, file, dataLink
  <2>2. CASE SendAck
    BY <2>2 DEF SendAck, NextExpected, ReceiverAt, senderVars, progress, timers, file,
                dataLink
  <2> QED
    BY <2>1, <2>2
<1>2. /\ acks' \in Seq(Reply \cup {Corrupt})
      /\ ackWrite' \in Reply \cup {Corrupt, Idle}
      /\ RepliesOK'
  BY <1>1, ReplyEffect
<1>3. TypeOK'
  BY <1>1, <1>2 DEF TypeOK, LinkTypeOK
<1>4. CountersOK' /\ FileOK' /\ FramesOK' /\ BufferOK' /\ TimersOK' /\ WindowOK'
  BY <1>1 DEF CountersOK, WindowBracketsReceiver, FileOK, FilePrefix, FramesOK, BufferOK,
              BufferHoldsWindow, Marked, TimersOK, WindowOK, MainLoopKeepsWindow
<1>5. EndOK'
  BY <1>1 DEF EndOK
<1> QED
  BY <1>2, <1>3, <1>4, <1>5

\* A corrupted frame is dropped.
LEMMA DropStep ==
    ASSUME NoWrap, IInv, DropCorrupted
    PROVE  IInv'
<1> USE DEF IInv
<1>1. /\ rpc' = "recv" /\ frame' = Unset
      /\ UNCHANGED <<Sf, Sn, offset, eotSent, frame_store, pending, older, i, spc, Rn,
                     nak_sent, buffer, output, eot, data, dataWrite, acks, ackWrite,
                     hungUp>>
  BY DEF DropCorrupted, senderVars, progress, timers, file, dataLink, ackLink
<1>2. EndOK'
  BY <1>1 DEF EndOK
<1>3. TypeOK'
  BY <1>1 DEF TypeOK, LinkTypeOK
<1> QED
  BY <1>1, <1>2, <1>3 DEF CountersOK, WindowBracketsReceiver, FileOK, FilePrefix, FramesOK,
     BufferOK, BufferHoldsWindow, Marked, RepliesOK, TimersOK, WindowOK, MainLoopKeepsWindow

\* A frame of the window is marked, if its slot is free.
LEMMA AcceptStep ==
    ASSUME NoWrap, IInv, Accept
    PROVE  IInv'
<1> USE DEF IInv
<1>1. /\ ReceiverAt("check") /\ frame # Corrupt /\ frame' = Unset
      /\ buffer' = IF InWindow(frame.seq) /\ ~ Marked(buffer, frame.seq)
                     THEN [buffer EXCEPT ![frame.seq % NBuf] = frame.payload]
                     ELSE buffer
      /\ rpc' = IF buffer' # buffer /\ Marked(buffer', Rn) THEN "deliver" ELSE "recv"
      /\ UNCHANGED <<Sf, Sn, offset, eotSent, frame_store, pending, older, i, spc, Rn,
                     nak_sent, output, eot, data, dataWrite, acks, ackWrite, hungUp>>
  BY DEF Accept, senderVars, progress, timers, file, dataLink, ackLink
<1>2. Sn \in Nat /\ Rn \in Nat
  BY Counters
<1>3. /\ frame \in Frame /\ frame.seq = frame.payload /\ frame.seq < Sn
      /\ frame.payload \in Payload /\ frame.payload \in Nat
  BY <1>1, ChunksAssumption DEF FramesOK, Copy, ReceiverAt, Frame, Payload
<1>4. frame.payload % NBuf \in 0 .. NBuf - 1
  BY <1>3, PlaceOf
<1>5. ASSUME NEW s \in 0 .. NBuf - 1
      PROVE  \/ buffer'[s] = buffer[s]
             \/ /\ s = frame.payload % NBuf /\ buffer'[s] = frame.payload
                /\ InWindow(frame.payload)
  <2>1. CASE InWindow(frame.seq) /\ ~ Marked(buffer, frame.seq)
    <3>1. buffer' = [buffer EXCEPT ![frame.payload % NBuf] = frame.payload]
      BY <2>1, <1>1, <1>3
    <3>2. InWindow(frame.payload)
      BY <2>1, <1>3
    <3> QED
      BY <3>1, <3>2, <1>4 DEF TypeOK
  <2>2. CASE ~ (InWindow(frame.seq) /\ ~ Marked(buffer, frame.seq))
    BY <2>2, <1>1
  <2> QED
    BY <2>1, <2>2
<1>6. buffer' \in [0 .. NBuf - 1 -> Payload \cup {Unset}]
  <2>1. buffer \in [0 .. NBuf - 1 -> Payload \cup {Unset}]
    BY DEF TypeOK
  <2> QED
    BY <2>1, <1>1, <1>3, <1>4
<1>7. rpc' \in {"deliver", "recv"} /\ (rpc' = "deliver" => Marked(buffer', Rn))
  BY <1>1
<1>8. TypeOK'
  BY <1>1, <1>6, <1>7 DEF TypeOK, LinkTypeOK
<1>9. BufferOK'
  <2>1. ASSUME NEW s \in 0 .. NBuf - 1, buffer'[s] # Unset
        PROVE  buffer'[s] % NBuf = s /\ buffer'[s] \in Rn .. Rn + Sw - 1 /\ buffer'[s] < Sn
    <3>1. CASE buffer'[s] = buffer[s]
      BY <3>1, <2>1 DEF BufferOK, BufferHoldsWindow
    <3>2. CASE /\ s = frame.payload % NBuf /\ buffer'[s] = frame.payload
               /\ InWindow(frame.payload)
      <4>1. frame.payload \in Rn .. Rn + Sw - 1
        BY <3>2, <1>2, <1>3, SwAssumption DEF InWindow
      <4> QED
        BY <4>1, <3>2, <1>3
    <3> QED
      BY <3>1, <3>2, <1>5
  <2>2. (rpc = "deliver" => Marked(buffer, Rn))'
    BY <1>1, <1>7 DEF Marked
  <2> QED
    BY <2>1, <2>2, <1>1 DEF BufferOK, BufferHoldsWindow
<1>10. EndOK'
  BY <1>1, <1>7 DEF EndOK
<1>11. FramesOK'
  BY <1>1, <1>7 DEF FramesOK
<1> QED
  BY <1>1, <1>8, <1>9, <1>10, <1>11 DEF CountersOK, WindowBracketsReceiver, FileOK, FilePrefix,
     RepliesOK, TimersOK, WindowOK, MainLoopKeepsWindow

\* The marked slot of Rn holds frame number Rn: no other number of the window has it.
LEMMA NextInBuffer ==
    ASSUME IInv, rpc = "deliver"
    PROVE  buffer[Rn % NBuf] = Rn /\ Rn < Sn /\ Rn \in 0 .. Chunks
<1> DEFINE p == buffer[Rn % NBuf]
<1>1. Rn \in Nat /\ Sn \in 0 .. Chunks + 1
  BY Counters
<1>2. Rn % NBuf \in 0 .. NBuf - 1
  BY <1>1, PlaceOf
<1>3. p # Unset /\ p \in Payload
  BY <1>2 DEF IInv, BufferOK, Marked, TypeOK
<1>4. p % NBuf = Rn % NBuf /\ p \in Rn .. Rn + Sw - 1 /\ p < Sn
  BY <1>2, <1>3 DEF IInv, BufferOK, BufferHoldsWindow
<1>5. p = Rn
  <2> SUFFICES ASSUME p # Rn PROVE FALSE
    OBVIOUS
  <2>1. p \in Nat /\ Rn < p /\ p - Rn < NBuf /\ NBuf \in Nat \ {0}
    BY <1>1, <1>4, SwAssumption, NBufAssumption
  <2> QED
    BY <2>1, <1>1, <1>4, DistinctResidues
<1> QED
  BY <1>1, <1>4, <1>5, ChunksAssumption

\* The next chunk, or the end of transmission after the last, is delivered.
LEMMA DeliverStep ==
    ASSUME NoWrap, IInv, Deliver
    PROVE  IInv'
<1> USE ChunksAssumption DEF IInv
<1>1. /\ ReceiverAt("deliver")
      /\ WritePayload(buffer[Rn % NBuf])
      /\ buffer' = [buffer EXCEPT ![Rn % NBuf] = Unset]
      /\ Rn' = (Rn + 1) % SeqSpace
      /\ rpc' = IF Marked(buffer', Rn') THEN "deliver" ELSE "ack"
      /\ UNCHANGED <<Sf, Sn, offset, eotSent, frame_store, pending, older, i, spc, nak_sent,
                     frame, data, dataWrite, acks, ackWrite, hungUp>>
  BY DEF Deliver, senderVars, progress, timers, dataLink, ackLink
<1>2. buffer[Rn % NBuf] = Rn /\ Rn < Sn /\ Rn \in 0 .. Chunks
  BY <1>1, NextInBuffer DEF ReceiverAt
<1>3. Rn' = Rn + 1 /\ Rn' \in SeqNo
  BY <1>1, <1>2, Increment
<1>4. Sf \in Nat /\ Sn \in 0 .. Chunks + 1 /\ Rn \in Nat /\ Sf <= Rn
  BY Counters
<1>5. ~ eot /\ output = FilePrefix(Rn) /\ WritePayload(Rn)
  BY <1>1, <1>2 DEF FileOK
<1>6. /\ eot' \in BOOLEAN /\ (eot' <=> Rn = Chunks)
      /\ output' = FilePrefix(IF Rn = Chunks THEN Chunks ELSE Rn + 1)
  <2>1. CASE Rn = Chunks
    BY <2>1, <1>5 DEF WritePayload, Eot
  <2>2. CASE Rn # Chunks
    <3>1. output' = Append(output, Rn) /\ eot' = eot
      BY <2>2, <1>5 DEF WritePayload, Eot
    <3>2. Append(FilePrefix(Rn), Rn) = FilePrefix(Rn + 1)
      BY <1>4, PrefixGrows
    <3> QED
      BY <3>1, <3>2, <2>2, <1>5 DEF TypeOK, LinkTypeOK
  <2> QED
    BY <2>1, <2>2
<1>7. output' \in Seq(Payload)
  <2>1. output \in Seq(Payload) /\ Rn \in Payload
    BY <1>2 DEF Payload, TypeOK, LinkTypeOK
  <2> QED
    BY <2>1, <1>5 DEF WritePayload
<1>8. Rn % NBuf \in 0 .. NBuf - 1
  BY <1>4, PlaceOf
<1>9. /\ buffer' \in [0 .. NBuf - 1 -> Payload \cup {Unset}]
      /\ \A s \in 0 .. NBuf - 1 : s # Rn % NBuf => buffer'[s] = buffer[s]
      /\ buffer'[Rn % NBuf] = Unset
  <2>1. buffer \in [0 .. NBuf - 1 -> Payload \cup {Unset}]
    BY DEF TypeOK
  <2> QED
    BY <2>1, <1>1, <1>8
<1>10. rpc' \in {"deliver", "ack"} /\ (rpc' = "deliver" => Marked(buffer', Rn'))
  BY <1>1
<1>11. TypeOK'
  BY <1>1, <1>3, <1>6, <1>7, <1>9, <1>10 DEF TypeOK, LinkTypeOK
<1>12. CountersOK'
  BY <1>1, <1>2, <1>3, <1>4 DEF CountersOK, WindowBracketsReceiver
<1>13. FileOK'
  BY <1>3, <1>4, <1>6 DEF FileOK
<1>14. BufferOK'
  <2>1. ASSUME NEW s \in 0 .. NBuf - 1, buffer'[s] # Unset
        PROVE  buffer'[s] % NBuf = s /\ buffer'[s] \in Rn' .. Rn' + Sw - 1 /\ buffer'[s] < Sn
    <3>1. s # Rn % NBuf /\ buffer'[s] = buffer[s]
      BY <2>1, <1>9
    <3>2. buffer[s] % NBuf = s /\ buffer[s] \in Rn .. Rn + Sw - 1 /\ buffer[s] < Sn
      BY <2>1, <3>1 DEF BufferOK, BufferHoldsWindow
    <3>3. buffer[s] # Rn
      BY <3>1, <3>2
    <3>4. buffer[s] \in Rn + 1 .. Rn + 1 + Sw - 1
      BY <3>2, <3>3, <1>4, SwAssumption
    <3> QED
      BY <3>1, <3>2, <3>4, <1>3
  <2>2. (rpc = "deliver" => Marked(buffer, Rn))'
    BY <1>10 DEF Marked
  <2> QED
    BY <2>1, <2>2, <1>1 DEF BufferOK, BufferHoldsWindow
<1>15. RepliesOK'
  <2>1. /\ acks \in Seq(Reply \cup {Corrupt}) /\ ackWrite \in Reply \cup {Corrupt, Idle}
        /\ UNCHANGED <<acks, ackWrite>>
    BY <1>1 DEF TypeOK, LinkTypeOK
  <2>2. \A n \in SeqNo : n <= Rn => n <= Rn'
    BY <1>3, <1>4, SeqSpaceAssumption DEF SeqNo
  <2>3. \A r \in Reply : r.seq <= Rn => r.seq <= Rn'
    BY <2>2 DEF Reply
  <2>4. \A k \in 1 .. Len(acks) : acks[k] # Corrupt => acks[k] \in Reply
    BY <2>1
  <2>5. ackWrite \notin {Corrupt, Idle} => ackWrite \in Reply
    BY <2>1
  <2> QED
    BY <2>1, <2>3, <2>4, <2>5 DEF RepliesOK
<1>16. EndOK'
  BY <1>1, <1>5, <1>10 DEF EndOK, ReceiverAt
<1>17. FramesOK' /\ TimersOK' /\ WindowOK'
  BY <1>1, <1>10 DEF FramesOK, TimersOK, WindowOK, MainLoopKeepsWindow
<1> QED
  BY <1>11, <1>12, <1>13, <1>14, <1>15, <1>16, <1>17

\* The kernel finishes the receiver's blocked write.
LEMMA ReceiverKernelStep ==
    ASSUME NoWrap, IInv, ReceiverKernel
    PROVE  IInv'
<1> USE DEF IInv
<1>1. /\ ackWrite # Idle /\ ackWrite' = Idle
      /\ acks' = Append(acks, ackWrite)
      /\ UNCHANGED <<Sf, Sn, offset, eotSent, frame_store, pending, older, i, spc, rpc, Rn,
                     nak_sent, frame, buffer, output, eot, data, dataWrite, hungUp>>
  BY DEF ReceiverKernel, UnblockAck, senderVars, progress, timers, receiverVars, file,
         dataLink
<1>2. acks \in Seq(Reply \cup {Corrupt}) /\ ackWrite \in Reply \cup {Corrupt}
  BY <1>1 DEF TypeOK, LinkTypeOK
<1>3. acks' \in Seq(Reply \cup {Corrupt})
  BY <1>1, <1>2
<1>4. TypeOK'
  BY <1>1, <1>3 DEF TypeOK, LinkTypeOK
<1>5. /\ CountersOK' /\ FileOK' /\ FramesOK' /\ BufferOK' /\ EndOK' /\ TimersOK' /\ WindowOK'
  BY <1>1 DEF CountersOK, WindowBracketsReceiver, FileOK, FilePrefix, FramesOK, BufferOK,
              BufferHoldsWindow, Marked, EndOK, TimersOK, WindowOK, MainLoopKeepsWindow
<1>6. RepliesOK'
  <2>1. \A k \in 1 .. Len(acks') : acks'[k] # Corrupt => acks'[k].seq <= Rn
    BY <1>1, <1>2 DEF RepliesOK
  <2> QED
    BY <2>1, <1>1 DEF RepliesOK
<1> QED
  BY <1>4, <1>5, <1>6

\* The harness hangs up after the receiver is done.
LEMMA HarnessStep ==
    ASSUME NoWrap, IInv, Harness
    PROVE  IInv'
<1> USE DEF IInv
<1>1. /\ UNCHANGED <<Sf, Sn, offset, eotSent, frame_store, pending, older, i, spc, rpc, Rn,
                     nak_sent, frame, buffer, output, eot, dataWrite, acks, ackWrite>>
      /\ \/ data' = data /\ hungUp' = hungUp
         \/ data' = << >> /\ hungUp' = TRUE /\ rpc = "done"
  BY DEF Harness, HangUp, TrialOver, ReceiverAt, senderVars, progress, timers, receiverVars,
         linkVars, file, dataLink, ackLink
<1>2. data' \in Seq(Frame \cup {Corrupt}) /\ hungUp' \in BOOLEAN
  BY <1>1, EmptyQueue DEF TypeOK, LinkTypeOK
<1>3. TypeOK'
  BY <1>1, <1>2 DEF TypeOK, LinkTypeOK
<1>4. /\ CountersOK' /\ FileOK' /\ BufferOK' /\ RepliesOK' /\ EndOK' /\ TimersOK' /\ WindowOK'
  BY <1>1 DEF CountersOK, WindowBracketsReceiver, FileOK, FilePrefix, BufferOK,
              BufferHoldsWindow, Marked, RepliesOK, EndOK, TimersOK, WindowOK,
              MainLoopKeepsWindow
<1>5. FramesOK'
  BY <1>1 DEF FramesOK
<1> QED
  BY <1>3, <1>4, <1>5

-----------------------------------------------------------------------------
(* The inductive invariant.                                                *)

\* The initial states satisfy it ...
LEMMA InitInv == Init => IInv
<1> SUFFICES ASSUME Init PROVE IInv
  OBVIOUS
<1> USE ChunksAssumption, SeqSpaceAssumption, SwAssumption DEF Init, LinkInit
<1>1. TypeOK
  <2>1. 0 \in SeqNo
    BY DEF SeqNo
  <2>2. LinkTypeOK(Frame, Reply)
    BY EmptyQueue DEF LinkTypeOK
  <2>3. frame_store \in [Slots -> Frame \cup {Unset}]
    OBVIOUS
  <2>4. buffer \in [0 .. NBuf - 1 -> Payload \cup {Unset}]
    OBVIOUS
  <2>5. pending \subseteq Slots /\ older \in [Slots -> SUBSET Slots]
    OBVIOUS
  <2>6. offset \in 0 .. Chunks /\ spc = "top" /\ rpc = "recv" /\ frame = Unset
    OBVIOUS
  <2>7. eotSent \in BOOLEAN /\ nak_sent \in BOOLEAN
    OBVIOUS
  <2>8. Sf \in SeqNo /\ Sn \in SeqNo /\ Rn \in SeqNo /\ i \in SeqNo
    BY <2>1
  <2> QED
    BY <2>2, <2>3, <2>4, <2>5, <2>6, <2>7, <2>8 DEF TypeOK
<1>2. CountersOK /\ RepliesOK /\ EndOK
  BY DEF CountersOK, WindowBracketsReceiver, RepliesOK, EndOK
<1>3. FileOK
  BY DEF FileOK, FilePrefix
<1>4. FramesOK /\ BufferOK
  BY DEF FramesOK, BufferOK, BufferHoldsWindow
<1>5. TimersOK /\ WindowOK
  BY DEF TimersOK, WindowOK, MainLoopKeepsWindow
<1> QED
  BY <1>1, <1>2, <1>3, <1>4, <1>5 DEF IInv

\* ... and every step preserves it.
LEMMA NextInv == ASSUME NoWrap, IInv, [Next]_vars PROVE IInv'
<1>1. CASE SenderNext
  BY <1>1, SendNextStep, ReadReplyStep, ResendStep, SenderLocalStep, SenderKernelStep
     DEF SenderNext
<1>2. CASE ReceiverNext
  BY <1>2, ReceiveStep, ReplyStep, DropStep, AcceptStep, DeliverStep, ReceiverKernelStep
     DEF ReceiverNext
<1>3. CASE Harness
  BY <1>3, HarnessStep
<1>4. CASE UNCHANGED vars
  BY <1>4 DEF vars, senderVars, progress, timers, receiverVars, linkVars, file, dataLink,
              ackLink, IInv, TypeOK, LinkTypeOK, CountersOK, WindowBracketsReceiver, FileOK,
              FilePrefix, FramesOK, BufferOK, BufferHoldsWindow, Marked, RepliesOK, EndOK,
              TimersOK, WindowOK, MainLoopKeepsWindow
<1> QED
  BY <1>1, <1>2, <1>3, <1>4 DEF Next

\* IInv holds in every reachable state.
THEOREM Invariance == ASSUME NoWrap PROVE Spec => []IInv
<1>1. Init => IInv
  BY InitInv
<1>2. IInv /\ [Next]_vars => IInv'
  BY NextInv
<1> QED
  BY <1>1, <1>2, PTL DEF Spec

-----------------------------------------------------------------------------
(* What follows from it.                                                   *)

\* The locals, the file and the queues keep their types: no sequence number leaves its
\* range, and neither a retransmission nor a delivery reads a slot that holds nothing.
THEOREM TypeCorrect == ASSUME NoWrap PROVE Spec => []TypeOK
<1>1. IInv => TypeOK
  BY DEF IInv
<1> QED
  BY <1>1, Invariance, PTL

\* The window of sender_sr_mode never slides past a frame that receiver_sr_mode has not
\* delivered, and the receiver never expects a number that was not used.
THEOREM WindowSafe == ASSUME NoWrap PROVE Spec => []WindowBracketsReceiver
<1>1. IInv => WindowBracketsReceiver
  BY DEF IInv, CountersOK
<1> QED
  BY <1>1, Invariance, PTL

\* A slot of the receiver's buffer is never taken for another frame of the window.
THEOREM BufferSafe == ASSUME NoWrap PROVE Spec => []BufferHoldsWindow
<1>1. IInv => BufferHoldsWindow
  BY DEF IInv, BufferOK
<1> QED
  BY <1>1, Invariance, PTL

\* In its main loop the sender can send every outstanding frame again: it has the copy,
\* and a timer of its own runs for it.
THEOREM StoreSafe == ASSUME NoWrap PROVE Spec => []MainLoopKeepsWindow
<1>1. IInv => MainLoopKeepsWindow
  BY DEF IInv, WindowOK
<1> QED
  BY <1>1, Invariance, PTL

\* The file receiver_sr_mode writes is a prefix of the file that was sent, and the
\* whole of it at the end of transmission.
THEOREM FileSafe == ASSUME NoWrap PROVE Spec => []OutputIsPrefix
<1>1. IInv => OutputIsPrefix
  <2> SUFFICES ASSUME IInv PROVE OutputIsPrefix
    OBVIOUS
  <2> DEFINE n == IF eot THEN Chunks ELSE Rn
  <2>1. n \in Nat /\ output = FilePrefix(n) /\ (eot => n = Chunks)
    BY ChunksAssumption, Counters DEF IInv, FileOK
  <2>2. Len(output) = n
    BY <2>1, PrefixLength
  <2> QED
    BY <2>1, <2>2 DEF OutputIsPrefix
<1> QED
  BY <1>1, Invariance, PTL

\* sender_sr_mode returns only after the receiver accepted the end of transmission.
THEOREM CompletionSafe == ASSUME NoWrap PROVE Spec => []CompleteMeansDelivered
<1>1. IInv => CompleteMeansDelivered
  BY DEF IInv, EndOK, CompleteMeansDelivered
<1> QED
  BY <1>1, Invariance, PTL

-----------------------------------------------------------------------------
(* SelectiveRepeat implements ReliableTransfer.                            *)

\* Every step delivers the next chunk, ends the transfer, reports it, or stutters.
LEMMA ContractStep ==
    ASSUME NoWrap, IInv, IInv', [Next]_vars
    PROVE  [Contract!Next]_(Contract!vars)
<1> USE ChunksAssumption DEF IInv
<1>1. CASE Deliver
  <2>1. /\ WritePayload(buffer[Rn % NBuf]) /\ spc' = spc /\ rpc = "deliver"
    BY <1>1 DEF Deliver, ReceiverAt
  <2>2. buffer[Rn % NBuf] = Rn /\ Rn \in 0 .. Chunks
    BY <2>1, NextInBuffer
  <2>3. ~ eot /\ output = FilePrefix(Rn)
    BY <2>2 DEF FileOK
  <2>4. Len(output) = Rn
    BY <2>2, <2>3, PrefixLength
  <2>5. CASE Rn = Chunks
    <3>1. Contract!End
      BY <2>1, <2>2, <2>3, <2>4, <2>5 DEF Contract!End, WritePayload, Eot
    <3> QED
      BY <3>1 DEF Contract!Next
  <2>6. CASE Rn # Chunks
    <3>1. Contract!Deliver
      BY <2>1, <2>2, <2>3, <2>4, <2>6 DEF Contract!Deliver, WritePayload, Eot
    <3> QED
      BY <3>1 DEF Contract!Next
  <2> QED
    BY <2>5, <2>6
<1>2. CASE ~ Deliver
  <2>1. UNCHANGED <<output, eot>>
    BY <1>2 DEF Next, SenderNext, ReceiverNext, SendData, SendEot, SendNext, ReadReply,
                StopReading, PeerClosed, Timeout, IdleTimeout, Resend, DrainDone,
                SenderKernel, UnblockData, WriteFails, BrokenPipe, Receive, SendNak,
                DropCorrupted, Accept, SendAck, ReceiverKernel, UnblockAck, Harness, HangUp,
                TrialOver, vars, linkVars, file
  <2>2. spc = "done" => spc' = "done"
    BY DEF EndOK, Next, SenderNext, ReceiverNext, SendData, SendEot, SendNext, SenderAt,
           ReadReply, StopReading, PeerClosed, Timeout, IdleTimeout, Resend, DrainDone,
           SenderKernel, UnblockData, WriteFails, BrokenPipe, AboutToSend, InSelect,
           Readable, Receive, SendNak, DropCorrupted, Accept, Deliver, SendAck,
           ReceiverKernel, UnblockAck, Harness, HangUp, TrialOver, vars, linkVars
  <2>3. spc' = "done" => eot
    BY <2>1 DEF EndOK
  <2>4. CASE (spc' = "done") = (spc = "done")
    BY <2>1, <2>4 DEF Contract!vars
  <2>5. CASE spc' = "done" /\ spc # "done"
    <3>1. Contract!Report
      BY <2>1, <2>3, <2>5 DEF Contract!Report
    <3> QED
      BY <3>1 DEF Contract!Next
  <2> QED
    BY <2>2, <2>4, <2>5
<1> QED
  BY <1>1, <1>2

\* The transfer keeps the contract of sender_run and receiver_run.
THEOREM Refinement == ASSUME NoWrap PROVE Spec => ImplementsContract
<1>1. Init => Contract!Init
  BY DEF Init, LinkInit, Contract!Init
<1>2. IInv /\ IInv' /\ [Next]_vars => [Contract!Next]_(Contract!vars)
  BY ContractStep
<1> QED
  BY <1>1, <1>2, Invariance, PTL DEF Spec, ImplementsContract, Contract!Spec

-----------------------------------------------------------------------------
(* The two threads never block each other, if a socket buffer holds three  *)
(* windows and a few frames more.                                          *)

\* Everything on its way around the link, and everything that can be put there before
\* the sender returns to its loop: one resend decided on, one NAK, and an ACK and
\* another NAK for every frame that can be delivered.
Frames    == Len(data) + Held(dataWrite)
Replies   == Len(acks) + Held(ackWrite)
Owed      == IF rpc = "ack" THEN 2 ELSE 0
Credit    == IF nak_sent THEN 0 ELSE 1
Undelivered == 2 * (Sn - Rn)
Resending == IF spc \in {"nak", "timeout"} THEN 1 ELSE 0
InFlight  == Frames + Replies + Owed + Credit + Undelivered + Resending

\* The sender reads every reply that waits before it goes on; each frame it then sends
\* adds itself and two replies.
FlightOK ==
    /\ RoomOK
    /\ rpc = "ack" => ackWrite = Idle
    /\ ~ hungUp =>
          /\ InFlight <= Cap + 3 * Sw + 7
          /\ spc \in {"top", "timeout"} => InFlight <= Cap + 4 + 3 * (Sn - Sf)

\* What the steps below need to know of the types.
FlightTyped ==
    /\ data \in Seq(Frame \cup {Corrupt}) /\ acks \in Seq(Reply \cup {Corrupt})
    /\ Frames \in Nat /\ Replies \in Nat /\ Owed \in {0, 2} /\ Credit \in {0, 1}
    /\ Undelivered \in Nat /\ Resending \in {0, 1}

\* They follow from the invariant, in every state.
LEMMA FlightTypes == IInv => FlightTyped
<1> SUFFICES ASSUME IInv PROVE FlightTyped
  OBVIOUS
<1>1. data \in Seq(Frame \cup {Corrupt}) /\ acks \in Seq(Reply \cup {Corrupt})
  BY DEF IInv, TypeOK, LinkTypeOK
<1>2. Len(data) \in Nat /\ Len(acks) \in Nat
  BY <1>1
<1>3. Frames \in Nat /\ Replies \in Nat
  BY <1>2 DEF Frames, Replies, Held
<1>4. Undelivered \in Nat
  BY Counters DEF Undelivered
<1> QED
  BY <1>1, <1>3, <1>4 DEF FlightTyped, Owed, Credit, Resending

\* What a step adds is the sum of what it adds to the parts.
LEMMA FlightSum ==
    ASSUME FlightTyped, FlightTyped',
           NEW a \in Int, NEW b \in Int, NEW c \in Int, NEW d \in Int, NEW e \in Int,
           NEW f \in Int,
           Frames' <= Frames + a, Replies' <= Replies + b, Owed' <= Owed + c,
           Credit' <= Credit + d, Undelivered' <= Undelivered + e,
           Resending' <= Resending + f
    PROVE  InFlight' <= InFlight + (a + b + c + d + e + f)
<1> DEFINE u == Frames'
           v == Replies'
           w == Owed'
           x == Credit'
           y == Undelivered'
           z == Resending'
<1>1. /\ Frames \in Int /\ Replies \in Int /\ Owed \in Int /\ Credit \in Int
      /\ Undelivered \in Int /\ Resending \in Int
  BY DEF FlightTyped
<1>2. /\ u \in Int /\ v \in Int /\ w \in Int /\ x \in Int /\ y \in Int /\ z \in Int
  BY DEF FlightTyped
<1>3. /\ u <= Frames + a /\ v <= Replies + b /\ w <= Owed + c
      /\ x <= Credit + d /\ y <= Undelivered + e /\ z <= Resending + f
  OBVIOUS
<1>4. InFlight' = u + v + w + x + y + z
  BY DEF InFlight
<1> HIDE DEF u, v, w, x, y, z
<1>5. u + v + w + x + y + z
        <= (Frames + Replies + Owed + Credit + Undelivered + Resending)
             + (a + b + c + d + e + f)
  BY <1>1, <1>2, <1>3
<1> QED
  BY <1>4, <1>5 DEF InFlight

\* A step that adds nothing keeps the bounds, unless it starts to count on the stricter
\* one.
LEMMA FlightKept ==
    ASSUME FlightTyped, FlightTyped', IInv, FlightOK, InFlight' <= InFlight,
           hungUp => hungUp', RoomOK', rpc' = "ack" => ackWrite' = Idle,
           spc' \in {"top", "timeout"} =>
                spc \in {"top", "timeout"} /\ Sf' = Sf /\ Sn' = Sn
    PROVE  FlightOK'
<1>1. InFlight \in Int
  BY DEF FlightTyped, InFlight
<1>2. InFlight' \in Int
  <2>1. \A u, v, w, x, y, z \in Int : u + v + w + x + y + z \in Int
    OBVIOUS
  <2>2. /\ Frames' \in Int /\ Replies' \in Int /\ Owed' \in Int /\ Credit' \in Int
        /\ Undelivered' \in Int /\ Resending' \in Int
    BY DEF FlightTyped
  <2> QED
    BY <2>1, <2>2 DEF InFlight
<1>3. \A b \in Int : InFlight <= b => InFlight' <= b
  BY <1>1, <1>2
<1>4. Cap + 3 * Sw + 7 \in Int /\ Cap + 4 + 3 * (Sn - Sf) \in Int
  BY Counters, CapAssumption, SwAssumption
<1>5. ~ hungUp' => InFlight' <= Cap + 3 * Sw + 7
  BY <1>3, <1>4 DEF FlightOK
<1>6. ~ hungUp' /\ spc' \in {"top", "timeout"} => InFlight' <= Cap + 4 + 3 * (Sn' - Sf')
  BY <1>3, <1>4 DEF FlightOK
<1> QED
  BY <1>5, <1>6 DEF FlightOK

\* At most the end of transmission is outstanding beyond a window.
LEMMA OutstandingBounded ==
    ASSUME NoWrap, IInv, IInv', Sn - Sf <= Sw + 1, [Next]_vars
    PROVE  Sn' - Sf' <= Sw + 1
<1> USE SwAssumption
<1>1. Sf \in Nat /\ Sn \in Nat /\ Sw \in Nat
  BY Counters
<1>2. Sf' \in Nat /\ Sn' \in Nat
  BY SeqSpaceAssumption DEF IInv, TypeOK, SeqNo
<1>3. CASE SendData \/ SendEot
  <2>1. ~ eotSent /\ Sn \in 0 .. Chunks /\ Sn' = (Sn + 1) % SeqSpace /\ Sf' = Sf
    BY <1>3, ChunksAssumption DEF SendData, SendEot, SendNext, IInv, CountersOK, TypeOK
  <2>2. Sn' = Sn + 1
    BY <2>1, Increment
  <2>3. Sn - Sf <= Sw
    BY <2>1 DEF IInv, WindowOK
  <2> QED
    BY <2>1, <2>2, <2>3, <1>1
<1>4. CASE ReadReply
  <2>1. Sf' >= Sf /\ Sn' = Sn
    <3>1. acks # << >> /\ acks \in Seq(Reply \cup {Corrupt})
      BY <1>4 DEF ReadReply, IInv, TypeOK, LinkTypeOK
    <3>2. Head(acks) \in Reply \cup {Corrupt}
      BY <3>1, HeadAndTail
    <3> QED
      BY <1>4, <1>1, <3>2, SeqSpaceAssumption
         DEF ReadReply, ValidAck, Reply, SeqNo, progress, timers
  <2>2. \A f \in Nat : f >= Sf => Sn - f <= Sw + 1
    BY <1>1
  <2> QED
    BY <2>1, <2>2, <1>2
<1>5. CASE ~ (SendData \/ SendEot \/ ReadReply)
  <2>1. UNCHANGED <<Sn, Sf>>
    BY <1>5 DEF Next, SenderNext, ReceiverNext, StopReading, PeerClosed, Timeout,
                IdleTimeout, Resend, DrainDone, SenderKernel, Receive, SendNak,
                DropCorrupted, Accept, Deliver, SendAck, ReceiverKernel, Harness, vars,
                senderVars, progress
  <2> QED
    BY <2>1
<1> QED
  BY <1>3, <1>4, <1>5

\* A new frame adds itself and two replies to what is on its way; the window grows by one.
LEMMA FlightSendNext ==
    ASSUME NoWrap, IInv, FlightTyped, FlightTyped', FlightOK, Sn' - Sf' <= Sw + 1,
           SendData \/ SendEot
    PROVE  FlightOK'
<1> DEFINE f == [seq |-> Sn, payload |-> Sn]
<1> USE CapAssumption, SwAssumption
<1>1. Sn \in 0 .. Chunks /\ SendNext(Sn)
  BY ChunksAssumption DEF SendData, SendEot, IInv, CountersOK, TypeOK, MoreToSend, Eot
<1>2. /\ Sn' = Sn + 1 /\ spc = "top" /\ dataWrite = Idle
      /\ ChannelSendData(f)
      /\ UNCHANGED <<spc, Sf, rpc, Rn, nak_sent, acks, ackWrite, hungUp>>
  BY <1>1, Increment DEF SendNext, SenderAt, ackLink, receiverVars
<1>3. f \in Frame
  BY <1>1 DEF Frame, IInv, TypeOK, Payload
<1>4. /\ Len(data') <= Cap
      /\ Len(data') + Held(dataWrite') <= Len(data) + Held(dataWrite) + 1
  BY <1>2, <1>3, SendDataCount DEF FlightTyped, FlightOK, RoomOK
<1>5. Frames' <= Frames + 1
  BY <1>4 DEF Frames
<1>6. Sn \in Nat /\ Sf \in Nat /\ Rn \in Nat
  BY Counters
<1>7. Undelivered' <= Undelivered + 2
  BY <1>2, <1>6 DEF Undelivered
<1>8. /\ Replies' <= Replies + 0 /\ Owed' <= Owed + 0 /\ Credit' <= Credit + 0
      /\ Resending' <= Resending + 0
  BY <1>2 DEF FlightTyped, Replies, Owed, Credit, Resending
<1>9. InFlight' <= InFlight + (1 + 0 + 0 + 0 + 2 + 0)
  BY <1>5, <1>7, <1>8, FlightSum
<1>10. RoomOK'
  BY <1>2, <1>4 DEF FlightOK, RoomOK
<1>11. InFlight \in Int
  BY DEF FlightTyped, InFlight
<1>12. ~ hungUp' => InFlight <= Cap + 4 + 3 * (Sn - Sf)
  BY <1>2 DEF FlightOK
<1>13. InFlight' \in Int
  <2>1. \A u, v, w, x, y, z \in Int : u + v + w + x + y + z \in Int
    OBVIOUS
  <2>2. /\ Frames' \in Int /\ Replies' \in Int /\ Owed' \in Int /\ Credit' \in Int
        /\ Undelivered' \in Int /\ Resending' \in Int
    BY DEF FlightTyped
  <2> QED
    BY <2>1, <2>2 DEF InFlight
<1>14. ~ hungUp' => InFlight' <= Cap + 4 + 3 * (Sn' - Sf')
  BY <1>2, <1>6, <1>9, <1>11, <1>12, <1>13
<1>15. Cap + 4 + 3 * (Sn' - Sf') <= Cap + 3 * Sw + 7
  BY <1>2, <1>6
<1>16. ~ hungUp' => InFlight' <= Cap + 3 * Sw + 7
  BY <1>2, <1>6, <1>13, <1>14, <1>15
<1> QED
  BY <1>2, <1>10, <1>14, <1>16 DEF FlightOK

\* A NAK that is read becomes a resend, and a resend becomes a frame.
LEMMA FlightReply ==
    ASSUME IInv, FlightTyped, FlightTyped', FlightOK, ReadReply \/ Resend
    PROVE  FlightOK'
<1> USE CapAssumption
<1>1. CASE ReadReply
  <2>1. /\ acks # << >> /\ acks' = Tail(acks) /\ spc' \in {"nak", "reading"}
        /\ spc \in {"top", "reading"}
        /\ UNCHANGED <<Sn, rpc, Rn, nak_sent, data, dataWrite, ackWrite, hungUp>>
    BY <1>1 DEF ReadReply, InSelect, SenderAt, dataLink, progress, receiverVars
  <2>2. Len(acks) \in Nat /\ Len(acks') = Len(acks) - 1
    BY <2>1 DEF FlightTyped
  <2>3. Held(ackWrite) \in Nat /\ Held(ackWrite') = Held(ackWrite)
    BY <2>1 DEF Held
  <2>4. Replies' <= Replies + (-1)
    BY <2>2, <2>3 DEF Replies
  <2>5. /\ Frames' <= Frames + 0 /\ Owed' <= Owed + 0 /\ Credit' <= Credit + 0
        /\ Undelivered' <= Undelivered + 0
    BY <2>1 DEF FlightTyped, Frames, Owed, Credit, Undelivered
  <2>6. Resending' <= Resending + 1
    BY <2>1 DEF Resending
  <2>7. InFlight' <= InFlight + (0 + (-1) + 0 + 0 + 0 + 1)
    BY <2>4, <2>5, <2>6, FlightSum
  <2>8. InFlight' <= InFlight
    <3>1. InFlight \in Int
      BY DEF FlightTyped, InFlight
    <3>2. InFlight + (0 + (-1) + 0 + 0 + 0 + 1) = InFlight
      BY <3>1
    <3> QED
      BY <2>7, <3>2
  <2>9. RoomOK'
    BY <2>1, <2>2 DEF FlightOK, RoomOK
  <2> QED
    BY <2>1, <2>8, <2>9, FlightKept DEF FlightOK
<1>2. CASE Resend
  <2> DEFINE f == frame_store[i % Sw]
  <2>1. /\ ChannelSendData(f) /\ dataWrite = Idle
        /\ spc \in {"nak", "timeout"}
        /\ spc' = IF spc = "nak" THEN "reading" ELSE "top"
        /\ UNCHANGED <<Sf, Sn, rpc, Rn, nak_sent, acks, ackWrite, hungUp>>
    BY <1>2 DEF Resend, SenderAt, ackLink, progress, receiverVars
  <2>2. f \in Frame
    <3>1. i \in 0 .. Sn - 1
      BY <2>1, Counters DEF IInv, TimersOK
    <3> QED
      BY <3>1 DEF IInv, FramesOK, Copy
  <2>3. /\ Len(data') <= Cap
        /\ Len(data') + Held(dataWrite') <= Len(data) + Held(dataWrite) + 1
    BY <2>1, <2>2, SendDataCount DEF FlightTyped, FlightOK, RoomOK
  <2>4. Frames' <= Frames + 1
    BY <2>3 DEF Frames
  <2>5. /\ Replies' <= Replies + 0 /\ Owed' <= Owed + 0 /\ Credit' <= Credit + 0
        /\ Undelivered' <= Undelivered + 0
    BY <2>1 DEF FlightTyped, Replies, Owed, Credit, Undelivered
  <2>6. Resending' <= Resending + (-1)
    BY <2>1 DEF Resending
  <2>7. InFlight' <= InFlight + (1 + 0 + 0 + 0 + 0 + (-1))
    BY <2>4, <2>5, <2>6, FlightSum
  <2>8. InFlight' <= InFlight
    <3>1. InFlight \in Int
      BY DEF FlightTyped, InFlight
    <3>2. InFlight + (1 + 0 + 0 + 0 + 0 + (-1)) = InFlight
      BY <3>1
    <3> QED
      BY <2>7, <3>2
  <2>9. RoomOK'
    BY <2>1, <2>3 DEF FlightOK, RoomOK
  <2> QED
    BY <2>1, <2>8, <2>9, FlightKept DEF FlightOK
<1> QED
  BY <1>1, <1>2

\* The other steps of the sender and those of the kernel on its side.  Nothing waits to be
\* read when the sender goes back to its loop or gives up waiting.
LEMMA FlightSender ==
    ASSUME IInv, FlightTyped, FlightTyped', FlightOK, Sn - Sf <= Sw + 1, SenderNext,
           ~ (SendData \/ SendEot \/ ReadReply \/ Resend)
    PROVE  FlightOK'
<1> USE CapAssumption, SwAssumption
<1>1. CASE StopReading \/ Timeout
  <2>1. /\ dataWrite = Idle /\ acks = << >> /\ spc \in {"top", "reading"}
        /\ spc' \in {"top", "timeout"}
        /\ UNCHANGED <<Sf, Sn, rpc, Rn, nak_sent, data, dataWrite, acks, ackWrite, hungUp>>
    BY <1>1 DEF StopReading, Timeout, InSelect, SenderAt, NothingToRead, dataLink, ackLink,
                senderVars, progress, receiverVars
  <2>2. RoomOK'
    BY <2>1 DEF FlightOK, RoomOK
  <2>3. Frames <= Cap
    BY <2>1 DEF Frames, Held, FlightOK, RoomOK, FlightTyped
  <2>4. Replies + Owed <= 2
    BY <2>1 DEF Replies, Owed, Held, FlightOK
  <2>5. Undelivered <= 2 * (Sn - Sf)
    BY Counters DEF Undelivered
  <2>6. /\ Frames' = Frames /\ Replies' = Replies /\ Owed' = Owed /\ Credit' = Credit
        /\ Undelivered' = Undelivered
    BY <2>1 DEF Frames, Replies, Owed, Credit, Undelivered
  <2>7. InFlight' = Frames + Replies + Owed + Credit + Undelivered + Resending'
    BY <2>6 DEF InFlight
  <2>8. InFlight' <= Cap + 2 + 1 + 2 * (Sn - Sf) + 1
    <3> DEFINE w == 2 * (Sn - Sf)
               z == Resending'
    <3>1. Sn \in Nat /\ Sf \in Nat
      BY Counters
    <3>2. w \in Int /\ z \in Int /\ z <= 1
      BY <3>1 DEF FlightTyped
    <3>3. /\ Frames \in Int /\ Replies \in Int /\ Owed \in Int /\ Credit \in Int
          /\ Undelivered \in Int /\ Credit <= 1
      BY DEF FlightTyped
    <3>4. Undelivered <= w
      BY <2>5
    <3> HIDE DEF w, z
    <3>5. Frames + Replies + Owed + Credit + Undelivered + z <= Cap + 2 + 1 + w + 1
      BY <2>3, <2>4, <3>2, <3>3, <3>4
    <3> QED
      BY <2>7, <3>5 DEF w, z
  <2>9. InFlight' \in Int
    <3>1. \A z \in {0, 1} : Frames + Replies + Owed + Credit + Undelivered + z \in Int
      BY DEF FlightTyped
    <3> QED
      BY <3>1, <2>7 DEF FlightTyped
  <2>10. InFlight' <= Cap + 4 + 3 * (Sn - Sf) /\ InFlight' <= Cap + 3 * Sw + 7
    <3>1. Sn \in Nat /\ Sf \in Nat /\ Sf <= Sn
      BY Counters
    <3> QED
      BY <3>1, <2>8, <2>9
  <2> QED
    BY <2>1, <2>2, <2>10 DEF FlightOK
<1>2. CASE PeerClosed \/ DrainDone \/ IdleTimeout
  <2>1. /\ UNCHANGED <<Sf, Sn, rpc, Rn, nak_sent, data, dataWrite, acks, ackWrite, hungUp>>
        /\ spc' = spc \/ (spc' = "done" /\ spc \in {"top", "reading"})
    BY <1>2 DEF PeerClosed, DrainDone, IdleTimeout, Readable, InSelect, SenderAt, dataLink,
                ackLink, linkVars, vars, senderVars, progress, receiverVars
  <2>2. /\ Frames' <= Frames + 0 /\ Replies' <= Replies + 0 /\ Owed' <= Owed + 0
        /\ Credit' <= Credit + 0 /\ Undelivered' <= Undelivered + 0
    BY <2>1 DEF FlightTyped, Frames, Replies, Owed, Credit, Undelivered
  <2>3. Resending' <= Resending + 0
    BY <2>1 DEF Resending
  <2>4. InFlight' <= InFlight + (0 + 0 + 0 + 0 + 0 + 0)
    BY <2>2, <2>3, FlightSum
  <2>5. InFlight' <= InFlight
    <3>1. InFlight \in Int
      BY DEF FlightTyped, InFlight
    <3> QED
      BY <2>4, <3>1
  <2>6. RoomOK'
    BY <2>1 DEF FlightOK, RoomOK
  <2> QED
    BY <2>1, <2>5, <2>6, FlightKept DEF FlightOK
<1>3. CASE SenderKernel
  <2>1. /\ UnblockData \/ WriteFails \/ BrokenPipe(AboutToSend)
        /\ spc' \in {spc, "killed"}
        /\ UNCHANGED <<Sf, Sn, rpc, Rn, nak_sent, acks, ackWrite, hungUp>>
    BY <1>3 DEF SenderKernel, UnblockData, WriteFails, BrokenPipe, ackLink, senderVars,
                progress, receiverVars
  <2>2. /\ Len(data') <= Cap
        /\ Len(data') + Held(dataWrite') <= Len(data) + Held(dataWrite)
    BY <2>1, KernelDataCount DEF FlightTyped, FlightOK, RoomOK
  <2>3. Frames' <= Frames + 0
    BY <2>2 DEF FlightTyped, Frames
  <2>4. /\ Replies' <= Replies + 0 /\ Owed' <= Owed + 0 /\ Credit' <= Credit + 0
        /\ Undelivered' <= Undelivered + 0
    BY <2>1 DEF FlightTyped, Replies, Owed, Credit, Undelivered
  <2>5. Resending' <= Resending + 0
    BY <2>1 DEF Resending
  <2>6. InFlight' <= InFlight + (0 + 0 + 0 + 0 + 0 + 0)
    BY <2>3, <2>4, <2>5, FlightSum
  <2>7. InFlight' <= InFlight
    <3>1. InFlight \in Int
      BY DEF FlightTyped, InFlight
    <3> QED
      BY <2>6, <3>1
  <2>8. RoomOK'
    BY <2>1, <2>2 DEF FlightOK, RoomOK
  <2> QED
    BY <2>1, <2>7, <2>8, FlightKept DEF FlightOK
<1> QED
  BY <1>1, <1>2, <1>3 DEF SenderNext

\* A NAK uses up its credit.  A delivery gives up two replies of its own for the ACK that
\* is then owed, and for the NAK that the ACK allows.
LEMMA FlightReceiver ==
    ASSUME NoWrap, IInv, FlightTyped, FlightTyped', FlightOK, ReceiverNext
    PROVE  FlightOK'
<1> USE CapAssumption
<1>1. /\ UNCHANGED <<spc, Sf, Sn, hungUp>> /\ Resending' <= Resending + 0
  <2>1. UNCHANGED <<spc, Sf, Sn, hungUp>>
    BY DEF ReceiverNext, Receive, SendNak, DropCorrupted, Accept, Deliver, SendAck,
           ReceiverKernel, UnblockAck, senderVars, progress
  <2> QED
    BY <2>1 DEF FlightTyped, Resending
<1>2. InFlight \in Int
  BY DEF FlightTyped, InFlight
<1>3. CASE Receive
  <2>1. /\ rpc' = "check" /\ data # << >> /\ data' = Tail(data)
        /\ UNCHANGED <<Rn, nak_sent, dataWrite, acks, ackWrite>>
    BY <1>3 DEF Receive, ackLink
  <2>2. Len(data) \in Nat /\ Len(data') = Len(data) - 1
    BY <2>1 DEF FlightTyped
  <2>3. Held(dataWrite) \in Nat /\ Held(dataWrite') = Held(dataWrite)
    BY <2>1 DEF Held
  <2>4. Frames' <= Frames + 0
    BY <2>2, <2>3 DEF Frames
  <2>5. /\ Replies' <= Replies + 0 /\ Owed' <= Owed + 0 /\ Credit' <= Credit + 0
        /\ Undelivered' <= Undelivered + 0
    BY <1>1, <2>1 DEF FlightTyped, Replies, Owed, Credit, Undelivered
  <2>6. InFlight' <= InFlight
    BY <1>1, <1>2, <2>4, <2>5, FlightSum
  <2>7. RoomOK'
    BY <2>1, <2>2 DEF FlightOK, RoomOK
  <2> QED
    BY <1>1, <2>1, <2>6, <2>7, FlightKept
<1>4. CASE DropCorrupted \/ Accept
  <2>1. /\ rpc' # "ack" /\ UNCHANGED <<Rn, nak_sent, data, dataWrite, acks, ackWrite>>
    BY <1>4 DEF DropCorrupted, Accept, dataLink, ackLink
  <2>2. /\ Frames' <= Frames + 0 /\ Replies' <= Replies + 0 /\ Owed' <= Owed + 0
        /\ Credit' <= Credit + 0 /\ Undelivered' <= Undelivered + 0
    BY <1>1, <2>1 DEF FlightTyped, Frames, Replies, Owed, Credit, Undelivered
  <2>3. InFlight' <= InFlight
    BY <1>1, <1>2, <2>2, FlightSum
  <2>4. RoomOK'
    BY <2>1 DEF FlightOK, RoomOK
  <2> QED
    BY <1>1, <2>1, <2>3, <2>4, FlightKept
<1>5. CASE Deliver
  <2>1. /\ rpc' \in {"deliver", "ack"} /\ rpc = "deliver" /\ ackWrite = Idle
        /\ Rn' = (Rn + 1) % SeqSpace
        /\ UNCHANGED <<nak_sent, data, dataWrite, acks, ackWrite>>
    BY <1>5 DEF Deliver, ReceiverAt, dataLink, ackLink
  <2>2. Rn' = Rn + 1
    BY <2>1, NextInBuffer, Increment
  <2>3. Undelivered' <= Undelivered + (-2)
    BY <1>1, <2>2, Counters DEF Undelivered
  <2>4. /\ Frames' <= Frames + 0 /\ Replies' <= Replies + 0 /\ Credit' <= Credit + 0
    BY <2>1 DEF FlightTyped, Frames, Replies, Credit
  <2>5. Owed' <= Owed + 2
    BY <2>1 DEF Owed
  <2>6. InFlight' <= InFlight + (0 + 0 + 2 + 0 + (-2) + 0)
    BY <1>1, <2>3, <2>4, <2>5, FlightSum
  <2>7. InFlight' <= InFlight
    BY <1>2, <2>6
  <2>8. RoomOK'
    BY <2>1 DEF FlightOK, RoomOK
  <2> QED
    BY <1>1, <2>1, <2>7, <2>8, FlightKept
<1>6. CASE SendNak
  <2>1. /\ ChannelSendAck([type |-> "NAK", seq |-> Rn]) /\ ackWrite = Idle
        /\ rpc = "check" /\ ~ nak_sent /\ nak_sent'
        /\ UNCHANGED <<rpc, Rn, data, dataWrite>>
    BY <1>6 DEF SendNak, ReceiverAt, dataLink
  <2>2. [type |-> "NAK", seq |-> Rn] \in Reply
    BY DEF Reply, IInv, TypeOK
  <2>3. /\ Len(acks') <= Cap
        /\ Len(acks') + Held(ackWrite') <= Len(acks) + Held(ackWrite) + 1
    BY <2>1, <2>2, SendAckCount DEF FlightTyped, FlightOK, RoomOK
  <2>4. Replies' <= Replies + 1
    BY <2>3 DEF Replies
  <2>5. Credit' <= Credit + (-1)
    BY <2>1 DEF Credit
  <2>6. Frames' <= Frames + 0 /\ Owed' <= Owed + 0 /\ Undelivered' <= Undelivered + 0
    BY <1>1, <2>1 DEF FlightTyped, Frames, Owed, Undelivered
  <2>7. InFlight' <= InFlight + (0 + 1 + 0 + (-1) + 0 + 0)
    BY <1>1, <2>4, <2>5, <2>6, FlightSum
  <2>8. InFlight' <= InFlight
    BY <1>2, <2>7
  <2>9. RoomOK'
    BY <2>1, <2>3 DEF FlightOK, RoomOK
  <2> QED
    BY <1>1, <2>1, <2>8, <2>9, FlightKept
<1>7. CASE SendAck
  <2>1. /\ ChannelSendAck([type |-> "ACK", seq |-> Rn]) /\ ackWrite = Idle
        /\ rpc = "ack" /\ rpc' # "ack"
        /\ UNCHANGED <<Rn, data, dataWrite>>
    BY <1>7 DEF SendAck, NextExpected, ReceiverAt, dataLink
  <2>2. [type |-> "ACK", seq |-> Rn] \in Reply
    BY DEF Reply, IInv, TypeOK
  <2>3. /\ Len(acks') <= Cap
        /\ Len(acks') + Held(ackWrite') <= Len(acks) + Held(ackWrite) + 1
    BY <2>1, <2>2, SendAckCount DEF FlightTyped, FlightOK, RoomOK
  <2>4. Replies' <= Replies + 1
    BY <2>3 DEF Replies
  <2>5. Owed' <= Owed + (-2) /\ Credit' <= Credit + 1
    BY <2>1 DEF Owed, Credit
  <2>6. Frames' <= Frames + 0 /\ Undelivered' <= Undelivered + 0
    BY <1>1, <2>1 DEF FlightTyped, Frames, Undelivered
  <2>7. InFlight' <= InFlight + (0 + 1 + (-2) + 1 + 0 + 0)
    BY <1>1, <2>4, <2>5, <2>6, FlightSum
  <2>8. InFlight' <= InFlight
    BY <1>2, <2>7
  <2>9. RoomOK'
    BY <2>1, <2>3 DEF FlightOK, RoomOK
  <2> QED
    BY <1>1, <2>1, <2>8, <2>9, FlightKept
<1>8. CASE ReceiverKernel
  <2>1. /\ UnblockAck /\ ackWrite' = Idle
        /\ UNCHANGED <<rpc, Rn, nak_sent, data, dataWrite>>
    BY <1>8 DEF ReceiverKernel, UnblockAck, dataLink, receiverVars
  <2>2. /\ Len(acks') <= Cap
        /\ Len(acks') + Held(ackWrite') <= Len(acks) + Held(ackWrite)
    BY <2>1, KernelAckCount DEF FlightTyped, FlightOK, RoomOK
  <2>3. Replies' <= Replies + 0
    BY <2>2 DEF FlightTyped, Replies
  <2>4. /\ Frames' <= Frames + 0 /\ Owed' <= Owed + 0 /\ Credit' <= Credit + 0
        /\ Undelivered' <= Undelivered + 0
    BY <1>1, <2>1 DEF FlightTyped, Frames, Owed, Credit, Undelivered
  <2>5. InFlight' <= InFlight
    BY <1>1, <1>2, <2>3, <2>4, FlightSum
  <2>6. RoomOK'
    BY <2>1, <2>2 DEF FlightOK, RoomOK
  <2> QED
    BY <1>1, <2>1, <2>5, <2>6, FlightKept
<1> QED
  BY <1>3, <1>4, <1>5, <1>6, <1>7, <1>8 DEF ReceiverNext

\* The two threads are never both blocked in a write, if a socket buffer holds three
\* windows and six frames more.
THEOREM NoBlock == ASSUME NoWrap, Cap > 3 * Sw + 5 PROVE Spec => []NoMutualBlock
<1> DEFINE Bounded == Sn - Sf <= Sw + 1
<1> USE CapAssumption, SwAssumption
<1>1. Init => Bounded /\ FlightOK
  BY DEF Init, LinkInit, FlightOK, RoomOK, InFlight, Frames, Replies, Held, Owed, Credit,
         Undelivered, Resending
<1>2. IInv => FlightTyped
  BY FlightTypes
<1>3. IInv /\ IInv' /\ Bounded /\ [Next]_vars => Bounded'
  BY OutstandingBounded
<1>4. /\ IInv /\ FlightTyped /\ FlightTyped' /\ Bounded /\ Bounded' /\ FlightOK
      /\ [Next]_vars
      => FlightOK'
  <2> SUFFICES ASSUME IInv, FlightTyped, FlightTyped', Bounded, Bounded', FlightOK,
                      [Next]_vars
               PROVE  FlightOK'
    OBVIOUS
  <2>1. CASE UNCHANGED vars
    BY <2>1 DEF vars, linkVars, dataLink, ackLink, senderVars, progress, receiverVars,
                FlightOK, RoomOK, InFlight, Frames, Replies, Held, Owed, Credit, Undelivered,
                Resending
  <2>2. CASE Harness
    BY <2>2 DEF Harness, HangUp, TrialOver, ReceiverAt, linkVars, dataLink, ackLink, FlightOK,
                RoomOK
  <2> QED
    BY <2>1, <2>2, FlightSendNext, FlightReply, FlightSender, FlightReceiver DEF Next
<1>5. IInv /\ FlightTyped /\ FlightOK => NoMutualBlock
  <2> SUFFICES ASSUME IInv, FlightTyped, FlightOK PROVE NoMutualBlock
    OBVIOUS
  <2>1. Len(data) \in Nat /\ Len(acks) \in Nat
    BY DEF FlightTyped
  <2>2. OnTheLink = Frames + Replies
    <3>1. Held(dataWrite) \in Nat /\ Held(ackWrite) \in Nat
      BY DEF Held
    <3> QED
      BY <3>1, <2>1 DEF OnTheLink, Frames, Replies
  <2>3. InFlight <= Cap + 3 * Sw + 7 => OnTheLink <= 2 * Cap + 1
    BY <2>2 DEF InFlight, FlightTyped
  <2> QED
    BY <2>1, <2>3, FewFramesNoBlock DEF FlightOK
<1> QED
  BY <1>1, <1>2, <1>3, <1>4, <1>5, Invariance, PTL DEF Spec

=============================================================================
