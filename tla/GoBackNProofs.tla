---------------------------- MODULE GoBackNProofs ---------------------------
(***************************************************************************)
(* Safety of GoBackN for every file, window, buffer and number space, as   *)
(* long as the sequence numbers do not wrap around (NoWrap).               *)
(***************************************************************************)
EXTENDS GoBackN, ArqLinkProofs, TLAPS

\* A copy of one of the first n frames; payload k travels as frame number k.
Copy(f, n) == f \in Frame /\ f.seq = f.payload /\ f.seq < n

\* The counters of the sender agree, and the receiver is between Sf and Sn.
CountersOK ==
    /\ Sn = IF eotSent THEN Chunks + 1 ELSE offset
    /\ eotSent => offset = Chunks
    /\ WindowBracketsReceiver

\* What the receiver has written is told by Rn alone.
FileOK ==
    /\ eot <=> Rn = Chunks + 1
    /\ output = FilePrefix(IF eot THEN Chunks ELSE Rn)

\* Nothing but frames that were sent is in the store and on the link.
FramesOK ==
    /\ \A k \in 1 .. Len(data) : data[k] # Corrupt => Copy(data[k], Sn)
    /\ dataWrite \notin {Corrupt, Idle} => Copy(dataWrite, Sn)
    /\ \A k \in 0 .. Sn - 1 : Copy(frame_store[k % Sw], Sn)

\* No ACK is ahead of the receiver.
AcksOK ==
    /\ \A k \in 1 .. Len(acks) : acks[k] # Corrupt => acks[k] <= Rn
    /\ ackWrite \notin {Corrupt, Idle} => ackWrite <= Rn

\* Nobody ends before the end of transmission is accepted.
EndOK ==
    /\ rpc = "done" \/ hungUp \/ spc = "done" => eot
    /\ spc = "done" => dataWrite = Idle

\* The timer flags, and what the retransmission loop counts on.
TimersOK ==
    /\ TimerFollowsWindow
    /\ spc = "resend" => Sf < Sn

IInv ==
    /\ TypeOK /\ CountersOK /\ FileOK /\ FramesOK /\ AcksOK /\ EndOK /\ TimersOK

-----------------------------------------------------------------------------
(* The numbers of the code.                                                *)

\* Without wrap-around the increments of the code are those of the naturals, and
\* every slot number is a slot.
LEMMA Increment ==
    ASSUME NoWrap, NEW n \in 0 .. Chunks
    PROVE  (n + 1) % SeqSpace = n + 1 /\ n + 1 \in SeqNo
BY ChunksAssumption, SeqSpaceAssumption DEF NoWrap, SeqNo

\* A number has a slot in the store.
LEMMA SlotOf == ASSUME NEW k \in Nat PROVE k % Sw \in Slots
BY SwAssumption DEF Slots

-----------------------------------------------------------------------------
(* The steps of the sender.                                                *)

\* The two sends of new frames.
LEMMA SendNextStep ==
    ASSUME NoWrap, IInv, SendData \/ SendEot
    PROVE  IInv'
<1> DEFINE f == [seq |-> Sn, payload |-> Sn]
<1> USE ChunksAssumption DEF IInv
<1>1. /\ ~ eotSent /\ Sn = offset /\ Sn \in 0 .. Chunks
      /\ SendNext(Sn)
  BY DEF SendData, SendEot, CountersOK, TypeOK, MoreToSend, Eot
<1>2. /\ Sn' = Sn + 1 /\ Sn' \in SeqNo
      /\ SenderAt("top")
      /\ frame_store' = [frame_store EXCEPT ![Sn % Sw] = f]
      /\ ChannelSendData(f)
      /\ timer_running' = TRUE
      /\ window_timer' = (window_timer \/ ~ timer_running)
      /\ UNCHANGED <<spc, Sf, i, rpc, Rn, output, eot, acks, ackWrite, hungUp>>
  BY <1>1, Increment DEF SendNext, file, ackLink
<1>3. f \in Frame /\ f.seq = f.payload /\ f.seq < Sn'
  BY <1>1, <1>2 DEF Frame, TypeOK, Payload, SeqNo
<1>4. /\ data' \in Seq(Frame \cup {Corrupt})
      /\ dataWrite' \in Frame \cup {Corrupt, Idle}
      /\ \A k \in 1 .. Len(data') :
            \/ k \in 1 .. Len(data) /\ data'[k] = data[k]
            \/ data'[k] \in {f, Corrupt}
      /\ dataWrite' \in {dataWrite, f, Corrupt}
  BY <1>2, <1>3, SendDataEffect DEF TypeOK, LinkTypeOK
<1>5. offset' \in 0 .. Chunks /\ eotSent' \in BOOLEAN
  <2>1. CASE SendData
    BY <2>1, <1>1 DEF SendData, MoreToSend, TypeOK
  <2>2. CASE SendEot
    BY <2>2 DEF SendEot, TypeOK
  <2> QED
    BY <2>1, <2>2
<1>6. frame_store' \in [Slots -> Frame \cup {Unset}]
  BY <1>2, <1>3 DEF TypeOK
<1>7. TypeOK'
  <2>1. timer_running' \in BOOLEAN /\ window_timer' \in BOOLEAN
    BY <1>2 DEF TypeOK
  <2> QED
    BY <2>1, <1>2, <1>4, <1>5, <1>6 DEF TypeOK, LinkTypeOK
<1>8. CountersOK'
  <2>1. CASE SendData
    <3>1. offset' = Sn + 1 /\ ~ eotSent'
      BY <2>1, <1>1 DEF SendData
    <3> QED
      BY <3>1, <1>1, <1>2 DEF CountersOK, WindowBracketsReceiver, TypeOK, SeqNo
  <2>2. CASE SendEot
    <3>1. offset' = Chunks /\ eotSent' /\ Sn = Chunks
      BY <2>2, <1>1 DEF SendEot, MoreToSend
    <3> QED
      BY <3>1, <1>1, <1>2 DEF CountersOK, WindowBracketsReceiver, TypeOK, SeqNo
  <2> QED
    BY <2>1, <2>2
<1>9. FileOK'
  BY <1>2 DEF FileOK, FilePrefix
<1>10. FramesOK'
  <2>1. \A g : Copy(g, Sn) => Copy(g, Sn')
    BY <1>2 DEF Copy, TypeOK, SeqNo, Frame
  <2>2. Copy(f, Sn')
    BY <1>3 DEF Copy
  <2>3. ASSUME NEW k \in 0 .. Sn' - 1
        PROVE  Copy(frame_store'[k % Sw], Sn')
    <3>1. k % Sw \in Slots /\ Sn % Sw \in Slots
      BY SlotOf DEF TypeOK, SeqNo
    <3>2. CASE k % Sw = Sn % Sw
      BY <3>1, <3>2, <2>2, <1>2 DEF TypeOK
    <3>3. CASE k % Sw # Sn % Sw
      <4>1. k \in 0 .. Sn - 1
        BY <3>3, <1>2 DEF TypeOK, SeqNo
      <4>2. frame_store'[k % Sw] = frame_store[k % Sw]
        BY <3>1, <3>3, <1>2 DEF TypeOK
      <4> QED
        BY <4>1, <4>2, <2>1 DEF FramesOK
    <3> QED
      BY <3>2, <3>3
  <2>4. \A k \in 1 .. Len(data') : data'[k] # Corrupt => Copy(data'[k], Sn')
    BY <1>4, <2>1, <2>2 DEF FramesOK
  <2>5. dataWrite' \notin {Corrupt, Idle} => Copy(dataWrite', Sn')
    BY <1>4, <2>1, <2>2 DEF FramesOK
  <2> QED
    BY <2>3, <2>4, <2>5 DEF FramesOK
<1>11. AcksOK'
  BY <1>2 DEF AcksOK
<1>12. EndOK'
  BY <1>2 DEF EndOK, SenderAt
<1>13. TimersOK'
  <2>1. Sf' # Sn' /\ spc' # "resend"
    BY <1>1, <1>2 DEF CountersOK, WindowBracketsReceiver, TypeOK, SeqNo, SenderAt
  <2>2. timer_running' /\ (window_timer' <=> timer_running')
    BY <1>2 DEF TimersOK, TimerFollowsWindow
  <2> QED
    BY <2>1, <2>2 DEF TimersOK, TimerFollowsWindow
<1> QED
  BY <1>7, <1>8, <1>9, <1>10, <1>11, <1>12, <1>13

\* An ACK is read; it slides the window at most to Rn.
LEMMA ReadAckStep ==
    ASSUME NoWrap, IInv, ReadAck
    PROVE  IInv'
<1> DEFINE a == Head(acks)
<1> USE DEF IInv
<1>1. /\ SenderAt("top") \/ SenderAt("reading")
      /\ acks # << >> /\ acks' = Tail(acks) /\ spc' = "reading"
      /\ UNCHANGED <<Sn, offset, eotSent, frame_store, i, rpc, Rn, output, eot,
                     data, dataWrite, ackWrite, hungUp>>
  BY DEF ReadAck, InSelect, progress, file, dataLink
<1>2. acks \in Seq(SeqNo \cup {Corrupt})
  BY DEF TypeOK, LinkTypeOK
<1>3. /\ a \in SeqNo \cup {Corrupt} /\ a = acks[1] /\ 1 \in 1 .. Len(acks)
      /\ acks' \in Seq(SeqNo \cup {Corrupt})
      /\ \A k \in 1 .. Len(acks') : k + 1 \in 1 .. Len(acks) /\ acks'[k] = acks[k + 1]
  BY <1>1, <1>2, HeadAndTail
<1>4. SlidingAck(a) => a \in SeqNo /\ Sf < a /\ a <= Rn
  BY <1>3 DEF SlidingAck, AcksOK
<1>5. /\ Sf' \in SeqNo /\ Sf' <= Rn
      /\ timer_running' = (timer_running /\ Sf' # Sn)
      /\ window_timer' = (window_timer /\ Sf' # Sn)
  <2>1. CASE SlidingAck(a)
    BY <2>1, <1>1, <1>4 DEF ReadAck, FirstUnacked, WindowEmpty
  <2>2. CASE ~ SlidingAck(a)
    <3>1. UNCHANGED <<Sf, timer_running, window_timer>>
      BY <2>2 DEF ReadAck, timers
    <3>2. timer_running = (timer_running /\ Sf # Sn)
      BY DEF TimersOK, TimerFollowsWindow, TypeOK
    <3>3. window_timer = (window_timer /\ Sf # Sn)
      BY DEF TimersOK, TimerFollowsWindow, TypeOK
    <3>4. Sf \in SeqNo /\ Sf <= Rn
      BY DEF TypeOK, CountersOK, WindowBracketsReceiver
    <3> QED
      BY <3>1, <3>2, <3>3, <3>4
  <2> QED
    BY <2>1, <2>2
<1>6. TypeOK'
  <2>1. timer_running' \in BOOLEAN /\ window_timer' \in BOOLEAN
    BY <1>5
  <2> QED
    BY <2>1, <1>1, <1>3, <1>5 DEF TypeOK, LinkTypeOK
<1>7. CountersOK'
  BY <1>1, <1>5 DEF CountersOK, WindowBracketsReceiver
<1>8. FileOK'
  BY <1>1 DEF FileOK, FilePrefix
<1>9. FramesOK'
  BY <1>1 DEF FramesOK
<1>10. AcksOK'
  BY <1>1, <1>3 DEF AcksOK
<1>11. EndOK'
  BY <1>1 DEF EndOK, SenderAt
<1>12. TimersOK'
  <2>1. spc' # "resend" /\ Sn' = Sn
    BY <1>1
  <2>2. (timer_running <=> Sf # Sn) /\ (window_timer <=> timer_running)
    BY DEF TimersOK, TimerFollowsWindow
  <2>3. Sf' # Sn => Sf # Sn
    BY <1>4, <1>1 DEF ReadAck, FirstUnacked, TypeOK, CountersOK, WindowBracketsReceiver,
                      SeqNo
  <2> QED
    BY <2>1, <2>2, <2>3, <1>5 DEF TimersOK, TimerFollowsWindow
<1> QED
  BY <1>6, <1>7, <1>8, <1>9, <1>10, <1>11, <1>12

\* One frame of the window is sent again: a copy of a frame numbered before.
LEMMA ResendStep ==
    ASSUME NoWrap, IInv, Resend
    PROVE  IInv'
<1> DEFINE f == frame_store[i % Sw]
<1> USE DEF IInv
<1>1. /\ SenderAt("resend") /\ i < Sn /\ i' = i + 1
      /\ ChannelSendData(f)
      /\ UNCHANGED <<spc, Sf, Sn, offset, eotSent, frame_store, timer_running,
                     window_timer, rpc, Rn, output, eot, acks, ackWrite, hungUp>>
  BY DEF Resend, progress, timers, file, ackLink
<1>2. i \in 0 .. Sn - 1 /\ i' \in SeqNo
  BY <1>1, SeqSpaceAssumption DEF TypeOK, SeqNo
<1>3. Copy(f, Sn) /\ f \in Frame
  BY <1>2 DEF FramesOK, Copy
<1>4. /\ data' \in Seq(Frame \cup {Corrupt})
      /\ dataWrite' \in Frame \cup {Corrupt, Idle}
      /\ \A k \in 1 .. Len(data') :
            \/ k \in 1 .. Len(data) /\ data'[k] = data[k]
            \/ data'[k] \in {f, Corrupt}
      /\ dataWrite' \in {dataWrite, f, Corrupt}
  BY <1>1, <1>3, SendDataEffect DEF TypeOK, LinkTypeOK
<1>5. TypeOK'
  BY <1>1, <1>2, <1>4 DEF TypeOK, LinkTypeOK
<1>6. CountersOK' /\ FileOK' /\ AcksOK' /\ TimersOK'
  BY <1>1 DEF CountersOK, WindowBracketsReceiver, FileOK, FilePrefix, AcksOK,
              TimersOK, TimerFollowsWindow
<1>7. FramesOK'
  BY <1>1, <1>3, <1>4 DEF FramesOK
<1>8. EndOK'
  BY <1>1 DEF EndOK, SenderAt
<1> QED
  BY <1>5, <1>6, <1>7, <1>8

\* The steps of the sender that touch neither the link nor the window.
LEMMA SenderLocalStep ==
    ASSUME NoWrap, IInv,
           StopReading \/ PeerClosed \/ Timeout \/ ResendDone \/ DrainDone
    PROVE  IInv'
<1> USE DEF IInv
<1>1. /\ SenderAt("top") \/ SenderAt("reading") \/ SenderAt("resend")
      /\ UNCHANGED <<Sf, Sn, offset, eotSent, frame_store, timer_running, rpc, Rn,
                     output, eot, data, dataWrite, acks, ackWrite, hungUp>>
  BY DEF StopReading, PeerClosed, Timeout, ResendDone, DrainDone, senderVars, progress,
         timers, file, dataLink, ackLink, InSelect, Readable
<1>2. /\ spc' \in {"top", "resend", "done"}
      /\ i' \in SeqNo
      /\ window_timer' = window_timer \/ (window_timer' = TRUE /\ spc = "resend")
      /\ spc' = "resend" => Sf < Sn
      /\ spc' = "done" => eot
  <2>1. CASE StopReading
    BY <2>1 DEF StopReading, senderVars, timers, TypeOK
  <2>2. CASE PeerClosed
    BY <2>2 DEF PeerClosed, AtEof, EndOK, senderVars, timers, TypeOK
  <2>3. CASE Timeout
    <3>1. spc' = "resend" /\ i' = Sf /\ window_timer' = window_timer
      BY <2>3 DEF Timeout, ResendFrom, timers
    <3>2. Sf < Sn
      BY <2>3, SwAssumption DEF Timeout, InSelect, WindowFull, Outstanding, TypeOK, SeqNo
    <3> QED
      BY <3>1, <3>2 DEF TypeOK
  <2>4. CASE ResendDone
    BY <2>4, SeqSpaceAssumption DEF ResendDone, SenderAt, SeqNo
  <2>5. CASE DrainDone
    <3>1. spc' = "done" /\ eotSent /\ ~ (Sf < Sn) /\ UNCHANGED <<i, window_timer>>
      BY <2>5 DEF DrainDone, Outstanding, senderVars, timers
    <3>2. Rn = Chunks + 1
      BY <3>1, ChunksAssumption DEF CountersOK, WindowBracketsReceiver, TypeOK, SeqNo
    <3> QED
      BY <3>1, <3>2 DEF FileOK, TypeOK
  <2> QED
    BY <2>1, <2>2, <2>3, <2>4, <2>5
<1>3. TypeOK'
  <2>1. window_timer' \in BOOLEAN
    BY <1>2 DEF TypeOK
  <2> QED
    BY <2>1, <1>1, <1>2 DEF TypeOK, LinkTypeOK
<1>4. CountersOK' /\ FileOK' /\ FramesOK' /\ AcksOK'
  BY <1>1 DEF CountersOK, WindowBracketsReceiver, FileOK, FilePrefix, FramesOK, AcksOK
<1>5. EndOK'
  BY <1>1, <1>2 DEF EndOK, SenderAt
<1>6. TimersOK'
  <2>1. window_timer' <=> timer_running
    <3>1. spc = "resend" => Sf # Sn
      BY DEF TimersOK, TypeOK, SeqNo
    <3> QED
      BY <3>1, <1>2 DEF TimersOK, TimerFollowsWindow
  <2> QED
    BY <2>1, <1>1, <1>2 DEF TimersOK, TimerFollowsWindow
<1> QED
  BY <1>3, <1>4, <1>5, <1>6

\* The kernel finishes or fails the sender's blocked write.
LEMMA SenderKernelStep ==
    ASSUME NoWrap, IInv, SenderKernel
    PROVE  IInv'
<1> USE DEF IInv
<1>1. /\ dataWrite' \in {dataWrite, Idle}
      /\ spc' \in {spc, "killed"}
      /\ \/ data' = data
         \/ dataWrite \notin {Corrupt, Idle} /\ data' = Append(data, dataWrite)
         \/ dataWrite = Corrupt /\ data' = Append(data, Corrupt)
      /\ UNCHANGED <<Sf, Sn, offset, eotSent, frame_store, i, timer_running, window_timer,
                     rpc, Rn, output, eot, acks, ackWrite, hungUp>>
  BY DEF SenderKernel, UnblockData, WriteFails, BrokenPipe, senderVars, progress,
         timers, file, ackLink
<1>2. /\ data \in Seq(Frame \cup {Corrupt})
      /\ dataWrite \notin {Corrupt, Idle} => dataWrite \in Frame
  BY DEF TypeOK, LinkTypeOK
<1>3. data' \in Seq(Frame \cup {Corrupt})
  BY <1>1, <1>2
<1>4. TypeOK'
  BY <1>1, <1>3 DEF TypeOK, LinkTypeOK
<1>5. CountersOK' /\ FileOK' /\ AcksOK' /\ TimersOK'
  BY <1>1 DEF CountersOK, WindowBracketsReceiver, FileOK, FilePrefix, AcksOK,
              TimersOK, TimerFollowsWindow
<1>6. FramesOK'
  <2>1. \A k \in 1 .. Len(data') : data'[k] # Corrupt => Copy(data'[k], Sn)
    BY <1>1, <1>2 DEF FramesOK
  <2> QED
    BY <2>1, <1>1 DEF FramesOK
<1>7. EndOK'
  BY <1>1 DEF EndOK
<1> QED
  BY <1>4, <1>5, <1>6, <1>7

-----------------------------------------------------------------------------
(* The steps of the receiver, of the kernel on its side and of the harness. *)

\* The receiver reads a frame.  The one it expects is the next chunk, or the end of
\* transmission after the last.
LEMMA ReceiveStep ==
    ASSUME NoWrap, IInv, Receive
    PROVE  IInv'
<1> DEFINE f == Head(data)
<1> USE ChunksAssumption DEF IInv
<1>1. /\ ReceiverAt("recv")
      /\ data # << >> /\ data' = Tail(data) /\ rpc' = "ack"
      /\ UNCHANGED <<Sf, Sn, offset, eotSent, frame_store, i, timer_running, window_timer,
                     spc, dataWrite, acks, ackWrite, hungUp>>
  BY DEF Receive, senderVars, progress, timers, ackLink
<1>2. data \in Seq(Frame \cup {Corrupt})
  BY DEF TypeOK, LinkTypeOK
<1>3. /\ f \in Frame \cup {Corrupt} /\ f = data[1] /\ 1 \in 1 .. Len(data)
      /\ data' \in Seq(Frame \cup {Corrupt})
      /\ \A k \in 1 .. Len(data') : k + 1 \in 1 .. Len(data) /\ data'[k] = data[k + 1]
  BY <1>1, <1>2, HeadAndTail
<1>4. Sn \in 0 .. Chunks + 1
  BY DEF CountersOK, TypeOK
<1>5. Expected(f) => f.payload = Rn /\ Rn < Sn /\ Rn \in 0 .. Chunks
  BY <1>3, <1>4 DEF Expected, FramesOK, Copy, TypeOK, SeqNo
<1>6. CASE ~ Expected(f)
  <2>1. UNCHANGED <<output, eot, Rn>>
    BY <1>6 DEF Receive, file
  <2>2. TypeOK'
    BY <2>1, <1>1, <1>3 DEF TypeOK, LinkTypeOK
  <2>3. CountersOK' /\ FileOK' /\ AcksOK' /\ TimersOK' /\ EndOK'
    BY <2>1, <1>1 DEF CountersOK, WindowBracketsReceiver, FileOK, FilePrefix, AcksOK,
                      TimersOK, TimerFollowsWindow, EndOK
  <2>4. FramesOK'
    BY <1>1, <1>3 DEF FramesOK
  <2> QED
    BY <2>2, <2>3, <2>4
<1>7. CASE Expected(f)
  <2>1. /\ WritePayload(Rn) /\ Rn' = Rn + 1 /\ Rn' \in SeqNo
        /\ Rn < Sn /\ Rn \in 0 .. Chunks
    BY <1>5, <1>7, Increment DEF Receive
  <2>2. ~ eot
    BY <2>1 DEF FileOK
  <2>3. output = FilePrefix(Rn)
    BY <2>2 DEF FileOK
  <2>4. /\ eot' \in BOOLEAN /\ (eot' <=> Rn = Chunks)
        /\ output' = FilePrefix(IF Rn = Chunks THEN Chunks ELSE Rn + 1)
    <3>1. CASE Rn = Chunks
      BY <3>1, <2>1, <2>3 DEF WritePayload, Eot
    <3>2. CASE Rn # Chunks
      <4>1. output' = Append(output, Rn) /\ eot' = eot
        BY <3>2, <2>1 DEF WritePayload, Eot
      <4>2. Append(FilePrefix(Rn), Rn) = FilePrefix(Rn + 1)
        BY <2>1, PrefixGrows
      <4> QED
        BY <4>1, <4>2, <3>2, <2>1, <2>2, <2>3 DEF TypeOK, LinkTypeOK
    <3> QED
      BY <3>1, <3>2
  <2>5. output' \in Seq(Payload)
    <3>1. output \in Seq(Payload) /\ Rn \in Payload
      BY <2>1 DEF Payload, TypeOK, LinkTypeOK
    <3> QED
      BY <2>1, <3>1 DEF WritePayload
  <2>6. TypeOK'
    BY <2>1, <2>4, <2>5, <1>1, <1>3 DEF TypeOK, LinkTypeOK
  <2>7. CountersOK'
    BY <2>1, <1>1, <1>4 DEF CountersOK, WindowBracketsReceiver, TypeOK, SeqNo
  <2>8. FileOK'
    BY <2>1, <2>4 DEF FileOK
  <2>9. FramesOK'
    BY <1>1, <1>3 DEF FramesOK
  <2>10. AcksOK'
    <3>1. /\ acks \in Seq(SeqNo \cup {Corrupt}) /\ ackWrite \in SeqNo \cup {Corrupt, Idle}
          /\ UNCHANGED <<acks, ackWrite>>
      BY <1>1 DEF TypeOK, LinkTypeOK
    <3> QED
      BY <2>1, <3>1 DEF AcksOK, SeqNo
  <2>11. EndOK'
    BY <2>2, <1>1 DEF EndOK
  <2>12. TimersOK'
    BY <1>1 DEF TimersOK, TimerFollowsWindow
  <2> QED
    BY <2>6, <2>7, <2>8, <2>9, <2>10, <2>11, <2>12
<1> QED
  BY <1>6, <1>7

\* The cumulative ACK carries Rn.
LEMMA SendAckStep ==
    ASSUME NoWrap, IInv, SendAck
    PROVE  IInv'
<1> USE DEF IInv
<1>1. /\ ChannelSendAck(Rn)
      /\ rpc' = IF eot THEN "done" ELSE "recv"
      /\ UNCHANGED <<Sf, Sn, offset, eotSent, frame_store, i, timer_running, window_timer,
                     spc, Rn, output, eot, data, dataWrite, hungUp>>
  BY DEF SendAck, senderVars, progress, timers, file, dataLink
<1>2. /\ acks' \in Seq(SeqNo \cup {Corrupt})
      /\ ackWrite' \in SeqNo \cup {Corrupt, Idle}
      /\ \A k \in 1 .. Len(acks') :
            \/ k \in 1 .. Len(acks) /\ acks'[k] = acks[k]
            \/ acks'[k] \in {Rn, Corrupt}
      /\ ackWrite' \in {ackWrite, Rn, Corrupt}
  BY <1>1, SendAckEffect DEF TypeOK, LinkTypeOK
<1>3. rpc' \in {"recv", "done"} /\ (rpc' = "done" => eot)
  BY <1>1 DEF TypeOK, LinkTypeOK
<1>4. TypeOK'
  BY <1>1, <1>2, <1>3 DEF TypeOK, LinkTypeOK
<1>5. CountersOK' /\ FileOK' /\ FramesOK' /\ TimersOK'
  BY <1>1 DEF CountersOK, WindowBracketsReceiver, FileOK, FilePrefix, FramesOK,
              TimersOK, TimerFollowsWindow
<1>6. AcksOK'
  <2>1. Rn' = Rn /\ Rn <= Rn
    BY <1>1 DEF TypeOK, SeqNo
  <2>2. \A k \in 1 .. Len(acks') : acks'[k] # Corrupt => acks'[k] <= Rn
    BY <1>2, <2>1 DEF AcksOK
  <2>3. ackWrite' \notin {Corrupt, Idle} => ackWrite' <= Rn
    BY <1>2, <2>1 DEF AcksOK
  <2> QED
    BY <2>1, <2>2, <2>3 DEF AcksOK
<1>7. EndOK'
  BY <1>1, <1>3 DEF EndOK
<1> QED
  BY <1>4, <1>5, <1>6, <1>7

\* The kernel finishes the receiver's blocked write.
LEMMA ReceiverKernelStep ==
    ASSUME NoWrap, IInv, ReceiverKernel
    PROVE  IInv'
<1> USE DEF IInv
<1>1. /\ ackWrite # Idle /\ ackWrite' = Idle
      /\ acks' = Append(acks, ackWrite)
      /\ UNCHANGED <<Sf, Sn, offset, eotSent, frame_store, i, timer_running, window_timer,
                     spc, rpc, Rn, output, eot, data, dataWrite, hungUp>>
  BY DEF ReceiverKernel, UnblockAck, senderVars, progress, timers, file, dataLink
<1>2. acks \in Seq(SeqNo \cup {Corrupt}) /\ ackWrite \in SeqNo \cup {Corrupt}
  BY <1>1 DEF TypeOK, LinkTypeOK
<1>3. acks' \in Seq(SeqNo \cup {Corrupt})
  BY <1>1, <1>2
<1>4. TypeOK'
  BY <1>1, <1>3 DEF TypeOK, LinkTypeOK
<1>5. CountersOK' /\ FileOK' /\ FramesOK' /\ EndOK' /\ TimersOK'
  BY <1>1 DEF CountersOK, WindowBracketsReceiver, FileOK, FilePrefix, FramesOK, EndOK,
              TimersOK, TimerFollowsWindow
<1>6. AcksOK'
  <2>1. \A k \in 1 .. Len(acks') : acks'[k] # Corrupt => acks'[k] <= Rn
    BY <1>1, <1>2 DEF AcksOK
  <2> QED
    BY <2>1, <1>1 DEF AcksOK
<1> QED
  BY <1>4, <1>5, <1>6

\* The harness hangs up after the receiver is done.
LEMMA HarnessStep ==
    ASSUME NoWrap, IInv, Harness
    PROVE  IInv'
<1> USE DEF IInv
<1>1. /\ UNCHANGED <<Sf, Sn, offset, eotSent, frame_store, i, timer_running, window_timer,
                     spc, rpc, Rn, output, eot, dataWrite, acks, ackWrite>>
      /\ \/ data' = data /\ hungUp' = hungUp
         \/ data' = << >> /\ hungUp' = TRUE /\ rpc = "done"
  BY DEF Harness, HangUp, TrialOver, ReceiverAt, senderVars, progress, timers, linkVars,
         file, dataLink, ackLink
<1>2. TypeOK'
  <2>1. data' \in Seq(Frame \cup {Corrupt}) /\ hungUp' \in BOOLEAN
    BY <1>1, EmptyQueue DEF TypeOK, LinkTypeOK
  <2> QED
    BY <2>1, <1>1 DEF TypeOK, LinkTypeOK
<1>3. CountersOK' /\ FileOK' /\ AcksOK' /\ EndOK' /\ TimersOK'
  BY <1>1 DEF CountersOK, WindowBracketsReceiver, FileOK, FilePrefix, AcksOK, EndOK,
              TimersOK, TimerFollowsWindow
<1>4. FramesOK'
  BY <1>1 DEF FramesOK
<1> QED
  BY <1>2, <1>3, <1>4

-----------------------------------------------------------------------------
(* The inductive invariant.                                                *)

\* The initial states satisfy it ...
LEMMA InitInv == Init => IInv
<1> SUFFICES ASSUME Init PROVE IInv
  OBVIOUS
<1> USE ChunksAssumption, SeqSpaceAssumption DEF Init, LinkInit
<1>1. TypeOK
  <2>1. 0 \in SeqNo
    BY DEF SeqNo
  <2>2. LinkTypeOK(Frame, SeqNo)
    BY EmptyQueue DEF LinkTypeOK
  <2>3. frame_store \in [Slots -> Frame \cup {Unset}]
    OBVIOUS
  <2>4. offset \in 0 .. Chunks /\ spc = "top" /\ rpc = "recv"
    OBVIOUS
  <2>5. eotSent \in BOOLEAN /\ timer_running \in BOOLEAN /\ window_timer \in BOOLEAN
    OBVIOUS
  <2>6. Sf \in SeqNo /\ Sn \in SeqNo /\ Rn \in SeqNo /\ i \in SeqNo
    BY <2>1
  <2> QED
    BY <2>2, <2>3, <2>4, <2>5, <2>6 DEF TypeOK
<1>2. CountersOK /\ AcksOK /\ EndOK
  BY DEF CountersOK, WindowBracketsReceiver, AcksOK, EndOK
<1>3. FileOK
  BY DEF FileOK, FilePrefix
<1>4. FramesOK
  BY DEF FramesOK
<1>5. TimersOK
  BY DEF TimersOK, TimerFollowsWindow
<1> QED
  BY <1>1, <1>2, <1>3, <1>4, <1>5 DEF IInv

\* ... and every step preserves it.
LEMMA NextInv == ASSUME NoWrap, IInv, [Next]_vars PROVE IInv'
<1>1. CASE SenderNext
  BY <1>1, SendNextStep, ReadAckStep, ResendStep, SenderLocalStep, SenderKernelStep
     DEF SenderNext
<1>2. CASE ReceiverNext
  BY <1>2, ReceiveStep, SendAckStep, ReceiverKernelStep DEF ReceiverNext
<1>3. CASE Harness
  BY <1>3, HarnessStep
<1>4. CASE UNCHANGED vars
  BY <1>4 DEF vars, senderVars, progress, timers, linkVars, file, dataLink, ackLink,
              IInv, TypeOK, LinkTypeOK, CountersOK, WindowBracketsReceiver, FileOK,
              FilePrefix, FramesOK, AcksOK, EndOK, TimersOK, TimerFollowsWindow
<1> QED
  BY <1>1, <1>2, <1>3, <1>4 DEF Next

\* IInv holds in every reachable state.
THEOREM Invariance == ASSUME NoWrap PROVE Spec => []IInv
<1>1. Init => IInv
  BY InitInv
<1>2. IInv /\ [Next]_vars => IInv'
  BY NextInv
<1> QED
  BY <1>1, <1>2, PTL DEF Spec

-----------------------------------------------------------------------------
(* What follows from it.                                                   *)

\* The locals, the file and the queues keep their types: no sequence number leaves
\* its range and no retransmission reads a slot that was never written.
THEOREM TypeCorrect == ASSUME NoWrap PROVE Spec => []TypeOK
<1>1. IInv => TypeOK
  BY DEF IInv
<1> QED
  BY <1>1, Invariance, PTL

\* The window never slides past a frame that receiver_gbn_mode has not accepted.
THEOREM WindowSafe == ASSUME NoWrap PROVE Spec => []WindowBracketsReceiver
<1>1. IInv => WindowBracketsReceiver
  BY DEF IInv, CountersOK
<1> QED
  BY <1>1, Invariance, PTL

\* The file receiver_gbn_mode writes is a prefix of the file that was sent, and the
\* whole of it at the end of transmission.
THEOREM FileSafe == ASSUME NoWrap PROVE Spec => []OutputIsPrefix
<1>1. IInv => OutputIsPrefix
  <2> SUFFICES ASSUME IInv PROVE OutputIsPrefix
    OBVIOUS
  <2> DEFINE n == IF eot THEN Chunks ELSE Rn
  <2>1. n \in Nat /\ output = FilePrefix(n) /\ (eot => n = Chunks)
    BY ChunksAssumption DEF IInv, FileOK, TypeOK, SeqNo
  <2>2. Len(output) = n
    BY <2>1 DEF FilePrefix
  <2> QED
    BY <2>1, <2>2 DEF OutputIsPrefix
<1> QED
  BY <1>1, Invariance, PTL

\* sender_gbn_mode returns only after the receiver accepted the end of transmission.
THEOREM CompletionSafe == ASSUME NoWrap PROVE Spec => []CompleteMeansDelivered
<1>1. IInv => CompleteMeansDelivered
  BY DEF IInv, EndOK, CompleteMeansDelivered
<1> QED
  BY <1>1, Invariance, PTL

\* timer_running and the window timer are set exactly while frames are outstanding.
THEOREM TimerSafe == ASSUME NoWrap PROVE Spec => []TimerFollowsWindow
<1>1. IInv => TimerFollowsWindow
  BY DEF IInv, TimersOK
<1> QED
  BY <1>1, Invariance, PTL

-----------------------------------------------------------------------------
(* The store of the sender in its main loop.                               *)

\* The window holds, and slot k % Sw holds frame number k, while the test of the
\* window guards the sends.
StoreOK ==
    ~ eotSent => Sn - Sf <= Sw /\ ResendsTheWindow

\* Every step preserves it: the window only opens, and a send overwrites a slot that
\* no outstanding frame has.
LEMMA StoreStep ==
    ASSUME NoWrap, IInv, IInv', StoreOK, [Next]_vars
    PROVE  StoreOK'
<1> SUFFICES ASSUME ~ eotSent' PROVE (Sn - Sf <= Sw /\ ResendsTheWindow)'
  BY DEF StoreOK
<1> USE DEF IInv
<1>1. /\ Sf \in Nat /\ Sn \in Nat /\ Sf' \in Nat
      /\ Sf <= Sn
  BY SeqSpaceAssumption DEF TypeOK, SeqNo, CountersOK, WindowBracketsReceiver
<1>2. CASE SendData
  <2> DEFINE f == [seq |-> Sn, payload |-> Sn]
  <2>1. /\ ~ eotSent /\ Sn = offset /\ Sn \in 0 .. Chunks /\ Sn - Sf < Sw
        /\ Sf' = Sf
        /\ frame_store' = [frame_store EXCEPT ![Sn % Sw] = f]
    BY <1>1, <1>2, SwAssumption, ChunksAssumption
       DEF SendData, SendNext, WindowFull, MoreToSend, CountersOK, TypeOK
  <2>2. Sn' = Sn + 1
    BY <2>1, <1>2, Increment DEF SendData, SendNext
  <2>3. ASSUME NEW k \in Sf .. Sn
        PROVE  frame_store'[k % Sw] = [seq |-> k, payload |-> k]
    <3>1. k % Sw \in Slots /\ Sn % Sw \in Slots
      BY <1>1, SlotOf
    <3>2. CASE k = Sn
      BY <3>1, <3>2, <2>1 DEF TypeOK
    <3>3. CASE k # Sn
      <4>1. k % Sw # Sn % Sw
        <5>1. k \in Nat /\ k < Sn /\ Sn - k < Sw
          BY <3>3, <2>1, <1>1, SwAssumption
        <5> QED
          BY <5>1, <1>1, SwAssumption, DistinctResidues
      <4>2. frame_store[k % Sw] = [seq |-> k, payload |-> k]
        BY <3>3, <2>1, <1>1 DEF StoreOK, ResendsTheWindow
      <4> QED
        BY <3>1, <4>1, <4>2, <2>1 DEF TypeOK
    <3> QED
      BY <3>2, <3>3
  <2> QED
    BY <2>1, <2>2, <2>3, <1>1, SwAssumption DEF ResendsTheWindow
<1>3. CASE SendEot
  BY <1>3 DEF SendEot
<1>4. CASE ReadAck
  <2>1. Sf' >= Sf
    <3>1. acks # << >> /\ acks \in Seq(SeqNo \cup {Corrupt})
      BY <1>4 DEF ReadAck, TypeOK, LinkTypeOK
    <3>2. Head(acks) \in SeqNo \cup {Corrupt}
      BY <3>1, HeadAndTail
    <3> QED
      BY <1>4, <1>1, <3>2 DEF ReadAck, SlidingAck, FirstUnacked, SeqNo
  <2>2. eotSent' = eotSent /\ Sn' = Sn /\ frame_store' = frame_store
    BY <1>4 DEF ReadAck, progress
  <2>3. Sn - Sf <= Sw /\ ResendsTheWindow
    BY <2>2 DEF StoreOK
  <2>4. Sn' - Sf' <= Sw
    <3>1. \A f \in Nat : f >= Sf => Sn - f <= Sw
      BY <2>3, <1>1, SwAssumption
    <3>2. Sn - Sf' <= Sw
      BY <3>1, <2>1, <1>1
    <3> QED
      BY <2>2, <3>2
  <2>5. ASSUME NEW k \in Sf' .. Sn' - 1 PROVE k \in Sf .. Sn - 1
    BY <2>1, <2>2, <1>1
  <2> QED
    BY <2>2, <2>3, <2>4, <2>5 DEF ResendsTheWindow
<1>5. ASSUME UNCHANGED <<eotSent, Sn, Sf, frame_store>> PROVE (Sn - Sf <= Sw /\ ResendsTheWindow)'
  BY <1>5 DEF StoreOK, ResendsTheWindow
<1>6. CASE ~ (SendData \/ SendEot \/ ReadAck)
  <2>1. UNCHANGED <<eotSent, Sn, Sf, frame_store>>
    BY <1>6 DEF Next, SenderNext, ReceiverNext, StopReading, PeerClosed, Timeout, Resend,
                ResendDone, DrainDone, SenderKernel, Receive, SendAck, ReceiverKernel,
                Harness, vars, senderVars, progress
  <2> QED
    BY <2>1, <1>5
<1> QED
  BY <1>2, <1>3, <1>4, <1>6

\* In the main loop a timeout resends the very frames of the window.
THEOREM StoreSafe == ASSUME NoWrap PROVE Spec => []MainLoopKeepsWindow
<1>1. Init => StoreOK
  BY SwAssumption DEF Init, StoreOK, ResendsTheWindow
<1>2. IInv /\ IInv' /\ StoreOK /\ [Next]_vars => StoreOK'
  BY StoreStep
<1>3. StoreOK => MainLoopKeepsWindow
  BY DEF StoreOK, MainLoopKeepsWindow
<1> QED
  BY <1>1, <1>2, <1>3, Invariance, PTL DEF Spec

-----------------------------------------------------------------------------
(* The two threads never block each other, if a socket buffer holds more   *)
(* than a window.                                                          *)

\* Everything on its way around the link: frames, ACKs, and the ACK that the receiver
\* is about to send.
Owed == IF rpc = "ack" THEN 1 ELSE 0
InFlight == OnTheLink + Owed

\* The sender reads every ACK that waits before it sends again, so that there is at
\* most one frame more on the way than one full direction and the window hold.
FlightOK ==
    /\ RoomOK
    /\ rpc = "ack" => ackWrite = Idle
    /\ spc = "resend" => i \in Sf .. Sn
    /\ ~ hungUp =>
          /\ InFlight <= Cap + Sw + 2
          /\ spc = "top" => InFlight <= Cap + 1 + (Sn - Sf)
          /\ spc = "resend" => InFlight <= Cap + 1 + (i - Sf)

\* At most the end of transmission is outstanding beyond a window.
LEMMA OutstandingBounded ==
    ASSUME NoWrap, IInv, StoreOK', IInv', Sn - Sf <= Sw + 1, [Next]_vars,
           StoreOK
    PROVE  Sn' - Sf' <= Sw + 1
<1> USE SwAssumption
<1>1. /\ Sf \in Nat /\ Sn \in Nat /\ Sf' \in Nat /\ Sn' \in Nat /\ Sw \in Nat
  BY SeqSpaceAssumption DEF IInv, TypeOK, SeqNo
<1>2. CASE SendData
  <2>1. ~ eotSent'
    BY <1>2 DEF SendData, IInv, CountersOK, TypeOK, MoreToSend
  <2>2. Sn' - Sf' <= Sw
    BY <2>1 DEF StoreOK
  <2>3. \A n \in Int : n <= Sw => n <= Sw + 1
    BY <1>1
  <2>4. Sn' - Sf' \in Int
    BY <1>1
  <2> QED
    BY <2>2, <2>3, <2>4
<1>3. CASE SendEot
  <2>1. Sf' = Sf /\ ~ eotSent /\ Sn' = (Sn + 1) % SeqSpace
    BY <1>3 DEF SendEot, SendNext
  <2>2. Sn' = Sn + 1
    BY <2>1, <1>3, Increment DEF IInv, CountersOK, TypeOK
  <2> QED
    BY <2>1, <2>2, <1>1 DEF StoreOK
<1>4. CASE ReadAck
  <2>1. Sf' >= Sf /\ Sn' = Sn
    <3>1. acks # << >> /\ acks \in Seq(SeqNo \cup {Corrupt})
      BY <1>4 DEF ReadAck, IInv, TypeOK, LinkTypeOK
    <3>2. Head(acks) \in SeqNo \cup {Corrupt}
      BY <3>1, HeadAndTail
    <3> QED
      BY <1>4, <1>1, <3>2 DEF ReadAck, SlidingAck, FirstUnacked, SeqNo, progress
  <2>2. \A f \in Nat : f >= Sf => Sn - f <= Sw + 1
    BY <1>1
  <2>3. Sn - Sf' <= Sw + 1
    BY <2>1, <2>2, <1>1
  <2> QED
    BY <2>1, <2>3
<1>5. CASE ~ (SendData \/ SendEot \/ ReadAck)
  <2>1. UNCHANGED <<Sn, Sf>>
    BY <1>5 DEF Next, SenderNext, ReceiverNext, StopReading, PeerClosed, Timeout, Resend,
                ResendDone, DrainDone, SenderKernel, Receive, SendAck, ReceiverKernel,
                Harness, vars, senderVars, progress
  <2> QED
    BY <2>1
<1> QED
  BY <1>2, <1>3, <1>4, <1>5

\* What the steps below need to know of the types.
FlightTyped ==
    /\ data \in Seq(Frame \cup {Corrupt}) /\ acks \in Seq(SeqNo \cup {Corrupt})
    /\ Len(data) \in Nat /\ Len(acks) \in Nat
    /\ Len(data') \in Nat /\ Len(acks') \in Nat
    /\ Len(data) <= Cap /\ Len(acks) <= Cap
    /\ Sf \in Nat /\ Sn \in Nat /\ i \in Nat /\ Rn \in SeqNo /\ Sf <= Sn
    /\ Held(Idle) = 0 /\ Held(dataWrite) \in {0, 1} /\ Held(ackWrite) \in {0, 1}
    /\ Held(dataWrite') \in {0, 1} /\ Held(ackWrite') \in {0, 1}
    /\ OnTheLink \in Nat /\ OnTheLink' \in Nat
    /\ InFlight \in Nat /\ InFlight' \in Nat
    /\ (rpc = "ack" => Owed = 1) /\ (rpc # "ack" => Owed = 0)
    /\ (rpc' = "ack" => Owed' = 1) /\ (rpc' # "ack" => Owed' = 0)

\* The numbers under way are sequence numbers.
LEMMA FlightTypes ==
    ASSUME NoWrap, IInv, FlightOK, [Next]_vars
    PROVE  FlightTyped
<1>1. /\ data \in Seq(Frame \cup {Corrupt}) /\ acks \in Seq(SeqNo \cup {Corrupt})
      /\ Rn \in SeqNo
  BY DEF IInv, TypeOK, LinkTypeOK
<1>2. Len(data) <= Cap /\ Len(acks) <= Cap
  BY DEF FlightOK, RoomOK
<1>3. Len(data') \in Nat /\ Len(acks') \in Nat
  BY NextInv DEF IInv, TypeOK, LinkTypeOK
<1>4. Sf \in Nat /\ Sn \in Nat /\ i \in Nat /\ Rn \in SeqNo /\ Sf <= Sn
  BY SeqSpaceAssumption DEF IInv, TypeOK, CountersOK, WindowBracketsReceiver, SeqNo
<1>5. /\ Held(Idle) = 0 /\ Held(dataWrite) \in {0, 1} /\ Held(ackWrite) \in {0, 1}
      /\ Held(dataWrite') \in {0, 1} /\ Held(ackWrite') \in {0, 1}
  BY DEF Held
<1>6. OnTheLink \in Nat /\ OnTheLink' \in Nat
  BY <1>1, <1>3, <1>5 DEF OnTheLink
<1>7. /\ InFlight \in Nat /\ InFlight' \in Nat
      /\ (rpc = "ack" => Owed = 1) /\ (rpc # "ack" => Owed = 0)
      /\ (rpc' = "ack" => Owed' = 1) /\ (rpc' # "ack" => Owed' = 0)
  <2>1. Owed \in Nat /\ Owed' \in Nat
    BY DEF Owed
  <2>2. /\ (rpc = "ack" => Owed = 1) /\ (rpc # "ack" => Owed = 0)
        /\ (rpc' = "ack" => Owed' = 1) /\ (rpc' # "ack" => Owed' = 0)
    BY DEF Owed
  <2>3. InFlight = OnTheLink + Owed /\ InFlight' = OnTheLink' + Owed'
    BY DEF InFlight
  <2> QED
    <3>1. InFlight \in Nat
      BY <2>1, <2>3, <1>6
    <3>2. InFlight' \in Nat
      <4>1. OnTheLink' \in Nat
        BY <1>6
      <4>2. Owed' \in Nat
        BY <2>1
      <4>3. InFlight' = OnTheLink' + Owed'
        BY <2>3
      <4>4. \A a, b \in Nat : a + b \in Nat
        OBVIOUS
      <4> QED
        BY <4>1, <4>2, <4>3, <4>4
    <3>3. rpc = "ack" => Owed = 1
      BY <2>2
    <3> QED
      BY <3>1, <3>2, <2>2
<1>8. Len(data) \in Nat /\ Len(acks) \in Nat
  BY <1>1
<1> QED
  BY <1>1, <1>2, <1>3, <1>4, <1>5, <1>6, <1>7, <1>8 DEF FlightTyped

\* A frame more on its way.
LEMMA FlightGrows ==
    ASSUME FlightTyped, UNCHANGED <<rpc, acks, ackWrite>>,
           Len(data') + Held(dataWrite') <= Len(data) + Held(dataWrite) + 1
    PROVE  InFlight' <= InFlight + 1
<1>1. Owed' = Owed
  BY DEF Owed
<1>2. /\ Len(data) \in Nat /\ Len(acks) \in Nat /\ Len(data') \in Nat
      /\ Held(dataWrite) \in Nat /\ Held(dataWrite') \in Nat /\ Held(ackWrite) \in Nat
  BY DEF FlightTyped
<1>3. Owed \in Nat
  BY DEF Owed
<1>4. \A a, b, c, d, e, f, g \in Nat :
        a + b <= c + d + 1 => (a + b + e + f) + g <= ((c + d + e + f) + g) + 1
  OBVIOUS
<1>5. /\ InFlight = (Len(data) + Held(dataWrite) + Len(acks) + Held(ackWrite)) + Owed
      /\ InFlight' = (Len(data') + Held(dataWrite') + Len(acks) + Held(ackWrite)) + Owed
  BY <1>1 DEF InFlight, OnTheLink
<1> QED
  BY <1>2, <1>3, <1>4, <1>5

\* A new frame: the window grows with it.
LEMMA FlightSendNext ==
    ASSUME NoWrap, IInv, FlightOK, Sn - Sf <= Sw + 1, Sn' - Sf' <= Sw + 1,
           SendData \/ SendEot
    PROVE  FlightOK'
<1> DEFINE f == [seq |-> Sn, payload |-> Sn]
<1> USE CapAssumption, SwAssumption
<1>1. /\ Sn \in 0 .. Chunks /\ SendNext(Sn)
  BY ChunksAssumption DEF SendData, SendEot, IInv, CountersOK, TypeOK, MoreToSend, Eot
<1>2. /\ Sn' = Sn + 1 /\ spc = "top" /\ dataWrite = Idle
      /\ ChannelSendData(f)
      /\ UNCHANGED <<spc, Sf, rpc, acks, ackWrite, hungUp>>
  BY <1>1, Increment DEF SendNext, SenderAt, ackLink
<1>3. f \in Frame
  BY <1>1 DEF Frame, IInv, TypeOK, Payload
<1>4. FlightTyped
  BY FlightTypes DEF Next, SenderNext
<1>5. /\ Len(data') <= Cap
      /\ Len(data') + Held(dataWrite') <= Len(data) + Held(dataWrite) + 1
  BY <1>2, <1>3, <1>4, SendDataCount DEF FlightTyped
<1>6. InFlight' <= InFlight + 1
  BY <1>2, <1>4, <1>5, FlightGrows
<1>7. RoomOK'
  BY <1>2, <1>5 DEF FlightOK, RoomOK
<1>8. /\ InFlight <= Cap + 1 + (Sn - Sf) => InFlight' <= Cap + 1 + (Sn' - Sf')
      /\ InFlight' <= Cap + 1 + (Sn' - Sf') => InFlight' <= Cap + Sw + 2
  BY <1>2, <1>4, <1>6 DEF FlightTyped
<1> QED
  BY <1>2, <1>7, <1>8 DEF FlightOK

\* The other steps of the sender.
LEMMA FlightSender ==
    ASSUME NoWrap, IInv, FlightOK, Sn - Sf <= Sw + 1, SenderNext, ~ (SendData \/ SendEot)
    PROVE  FlightOK'
<1> USE CapAssumption, SwAssumption
<1>1. FlightTyped
  BY FlightTypes DEF Next
<1>2. CASE ReadAck
  <2>1. /\ acks # << >> /\ acks' = Tail(acks) /\ spc' = "reading"
        /\ spc \in {"top", "reading"}
        /\ UNCHANGED <<rpc, data, dataWrite, ackWrite, hungUp>>
    BY <1>2 DEF ReadAck, InSelect, SenderAt, dataLink
  <2>2. Len(acks') = Len(acks) - 1
    BY <2>1, <1>1 DEF FlightTyped
  <2>3. InFlight <= Cap + Sw + 2 => InFlight' <= Cap + Sw + 2
    BY <2>1, <2>2, <1>1 DEF FlightTyped, InFlight, OnTheLink
  <2>4. RoomOK'
    BY <2>1, <2>2, <1>1 DEF FlightTyped, RoomOK
  <2> QED
    BY <2>1, <2>3, <2>4 DEF FlightOK
<1>3. CASE StopReading \/ Timeout
  <2>1. /\ dataWrite = Idle /\ acks = << >>
        /\ spc' = "top" \/ (spc' = "resend" /\ i' = Sf)
        /\ UNCHANGED <<Sf, Sn, rpc, data, dataWrite, acks, ackWrite, hungUp>>
    BY <1>3 DEF StopReading, Timeout, InSelect, SenderAt, NothingToRead, dataLink, ackLink,
                senderVars, progress, ResendFrom
  <2>2. Owed + Held(ackWrite) <= 1
    BY <1>1 DEF FlightOK, FlightTyped
  <2>3. InFlight' <= Cap + 1
    BY <2>1, <2>2, <1>1 DEF FlightTyped, InFlight, OnTheLink
  <2>4. InFlight' <= Cap + 1 + (Sn' - Sf') /\ InFlight' <= Cap + Sw + 2
    BY <2>1, <2>3, <1>1 DEF FlightTyped
  <2>5. i' = Sf => i' \in Sf' .. Sn' /\ Cap + 1 + (i' - Sf') = Cap + 1
    BY <2>1, <1>1 DEF FlightTyped
  <2>6. RoomOK'
    BY <2>1 DEF FlightOK, RoomOK
  <2> QED
    BY <2>1, <2>3, <2>4, <2>5, <2>6 DEF FlightOK
<1>4. CASE PeerClosed
  BY <1>4 DEF FlightOK, PeerClosed, AtEof, ackLink, dataLink, RoomOK
<1>5. CASE Resend
  <2> DEFINE f == frame_store[i % Sw]
  <2>1. /\ ChannelSendData(f) /\ spc = "resend" /\ dataWrite = Idle /\ i < Sn /\ i' = i + 1
        /\ UNCHANGED <<spc, Sf, Sn, rpc, acks, ackWrite, hungUp>>
    BY <1>5 DEF Resend, SenderAt, ackLink, progress
  <2>2. f \in Frame
    <3>1. i \in 0 .. Sn - 1
      BY <2>1, <1>1 DEF FlightTyped
    <3> QED
      BY <3>1 DEF IInv, FramesOK, Copy
  <2>3. /\ Len(data') <= Cap
        /\ Len(data') + Held(dataWrite') <= Len(data) + Held(dataWrite) + 1
    BY <2>1, <2>2, <1>1, SendDataCount DEF FlightTyped
  <2>4. InFlight' <= InFlight + 1
    BY <2>1, <2>3, <1>1, FlightGrows
  <2>5. RoomOK'
    BY <2>1, <2>3 DEF FlightOK, RoomOK
  <2>6. i' \in Sf' .. Sn'
    BY <2>1, <1>1 DEF FlightOK, FlightTyped
  <2>7. /\ InFlight <= Cap + 1 + (i - Sf) => InFlight' <= Cap + 1 + (i' - Sf')
        /\ InFlight' <= Cap + 1 + (i' - Sf') => InFlight' <= Cap + Sw + 2
    BY <2>1, <2>4, <2>6, <1>1 DEF FlightTyped
  <2> QED
    BY <2>1, <2>5, <2>6, <2>7 DEF FlightOK
<1>6. CASE ResendDone
  <2>1. /\ spc = "resend" /\ spc' = "top" /\ ~ (i < Sn)
        /\ UNCHANGED <<Sf, Sn, rpc, data, dataWrite, acks, ackWrite, hungUp>>
    BY <1>6 DEF ResendDone, SenderAt, dataLink, ackLink, progress
  <2>2. i = Sn
    BY <2>1, <1>1 DEF FlightOK, FlightTyped
  <2>3. InFlight' = InFlight /\ RoomOK'
    BY <2>1 DEF FlightOK, InFlight, OnTheLink, Held, Owed, RoomOK
  <2> QED
    BY <2>1, <2>2, <2>3 DEF FlightOK
<1>7. CASE DrainDone
  <2>1. /\ spc' = "done"
        /\ UNCHANGED <<rpc, data, dataWrite, acks, ackWrite, hungUp>>
    BY <1>7 DEF DrainDone, dataLink, ackLink
  <2>2. InFlight' = InFlight /\ RoomOK'
    BY <2>1 DEF FlightOK, InFlight, OnTheLink, Held, Owed, RoomOK
  <2> QED
    BY <2>1, <2>2 DEF FlightOK
<1>8. CASE SenderKernel
  <2>1. /\ UnblockData \/ WriteFails \/ BrokenPipe(AboutToSend)
        /\ spc' \in {spc, "killed"}
        /\ UNCHANGED <<Sf, Sn, i, rpc, acks, ackWrite, hungUp>>
    BY <1>8 DEF SenderKernel, UnblockData, WriteFails, BrokenPipe, ackLink, senderVars,
                progress
  <2>2. /\ Len(data') <= Cap
        /\ Len(data') + Held(dataWrite') <= Len(data) + Held(dataWrite)
    BY <2>1, <1>1, KernelDataCount DEF FlightTyped
  <2>3. InFlight' <= InFlight
    BY <2>1, <2>2, <1>1 DEF FlightTyped, InFlight, OnTheLink
  <2>4. RoomOK'
    BY <2>1, <2>2 DEF FlightOK, RoomOK
  <2>5. \A b \in Int : InFlight <= b => InFlight' <= b
    BY <2>3, <1>1 DEF FlightTyped
  <2>6. Cap + Sw + 2 \in Int /\ Cap + 1 + (Sn - Sf) \in Int /\ Cap + 1 + (i - Sf) \in Int
    BY <1>1 DEF FlightTyped
  <2> QED
    BY <2>1, <2>4, <2>5, <2>6 DEF FlightOK
<1> QED
  BY <1>2, <1>3, <1>4, <1>5, <1>6, <1>7, <1>8 DEF SenderNext

\* The receiver, the kernel on its side and the harness add nothing.
LEMMA FlightReceiver ==
    ASSUME NoWrap, IInv, FlightOK, ReceiverNext \/ Harness
    PROVE  FlightOK'
<1> USE CapAssumption, SwAssumption
<1>1. FlightTyped
  BY FlightTypes DEF Next
<1>2. /\ UNCHANGED <<spc, Sf, Sn, i>>
      /\ UNCHANGED hungUp \/ hungUp'
  BY DEF ReceiverNext, Receive, SendAck, ReceiverKernel, UnblockAck, Harness, HangUp,
         TrialOver, linkVars, senderVars, progress
<1>3. /\ RoomOK' /\ (rpc' = "ack" => ackWrite' = Idle)
      /\ ~ hungUp' => InFlight' <= InFlight
  <2>1. CASE Receive
    <3>1. /\ rpc = "recv" /\ rpc' = "ack" /\ ackWrite = Idle
          /\ data # << >> /\ data' = Tail(data)
          /\ UNCHANGED <<dataWrite, acks, ackWrite>>
      BY <2>1 DEF Receive, ReceiverAt, ackLink
    <3>2. Len(data') = Len(data) - 1
      BY <3>1, <1>1 DEF FlightTyped
    <3>3. InFlight' <= InFlight
      BY <3>1, <3>2, <1>1 DEF FlightTyped, InFlight, OnTheLink
    <3>4. RoomOK'
      BY <3>1, <3>2, <1>1 DEF FlightTyped, RoomOK
    <3> QED
      BY <3>1, <3>3, <3>4
  <2>2. CASE SendAck
    <3>1. /\ ChannelSendAck(Rn) /\ ackWrite = Idle
          /\ rpc = "ack" /\ rpc' # "ack"
          /\ UNCHANGED <<data, dataWrite>>
      BY <2>2 DEF SendAck, ReceiverAt, dataLink
    <3>2. /\ Len(acks') <= Cap
          /\ Len(acks') + Held(ackWrite') <= Len(acks) + Held(ackWrite) + 1
      BY <3>1, <1>1, SendAckCount DEF FlightTyped
    <3>3. InFlight' <= InFlight
      BY <3>1, <3>2, <1>1 DEF FlightTyped, InFlight, OnTheLink
    <3>4. RoomOK'
      BY <3>1, <3>2 DEF FlightOK, RoomOK
    <3> QED
      BY <3>1, <3>3, <3>4
  <2>3. CASE ReceiverKernel
    <3>1. /\ UnblockAck /\ ackWrite' = Idle
          /\ UNCHANGED <<rpc, data, dataWrite>>
      BY <2>3 DEF ReceiverKernel, UnblockAck, dataLink
    <3>2. /\ Len(acks') <= Cap
          /\ Len(acks') + Held(ackWrite') <= Len(acks) + Held(ackWrite)
      BY <3>1, <1>1, KernelAckCount DEF FlightTyped
    <3>3. InFlight' <= InFlight
      BY <3>1, <3>2, <1>1 DEF FlightTyped, InFlight, OnTheLink
    <3>4. RoomOK'
      BY <3>1, <3>2 DEF FlightOK, RoomOK
    <3> QED
      BY <3>1, <3>3, <3>4
  <2>4. CASE Harness
    <3>1. /\ UNCHANGED <<rpc, acks, ackWrite>> /\ hungUp'
          /\ data' = data \/ data' = << >>
      BY <2>4 DEF Harness, HangUp, TrialOver, linkVars, ackLink, dataLink
    <3>2. RoomOK'
      BY <3>1, <1>1 DEF FlightTyped, RoomOK
    <3> QED
      BY <3>1, <3>2 DEF FlightOK
  <2> QED
    BY <2>1, <2>2, <2>3, <2>4 DEF ReceiverNext
<1>4. \A b \in Int : ~ hungUp' /\ InFlight <= b => InFlight' <= b
  <2> SUFFICES ASSUME NEW b \in Int, ~ hungUp', InFlight <= b PROVE InFlight' <= b
    OBVIOUS
  <2>1. InFlight' <= InFlight
    BY <1>3
  <2> QED
    BY <2>1, <1>1 DEF FlightTyped
<1>5. Cap + Sw + 2 \in Int /\ Cap + 1 + (Sn - Sf) \in Int /\ Cap + 1 + (i - Sf) \in Int
  BY <1>1 DEF FlightTyped
<1> QED
  BY <1>2, <1>3, <1>4, <1>5 DEF FlightOK

\* The two threads are never both blocked in a write, if a socket buffer holds a window
\* and one frame more.
THEOREM NoBlock == ASSUME NoWrap, Cap > Sw PROVE Spec => []NoMutualBlock
<1> DEFINE Bounded == Sn - Sf <= Sw + 1
<1> USE CapAssumption, SwAssumption
<1>1. Init => StoreOK /\ Bounded /\ FlightOK
  BY DEF Init, LinkInit, StoreOK, ResendsTheWindow, FlightOK, RoomOK, InFlight, OnTheLink,
         Held, Owed
<1>2. IInv /\ IInv' /\ StoreOK /\ [Next]_vars => StoreOK'
  BY StoreStep
<1>3. IInv /\ IInv' /\ StoreOK /\ StoreOK' /\ Bounded /\ [Next]_vars => Bounded'
  BY OutstandingBounded
<1>4. IInv /\ Bounded /\ Bounded' /\ FlightOK /\ [Next]_vars => FlightOK'
  <2> SUFFICES ASSUME IInv, Bounded, Bounded', FlightOK, [Next]_vars PROVE FlightOK'
    OBVIOUS
  <2>1. CASE UNCHANGED vars
    BY <2>1 DEF vars, linkVars, dataLink, ackLink, senderVars, progress, FlightOK, RoomOK,
                InFlight, OnTheLink, Held, Owed
  <2> QED
    BY <2>1, FlightSendNext, FlightSender, FlightReceiver DEF Next
<1>5. IInv /\ FlightOK => NoMutualBlock
  <2> SUFFICES ASSUME IInv, FlightOK PROVE NoMutualBlock
    OBVIOUS
  <2>1. Len(data) \in Nat /\ Len(acks) \in Nat
    BY DEF IInv, TypeOK, LinkTypeOK
  <2>2. OnTheLink \in Nat
    <3>1. Held(dataWrite) \in Nat /\ Held(ackWrite) \in Nat
      BY DEF Held
    <3> QED
      BY <2>1, <3>1 DEF OnTheLink
  <2>3. InFlight <= Cap + Sw + 2 => OnTheLink <= 2 * Cap + 1
    <3>1. Owed \in Nat
      BY DEF Owed
    <3> QED
      BY <3>1, <2>2 DEF InFlight
  <2>4. ~ hungUp => OnTheLink <= 2 * Cap + 1
    BY <2>3 DEF FlightOK
  <2> QED
    BY <2>1, <2>4, FewFramesNoBlock
<1> QED
  BY <1>1, <1>2, <1>3, <1>4, <1>5, Invariance, PTL DEF Spec

-----------------------------------------------------------------------------
(* GoBackN implements ReliableTransfer.                                    *)

\* Every step delivers the next chunk, ends the transfer, reports it, or stutters.
LEMMA ContractStep ==
    ASSUME NoWrap, IInv, IInv', [Next]_vars
    PROVE  [Contract!Next]_(Contract!vars)
<1> USE ChunksAssumption DEF IInv
<1>1. CASE Receive /\ Expected(Head(data))
  <2>1. /\ WritePayload(Head(data).payload) /\ spc' = spc
    BY <1>1 DEF Receive
  <2>2. Head(data).payload = Rn /\ Rn \in 0 .. Chunks
    <3>1. data # << >> /\ data \in Seq(Frame \cup {Corrupt})
      BY <1>1 DEF Receive, TypeOK, LinkTypeOK
    <3>2. Head(data) = data[1] /\ 1 \in 1 .. Len(data)
      BY <3>1, HeadAndTail
    <3>3. Copy(Head(data), Sn) /\ Head(data).seq = Rn
      BY <1>1, <3>2 DEF Expected, FramesOK
    <3> QED
      BY <3>3 DEF Copy, Frame, Payload
  <2>3. ~ eot /\ output = FilePrefix(Rn)
    BY <2>2 DEF FileOK
  <2>4. Len(output) = Rn
    BY <2>2, <2>3 DEF FilePrefix
  <2>5. CASE Rn = Chunks
    <3>1. Contract!End
      BY <2>1, <2>2, <2>3, <2>4, <2>5 DEF Contract!End, WritePayload, Eot
    <3> QED
      BY <3>1 DEF Contract!Next
  <2>6. CASE Rn # Chunks
    <3>1. Contract!Deliver
      BY <2>1, <2>2, <2>3, <2>4, <2>6 DEF Contract!Deliver, WritePayload, Eot
    <3> QED
      BY <3>1 DEF Contract!Next
  <2> QED
    BY <2>5, <2>6
<1>2. CASE ~ (Receive /\ Expected(Head(data)))
  <2>1. UNCHANGED <<output, eot>>
    BY <1>2 DEF Next, SenderNext, ReceiverNext, SendData, SendEot, SendNext, ReadAck,
                StopReading, PeerClosed, Timeout, Resend, ResendDone, DrainDone,
                SenderKernel, UnblockData, WriteFails, BrokenPipe, Receive, SendAck,
                ReceiverKernel, UnblockAck, Harness, HangUp, TrialOver, vars, linkVars, file
  <2>2. spc = "done" => spc' = "done"
    BY DEF EndOK, Next, SenderNext, ReceiverNext, SendData, SendEot, SendNext, SenderAt,
           ReadAck, StopReading, PeerClosed, Timeout, Resend, ResendDone, DrainDone,
           SenderKernel, UnblockData, WriteFails, BrokenPipe, AboutToSend, InSelect,
           Readable, Receive, SendAck, ReceiverKernel, UnblockAck, Harness, HangUp,
           TrialOver, vars, linkVars
  <2>3. spc' = "done" => eot
    BY <2>1 DEF EndOK
  <2>4. CASE (spc' = "done") = (spc = "done")
    BY <2>1, <2>4 DEF Contract!vars
  <2>5. CASE spc' = "done" /\ spc # "done"
    <3>1. Contract!Report
      BY <2>1, <2>3, <2>5 DEF Contract!Report
    <3> QED
      BY <3>1 DEF Contract!Next
  <2> QED
    BY <2>2, <2>4, <2>5
<1> QED
  BY <1>1, <1>2

\* The transfer keeps the contract of sender_run and receiver_run.
THEOREM Refinement == ASSUME NoWrap PROVE Spec => ImplementsContract
<1>1. Init => Contract!Init
  BY DEF Init, LinkInit, Contract!Init
<1>2. IInv /\ IInv' /\ [Next]_vars => [Contract!Next]_(Contract!vars)
  BY ContractStep
<1> QED
  BY <1>1, <1>2, Invariance, PTL DEF Spec, ImplementsContract, Contract!Spec

=============================================================================
