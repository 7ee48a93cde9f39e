-------------------------- MODULE StopAndWaitProofs -------------------------
(***************************************************************************)
(* Safety of StopAndWait for every file and every size of the socket       *)
(* buffers, and that its two threads never block each other.               *)
(***************************************************************************)
EXTENDS StopAndWait, ArqLinkProofs, TLAPS

\* The output file holds what was accepted, and the bits tell how far the two
\* parties are apart.
FileOK == OutputIsPrefix /\ InStep /\ Len(output) <= Chunks

\* The receiver has accepted the current frame; it is the sender who is behind.
SenderBehind == Rn # Sn

\* The frames on the link are copies of the current one, or left from the one before;
\* those come first, and there is none once the current frame is accepted.
FramesOK ==
    /\ \A k \in 1 .. Len(data) :
          \/ data[k] \in {Corrupt, CurrentFrame}
          \/ ~ SenderBehind /\ data[k].seq # Sn
    /\ \A j, k \in 1 .. Len(data) :
          j < k /\ data[j] # Corrupt /\ data[j] = CurrentFrame
              => data[k] \in {Corrupt, CurrentFrame}
    /\ dataWrite \in {Corrupt, Idle, CurrentFrame}

\* An ACK of the current frame is on the link only once that frame is accepted, and
\* no other follows it.
AcksOK ==
    /\ ~ SenderBehind => \A k \in 1 .. Len(acks) : acks[k] # Corrupt => acks[k] # Sn
    /\ \A j, k \in 1 .. Len(acks) :
          j < k /\ acks[j] # Corrupt /\ acks[j] = Sn => acks[k] \in {Corrupt, Sn}
    /\ ackWrite \in {Corrupt, Idle, LastAccepted}

\* Nobody ends before the end of transmission is accepted.
EndOK ==
    /\ rpc = "done" \/ hungUp \/ spc = "done" => eot
    /\ spc = "done" => dataWrite = Idle

IInv == TypeOK /\ FileOK /\ FramesOK /\ AcksOK /\ EndOK

-----------------------------------------------------------------------------
(* The steps of the sender.                                                *)

\* A copy of the current frame at the end of the queue, or in the blocked write, is in
\* its place.
LEMMA CopyAppended ==
    ASSUME IInv, UNCHANGED <<Sn, offset, Rn>>,
           data' \in Seq(Frame \cup {Corrupt}),
           \A k \in 1 .. Len(data') :
              \/ k \in 1 .. Len(data) /\ data'[k] = data[k]
              \/ k = Len(data) + 1 /\ data'[k] \in {CurrentFrame, Corrupt},
           dataWrite' \in {dataWrite, Idle, CurrentFrame, Corrupt}
    PROVE  FramesOK'
<1>1. CurrentFrame' = CurrentFrame /\ Sn' = Sn /\ (SenderBehind' <=> SenderBehind)
  BY DEF CurrentFrame, SenderBehind
<1>2. Len(data) \in Nat /\ Len(data') \in Nat
  BY DEF IInv, TypeOK, LinkTypeOK
<1>3. ASSUME NEW k \in 1 .. Len(data')
      PROVE  \/ data'[k] \in {Corrupt, CurrentFrame}
             \/ ~ SenderBehind /\ data'[k].seq # Sn
  BY DEF IInv, FramesOK
<1>4. ASSUME NEW j \in 1 .. Len(data'), NEW k \in 1 .. Len(data'), j < k,
             data'[j] # Corrupt, data'[j] = CurrentFrame
      PROVE  data'[k] \in {Corrupt, CurrentFrame}
  <2>1. CASE k = Len(data) + 1 /\ data'[k] \in {CurrentFrame, Corrupt}
    BY <2>1
  <2>2. CASE k \in 1 .. Len(data) /\ data'[k] = data[k]
    <3>1. j \in 1 .. Len(data) /\ data'[j] = data[j]
      BY <2>2, <1>2, <1>4
    <3> QED
      BY <3>1, <2>2, <1>4 DEF IInv, FramesOK
  <2> QED
    BY <2>1, <2>2
<1>5. dataWrite' \in {Corrupt, Idle, CurrentFrame}
  BY DEF IInv, FramesOK
<1> QED
  BY <1>1, <1>3, <1>4, <1>5 DEF FramesOK

\* Sending, once more or for the first time, adds a copy of the current frame.
LEMMA SendStep ==
    ASSUME IInv, Send
    PROVE  IInv'
<1> USE DEF IInv
<1>1. /\ ChannelSendData(CurrentFrame) /\ spc' = "wait" /\ dataWrite = Idle
      /\ UNCHANGED <<Sn, offset, rpc, Rn, output, eot, acks, ackWrite, hungUp>>
  BY DEF Send, SenderAt, senderVars, file, ackLink
<1>2. CurrentFrame \in Frame
  BY DEF TypeOK, CurrentFrame, Frame, Payload
<1>3. /\ data' \in Seq(Frame \cup {Corrupt})
      /\ dataWrite' \in Frame \cup {Corrupt, Idle}
      /\ \A k \in 1 .. Len(data') :
            \/ k \in 1 .. Len(data) /\ data'[k] = data[k]
            \/ k = Len(data) + 1 /\ data'[k] \in {CurrentFrame, Corrupt}
      /\ dataWrite' \in {dataWrite, CurrentFrame, Corrupt}
  <2>1. data \in Seq(Frame \cup {Corrupt}) /\ dataWrite \in Frame \cup {Corrupt, Idle}
    BY DEF TypeOK, LinkTypeOK
  <2> QED
    BY <2>1, <1>1, <1>2, SendDataEffect
<1>4. TypeOK'
  BY <1>1, <1>3 DEF TypeOK, LinkTypeOK
<1>5. FileOK' /\ AcksOK' /\ EndOK'
  BY <1>1 DEF FileOK, OutputIsPrefix, FilePrefix, InStep, AcksOK, SenderBehind,
              LastAccepted, EndOK
<1>6. FramesOK'
  BY <1>1, <1>3, CopyAppended
<1> QED
  BY <1>4, <1>5, <1>6

\* The sender goes on to the next frame, or ends: all that is left on the link is of
\* the frame that is done with.
LEMMA AdvanceStep ==
    ASSUME IInv, SenderAt("wait"), SenderBehind, Advance,
           acks' \in Seq(Bit \cup {Corrupt}),
           \A k \in 1 .. Len(acks') : acks'[k] \in {Corrupt, Sn},
           UNCHANGED <<rpc, Rn, output, eot, data, dataWrite, ackWrite, hungUp>>
    PROVE  IInv'
<1> USE ChunksAssumption DEF IInv
<1>1. dataWrite = Idle /\ Sn \in Bit /\ Rn \in Bit /\ offset \in 0 .. Chunks
  BY DEF SenderAt, TypeOK
<1>2. \A k \in 1 .. Len(data) : data[k] \in {Corrupt, CurrentFrame}
  BY DEF FramesOK
<1>3. CASE offset = Eot
  <2>1. spc' = "done" /\ Sn' = Sn /\ offset' = offset
    BY <1>3 DEF Advance, senderVars
  <2>2. eot
    BY <1>3 DEF FileOK, InStep, SenderBehind, Eot, TypeOK, LinkTypeOK
  <2>3. TypeOK'
    BY <2>1 DEF TypeOK, LinkTypeOK
  <2>4. FileOK' /\ EndOK'
    BY <2>1, <2>2, <1>1 DEF FileOK, OutputIsPrefix, FilePrefix, InStep, EndOK
  <2>5. FramesOK'
    BY <2>1 DEF FramesOK, CurrentFrame, SenderBehind
  <2>6. AcksOK'
    BY <2>1 DEF AcksOK, SenderBehind, LastAccepted
  <2> QED
    BY <2>3, <2>4, <2>5, <2>6
<1>4. CASE offset # Eot
  <2>1. /\ spc' = "send" /\ offset' = offset + 1 /\ offset' \in 0 .. Chunks
        /\ Sn' \in Bit /\ Sn' # Sn /\ Sn' = Rn
    BY <1>1, <1>4 DEF Advance, Eot, NextBit, Bit, SenderBehind
  <2>2. ~ SenderBehind'
    BY <2>1 DEF SenderBehind
  <2>3. TypeOK'
    BY <2>1 DEF TypeOK, LinkTypeOK
  <2>4. FileOK'
    <3>1. InStep'
      BY <2>1, <1>1 DEF FileOK, InStep, SenderBehind
    <3> QED
      BY <3>1 DEF FileOK, OutputIsPrefix, FilePrefix
  <2>5. EndOK'
    BY <2>1 DEF EndOK
  <2>6. FramesOK'
    <3>1. \A k \in 1 .. Len(data') : data'[k] # Corrupt => data'[k].seq = Sn
      BY <1>2 DEF CurrentFrame
    <3>2. CurrentFrame'.seq = Sn'
      BY DEF CurrentFrame
    <3>3. dataWrite' \in {Corrupt, Idle, CurrentFrame'}
      BY <1>1
    <3> QED
      BY <3>1, <3>2, <3>3, <2>1, <2>2 DEF FramesOK
  <2>7. AcksOK'
    BY <2>1 DEF AcksOK, SenderBehind, LastAccepted
  <2> QED
    BY <2>3, <2>4, <2>5, <2>6, <2>7
<1> QED
  BY <1>3, <1>4

\* An ACK is read: the current one ends the wait, any other is ignored.
LEMMA ReadAckStep ==
    ASSUME IInv, ReadAck
    PROVE  IInv'
<1> DEFINE a == Head(acks)
<1> USE DEF IInv
<1>1. /\ SenderAt("wait") /\ acks # << >> /\ acks' = Tail(acks)
      /\ IF AwaitedAck(a) THEN Advance ELSE UNCHANGED <<spc, Sn, offset>>
      /\ UNCHANGED <<rpc, Rn, output, eot, data, dataWrite, ackWrite, hungUp>>
  BY DEF ReadAck, senderVars, file, dataLink
<1>2. acks \in Seq(Bit \cup {Corrupt})
  BY DEF TypeOK, LinkTypeOK
<1>3. /\ a \in Bit \cup {Corrupt} /\ a = acks[1] /\ 1 \in 1 .. Len(acks)
      /\ acks' \in Seq(Bit \cup {Corrupt})
      /\ \A k \in 1 .. Len(acks') : k + 1 \in 1 .. Len(acks) /\ acks'[k] = acks[k + 1]
  BY <1>1, <1>2, HeadAndTail
<1>4. CASE AwaitedAck(a)
  <2>1. a # Corrupt /\ a = Sn
    BY <1>4 DEF AwaitedAck
  <2>2. SenderBehind
    BY <2>1, <1>3 DEF AcksOK
  <2>3. \A k \in 1 .. Len(acks') : acks'[k] \in {Corrupt, Sn}
    BY <2>1, <1>3 DEF AcksOK
  <2> QED
    BY <2>2, <2>3, <1>1, <1>3, <1>4, AdvanceStep
<1>5. CASE ~ AwaitedAck(a)
  <2>1. UNCHANGED <<spc, Sn, offset>>
    BY <1>1, <1>5
  <2>2. TypeOK'
    BY <2>1, <1>1, <1>3 DEF TypeOK, LinkTypeOK
  <2>3. FileOK' /\ FramesOK' /\ EndOK'
    BY <2>1, <1>1 DEF FileOK, OutputIsPrefix, FilePrefix, InStep, FramesOK, CurrentFrame,
                      SenderBehind, EndOK
  <2>4. AcksOK'
    <3>1. \A k \in 1 .. Len(acks') : ~ SenderBehind /\ acks'[k] # Corrupt => acks'[k] # Sn
      BY <1>3 DEF AcksOK
    <3>2. ASSUME NEW j \in 1 .. Len(acks'), NEW k \in 1 .. Len(acks'), j < k,
                 acks'[j] # Corrupt, acks'[j] = Sn
          PROVE  acks'[k] \in {Corrupt, Sn}
      BY <1>3, <3>2 DEF AcksOK
    <3> QED
      BY <3>1, <3>2, <2>1, <1>1 DEF AcksOK, SenderBehind, LastAccepted
  <2> QED
    BY <2>2, <2>3, <2>4
<1> QED
  BY <1>4, <1>5

\* The receiver has hung up: it accepted everything, the current frame included.
LEMMA PeerClosedStep ==
    ASSUME IInv, PeerClosed
    PROVE  IInv'
<1> USE ChunksAssumption DEF IInv
<1>1. /\ SenderAt("wait") /\ hungUp /\ acks = << >> /\ Advance
      /\ UNCHANGED <<rpc, Rn, output, eot, data, dataWrite, acks, ackWrite, hungUp>>
  BY DEF PeerClosed, AtEof, file, dataLink, ackLink
<1>2. SenderBehind
  <2>1. eot /\ Len(output) = Chunks /\ offset \in 0 .. Chunks
    BY <1>1 DEF EndOK, FileOK, OutputIsPrefix, TypeOK
  <2> QED
    BY <2>1 DEF FileOK, InStep, SenderBehind
<1>3. acks' \in Seq(Bit \cup {Corrupt}) /\ Len(acks') = 0
  BY <1>1, EmptyQueue
<1> QED
  BY <1>1, <1>2, <1>3, AdvanceStep

\* A timeout changes only where the sender is.
LEMMA TimeoutStep ==
    ASSUME IInv, Timeout
    PROVE  IInv'
<1>1. /\ spc' = "resend"
      /\ UNCHANGED <<Sn, offset, rpc, Rn, output, eot, data, dataWrite, acks, ackWrite, hungUp>>
  BY DEF Timeout, senderVars, file, dataLink, ackLink
<1> QED
  BY <1>1 DEF IInv, TypeOK, LinkTypeOK, FileOK, OutputIsPrefix, FilePrefix, InStep, FramesOK,
              CurrentFrame, SenderBehind, AcksOK, LastAccepted, EndOK

\* The kernel finishes or fails the sender's blocked write, which holds the current
\* frame.
LEMMA SenderKernelStep ==
    ASSUME IInv, SenderKernel
    PROVE  IInv'
<1> USE DEF IInv
<1>1. /\ dataWrite' \in {dataWrite, Idle}
      /\ spc' \in {spc, "killed"}
      /\ \/ data' = data
         \/ dataWrite # Idle /\ data' = Append(data, dataWrite)
      /\ UNCHANGED <<Sn, offset, rpc, Rn, output, eot, acks, ackWrite, hungUp>>
  BY DEF SenderKernel, UnblockData, WriteFails, BrokenPipe, senderVars, file, ackLink
<1>2. /\ data \in Seq(Frame \cup {Corrupt}) /\ Len(data) \in Nat
      /\ dataWrite # Idle => dataWrite \in Frame \cup {Corrupt}
      /\ dataWrite \in {Corrupt, Idle, CurrentFrame}
  BY DEF TypeOK, LinkTypeOK, FramesOK
<1>3. /\ data' \in Seq(Frame \cup {Corrupt})
      /\ \A k \in 1 .. Len(data') :
            \/ k \in 1 .. Len(data) /\ data'[k] = data[k]
            \/ k = Len(data) + 1 /\ data'[k] \in {CurrentFrame, Corrupt}
  BY <1>1, <1>2
<1>4. TypeOK'
  BY <1>1, <1>3 DEF TypeOK, LinkTypeOK
<1>5. FileOK' /\ AcksOK' /\ EndOK'
  BY <1>1 DEF FileOK, OutputIsPrefix, FilePrefix, InStep, AcksOK, SenderBehind,
              LastAccepted, EndOK
<1>6. FramesOK'
  BY <1>1, <1>2, <1>3, CopyAppended
<1> QED
  BY <1>4, <1>5, <1>6

-----------------------------------------------------------------------------
(* The steps of the receiver, of the kernel on its side and of the harness. *)

\* The receiver reads a frame.  One with the expected number is the current frame; no
\* older one comes after it.
LEMMA ReceiveStep ==
    ASSUME IInv, Receive
    PROVE  IInv'
<1> DEFINE f == Head(data)
<1> USE ChunksAssumption DEF IInv
<1>1. /\ data # << >> /\ data' = Tail(data) /\ rpc' = "ack"
      /\ rpc = "recv" /\ ackWrite = Idle
      /\ UNCHANGED <<spc, Sn, offset, dataWrite, acks, ackWrite, hungUp>>
  BY DEF Receive, ReceiverAt, senderVars, ackLink
<1>2. /\ data \in Seq(Frame \cup {Corrupt}) /\ output \in Seq(Payload)
      /\ Sn \in Bit /\ Rn \in Bit /\ offset \in 0 .. Chunks
  BY DEF TypeOK, LinkTypeOK
<1>3. /\ f \in Frame \cup {Corrupt} /\ f = data[1] /\ 1 \in 1 .. Len(data)
      /\ data' \in Seq(Frame \cup {Corrupt})
      /\ \A k \in 1 .. Len(data') : k + 1 \in 1 .. Len(data) /\ data'[k] = data[k + 1]
  BY <1>1, <1>2, HeadAndTail
<1>4. CurrentFrame' = CurrentFrame
  BY <1>1 DEF CurrentFrame
<1>5. ASSUME NEW j \in 1 .. Len(data'), NEW k \in 1 .. Len(data'), j < k,
             data'[j] # Corrupt, data'[j] = CurrentFrame
      PROVE  data'[k] \in {Corrupt, CurrentFrame}
  BY <1>3, <1>5 DEF FramesOK
<1>6. CASE ~ Expected(f)
  <2>1. UNCHANGED <<output, eot, Rn>>
    BY <1>6 DEF Receive, file
  <2>2. TypeOK'
    BY <2>1, <1>1, <1>3 DEF TypeOK, LinkTypeOK
  <2>3. FileOK' /\ AcksOK' /\ EndOK'
    BY <2>1, <1>1 DEF FileOK, OutputIsPrefix, FilePrefix, InStep, AcksOK, SenderBehind,
                      LastAccepted, EndOK
  <2>4. SenderBehind' <=> SenderBehind
    BY <2>1, <1>1 DEF SenderBehind
  <2>5. ASSUME NEW k \in 1 .. Len(data')
        PROVE  \/ data'[k] \in {Corrupt, CurrentFrame}
               \/ ~ SenderBehind /\ data'[k].seq # Sn
    BY <1>3 DEF FramesOK
  <2> QED
    BY <2>2, <2>3, <2>4, <2>5, <1>1, <1>4, <1>5 DEF FramesOK
<1>7. CASE Expected(f)
  <2>1. f # Corrupt /\ f.seq = Rn
    BY <1>7 DEF Expected
  <2>2. f = CurrentFrame /\ ~ SenderBehind
    BY <2>1, <1>3 DEF FramesOK, SenderBehind, CurrentFrame
  <2>3. WritePayload(offset) /\ Rn' = (Rn + 1) % 2
    BY <2>2, <1>7 DEF Receive, CurrentFrame
  <2>4. Rn' \in Bit /\ Rn' # Sn /\ Rn = Sn
    BY <2>2, <2>3, <1>2 DEF SenderBehind, Bit
  <2>5. ~ eot /\ Len(output) = offset /\ output = FilePrefix(offset)
    BY <2>4, <1>2 DEF FileOK, InStep, OutputIsPrefix
  <2>6. /\ output' \in Seq(Payload) /\ eot' \in BOOLEAN /\ output' = FilePrefix(Len(output'))
        /\ Len(output') <= Chunks /\ (eot' => Len(output') = Chunks)
        /\ Len(output') + (IF eot' THEN 1 ELSE 0) = offset + 1
    <3>1. CASE offset = Chunks
      <4>1. output' = output /\ eot' = TRUE
        BY <3>1, <2>3 DEF WritePayload, Eot
      <4>2. output' = FilePrefix(Len(output'))
        BY <4>1, <2>5
      <4> QED
        BY <4>1, <4>2, <3>1, <2>5, <1>2
    <3>2. CASE offset # Chunks
      <4>1. output' = Append(output, offset) /\ eot' = eot
        BY <3>2, <2>3 DEF WritePayload, Eot
      <4>2. eot' \in BOOLEAN /\ ~ eot'
        BY <4>1, <2>5 DEF TypeOK, LinkTypeOK
      <4>3. output' = FilePrefix(offset + 1)
        <5>1. offset \in Nat
          BY <1>2
        <5>2. Append(FilePrefix(offset), offset) = FilePrefix(offset + 1)
          BY <5>1, PrefixGrows
        <5> QED
          BY <5>2, <4>1, <2>5
      <4>4. Len(output') = offset + 1
        BY <4>1, <2>5, <1>2
      <4>5. output' \in Seq(Payload)
        BY <4>1, <1>2 DEF Payload
      <4> QED
        BY <4>2, <4>3, <4>4, <4>5, <3>2, <1>2
    <3> QED
      BY <3>1, <3>2
  <2>7. TypeOK'
    BY <2>4, <2>6, <1>1, <1>3 DEF TypeOK, LinkTypeOK
  <2>8. FileOK'
    BY <2>4, <2>6, <1>1 DEF FileOK, OutputIsPrefix, InStep
  <2>9. SenderBehind'
    BY <2>4, <1>1 DEF SenderBehind
  <2>10. FramesOK'
    <3>1. \A k \in 1 .. Len(data') : data'[k] \in {Corrupt, CurrentFrame}
      <4>1. \A k \in 1 .. Len(data) : 1 < k => data[k] \in {Corrupt, CurrentFrame}
        BY <2>1, <2>2, <1>3 DEF FramesOK
      <4> QED
        BY <4>1, <1>3
    <3>2. dataWrite' \in {Corrupt, Idle, CurrentFrame}
      BY <1>1 DEF FramesOK
    <3> QED
      BY <3>1, <3>2, <1>4, <1>5 DEF FramesOK
  <2>11. AcksOK'
    BY <2>9, <1>1 DEF AcksOK
  <2>12. EndOK'
    <3>1. rpc' # "done" /\ hungUp' = hungUp /\ spc' = spc /\ dataWrite' = dataWrite
      BY <1>1
    <3> QED
      BY <3>1, <2>5 DEF EndOK
  <2> QED
    BY <2>7, <2>8, <2>10, <2>11, <2>12
<1> QED
  BY <1>6, <1>7

\* The number of the last frame accepted is the current one just when the sender is
\* behind.
LEMMA LastAcceptedIs ==
    ASSUME TypeOK
    PROVE  LastAccepted \in Bit /\ (LastAccepted = Sn <=> SenderBehind)
BY DEF TypeOK, Bit, LastAccepted, SenderBehind

\* An ACK of the last frame accepted at the end of the queue is in its place.
LEMMA AckAppended ==
    ASSUME IInv, UNCHANGED <<Sn, Rn>>,
           acks' \in Seq(Bit \cup {Corrupt}),
           \A k \in 1 .. Len(acks') :
              \/ k \in 1 .. Len(acks) /\ acks'[k] = acks[k]
              \/ k = Len(acks) + 1 /\ acks'[k] \in {LastAccepted, Corrupt},
           ackWrite' \in {ackWrite, Idle, LastAccepted, Corrupt}
    PROVE  AcksOK'
<1>1. /\ LastAccepted' = LastAccepted /\ Sn' = Sn /\ (SenderBehind' <=> SenderBehind)
      /\ LastAccepted = Sn <=> SenderBehind
  BY LastAcceptedIs DEF LastAccepted, SenderBehind, IInv
<1>2. Len(acks) \in Nat /\ Len(acks') \in Nat
  BY DEF IInv, TypeOK, LinkTypeOK
<1>3. ASSUME ~ SenderBehind, NEW k \in 1 .. Len(acks'), acks'[k] # Corrupt
      PROVE  acks'[k] # Sn
  BY <1>1, <1>3 DEF IInv, AcksOK
<1>4. ASSUME NEW j \in 1 .. Len(acks'), NEW k \in 1 .. Len(acks'), j < k,
             acks'[j] # Corrupt, acks'[j] = Sn
      PROVE  acks'[k] \in {Corrupt, Sn}
  <2>1. SenderBehind
    BY <1>3, <1>4
  <2>2. CASE k = Len(acks) + 1 /\ acks'[k] \in {LastAccepted, Corrupt}
    BY <2>1, <2>2, <1>1
  <2>3. CASE k \in 1 .. Len(acks) /\ acks'[k] = acks[k]
    <3>1. j \in 1 .. Len(acks) /\ acks'[j] = acks[j]
      BY <2>3, <1>2, <1>4
    <3> QED
      BY <3>1, <2>3, <1>4 DEF IInv, AcksOK
  <2> QED
    BY <2>2, <2>3
<1>5. ackWrite' \in {Corrupt, Idle, LastAccepted}
  BY DEF IInv, AcksOK
<1> QED
  BY <1>1, <1>3, <1>4, <1>5 DEF AcksOK

\* The receiver answers with the number of the last frame accepted.
LEMMA SendAckStep ==
    ASSUME IInv, SendAck
    PROVE  IInv'
<1> USE DEF IInv
<1>1. /\ ChannelSendAck(LastAccepted)
      /\ rpc' = IF eot THEN "done" ELSE "recv"
      /\ UNCHANGED <<spc, Sn, offset, Rn, output, eot, data, dataWrite, hungUp>>
  BY DEF SendAck, senderVars, file, dataLink
<1>2. LastAccepted \in Bit
  BY LastAcceptedIs
<1>3. /\ acks' \in Seq(Bit \cup {Corrupt})
      /\ ackWrite' \in Bit \cup {Corrupt, Idle}
      /\ \A k \in 1 .. Len(acks') :
            \/ k \in 1 .. Len(acks) /\ acks'[k] = acks[k]
            \/ k = Len(acks) + 1 /\ acks'[k] \in {LastAccepted, Corrupt}
      /\ ackWrite' \in {ackWrite, LastAccepted, Corrupt}
  <2>1. acks \in Seq(Bit \cup {Corrupt}) /\ ackWrite \in Bit \cup {Corrupt, Idle}
    BY DEF TypeOK, LinkTypeOK
  <2> QED
    BY <2>1, <1>1, <1>2, SendAckEffect
<1>4. rpc' \in {"recv", "done"} /\ (rpc' = "done" => eot)
  BY <1>1 DEF TypeOK, LinkTypeOK
<1>5. TypeOK'
  BY <1>1, <1>3, <1>4 DEF TypeOK, LinkTypeOK
<1>6. FileOK' /\ FramesOK'
  BY <1>1 DEF FileOK, OutputIsPrefix, FilePrefix, InStep, FramesOK, CurrentFrame,
              SenderBehind
<1>7. AcksOK'
  BY <1>1, <1>3, AckAppended
<1>8. EndOK'
  BY <1>1, <1>4 DEF EndOK
<1> QED
  BY <1>5, <1>6, <1>7, <1>8

\* The kernel finishes the receiver's blocked write.
LEMMA ReceiverKernelStep ==
    ASSUME IInv, ReceiverKernel
    PROVE  IInv'
<1> USE DEF IInv
<1>1. /\ ackWrite # Idle /\ ackWrite' = Idle
      /\ acks' = Append(acks, ackWrite)
      /\ UNCHANGED <<spc, Sn, offset, rpc, Rn, output, eot, data, dataWrite, hungUp>>
  BY DEF ReceiverKernel, UnblockAck, senderVars, file, dataLink
<1>2. /\ acks \in Seq(Bit \cup {Corrupt}) /\ Len(acks) \in Nat
      /\ ackWrite \in Bit \cup {Corrupt} /\ ackWrite \in {Corrupt, LastAccepted}
  BY <1>1 DEF TypeOK, LinkTypeOK, AcksOK
<1>3. /\ acks' \in Seq(Bit \cup {Corrupt})
      /\ \A k \in 1 .. Len(acks') :
            \/ k \in 1 .. Len(acks) /\ acks'[k] = acks[k]
            \/ k = Len(acks) + 1 /\ acks'[k] \in {LastAccepted, Corrupt}
  BY <1>1, <1>2
<1>4. TypeOK'
  BY <1>1, <1>3 DEF TypeOK, LinkTypeOK
<1>5. FileOK' /\ FramesOK' /\ EndOK'
  BY <1>1 DEF FileOK, OutputIsPrefix, FilePrefix, InStep, FramesOK, CurrentFrame,
              SenderBehind, EndOK
<1>6. AcksOK'
  BY <1>1, <1>3, AckAppended
<1> QED
  BY <1>4, <1>5, <1>6

\* The harness hangs up after the receiver is done.
LEMMA HarnessStep ==
    ASSUME IInv, Harness
    PROVE  IInv'
<1> USE DEF IInv
<1>1. /\ UNCHANGED <<spc, Sn, offset, rpc, Rn, output, eot, dataWrite, acks, ackWrite>>
      /\ \/ data' = data /\ hungUp' = hungUp
         \/ data' = << >> /\ hungUp' = TRUE /\ rpc = "done"
  BY DEF Harness, HangUp, TrialOver, ReceiverAt, senderVars, linkVars, file, dataLink,
         ackLink
<1>2. TypeOK'
  <2>1. data' \in Seq(Frame \cup {Corrupt}) /\ hungUp' \in BOOLEAN
    BY <1>1, EmptyQueue DEF TypeOK, LinkTypeOK
  <2> QED
    BY <2>1, <1>1 DEF TypeOK, LinkTypeOK
<1>3. FileOK' /\ AcksOK' /\ EndOK'
  BY <1>1 DEF FileOK, OutputIsPrefix, FilePrefix, InStep, AcksOK, SenderBehind,
              LastAccepted, EndOK
<1>4. FramesOK'
  BY <1>1 DEF FramesOK, CurrentFrame, SenderBehind
<1> QED
  BY <1>2, <1>3, <1>4

-----------------------------------------------------------------------------
(* The inductive invariant.                                                *)

\* The initial states satisfy it ...
LEMMA InitInv == Init => IInv
<1> SUFFICES ASSUME Init PROVE IInv
  OBVIOUS
<1> USE ChunksAssumption DEF Init, LinkInit
<1>1. TypeOK
  <2>1. LinkTypeOK(Frame, Bit)
    BY EmptyQueue DEF LinkTypeOK
  <2> QED
    BY <2>1 DEF TypeOK, Bit
<1>2. FileOK
  BY DEF FileOK, OutputIsPrefix, FilePrefix, InStep
<1>3. FramesOK /\ AcksOK /\ EndOK
  BY DEF FramesOK, AcksOK, EndOK
<1> QED
  BY <1>1, <1>2, <1>3 DEF IInv

\* ... and every step preserves it.
LEMMA NextInv == ASSUME IInv, [Next]_vars PROVE IInv'
<1>1. CASE SenderNext
  BY <1>1, SendStep, ReadAckStep, PeerClosedStep, TimeoutStep, SenderKernelStep
     DEF SenderNext
<1>2. CASE ReceiverNext
  BY <1>2, ReceiveStep, SendAckStep, ReceiverKernelStep DEF ReceiverNext
<1>3. CASE Harness
  BY <1>3, HarnessStep
<1>4. CASE UNCHANGED vars
  BY <1>4 DEF vars, senderVars, linkVars, file, dataLink, ackLink, IInv, TypeOK, LinkTypeOK,
              FileOK, OutputIsPrefix, FilePrefix, InStep, FramesOK, CurrentFrame,
              SenderBehind, AcksOK, LastAccepted, EndOK
<1> QED
  BY <1>1, <1>2, <1>3, <1>4 DEF Next

\* IInv holds in every reachable state.
THEOREM Invariance == Spec => []IInv
<1>1. Init => IInv
  BY InitInv
<1>2. IInv /\ [Next]_vars => IInv'
  BY NextInv
<1> QED
  BY <1>1, <1>2, PTL DEF Spec

-----------------------------------------------------------------------------
(* What follows from it.                                                   *)

\* The locals, the file and the queues keep their types.
THEOREM TypeCorrect == Spec => []TypeOK
<1>1. IInv => TypeOK
  BY DEF IInv
<1> QED
  BY <1>1, Invariance, PTL

\* The file receiver_sw_mode writes is a prefix of the file that was sent, and the
\* whole of it at the end of transmission.
THEOREM FileSafe == Spec => []OutputIsPrefix
<1>1. IInv => OutputIsPrefix
  BY DEF IInv, FileOK
<1> QED
  BY <1>1, Invariance, PTL

\* sw_wait_for_ack lets the sender go on only after the receiver accepted the frame.
THEOREM StepSafe == Spec => []InStep
<1>1. IInv => InStep
  BY DEF IInv, FileOK
<1> QED
  BY <1>1, Invariance, PTL

\* sender_sw_mode returns only after the receiver accepted the end of transmission.
THEOREM CompletionSafe == Spec => []CompleteMeansDelivered
<1>1. IInv => CompleteMeansDelivered
  BY DEF IInv, EndOK, CompleteMeansDelivered
<1> QED
  BY <1>1, Invariance, PTL

-----------------------------------------------------------------------------
(* The two threads never block each other.                                 *)

\* Everything on its way around the link: frames, replies, and the reply that the
\* receiver is about to send.
InFlight == OnTheLink + (IF rpc = "ack" THEN 1 ELSE 0)

\* The sender sends only after it has read an ACK, or when there is none to read: at
\* most one direction of the link is full.
FlightOK ==
    /\ RoomOK
    /\ rpc = "ack" => ackWrite = Idle
    /\ ~ hungUp => /\ InFlight <= Cap + 2
                   /\ spc \in {"send", "resend"} => InFlight <= Cap + 1

\* Every step preserves it: only a send adds a frame, and only a timeout with nothing
\* to read lets the sender send without having read.
LEMMA FlightStep ==
    ASSUME IInv, FlightOK, [Next]_vars
    PROVE  FlightOK'
<1> USE CapAssumption DEF FlightOK
<1>1. /\ data \in Seq(Frame \cup {Corrupt}) /\ acks \in Seq(Bit \cup {Corrupt})
      /\ Len(data) \in Nat /\ Len(acks) \in Nat
      /\ CurrentFrame \in Frame /\ LastAccepted \in Bit
      /\ Len(data) <= Cap /\ Len(acks) <= Cap
  BY LastAcceptedIs DEF IInv, TypeOK, LinkTypeOK, CurrentFrame, Frame, Payload, RoomOK
<1>2. /\ Held(Idle) = 0 /\ Held(dataWrite) \in {0, 1} /\ Held(ackWrite) \in {0, 1}
      /\ Held(dataWrite') \in {0, 1} /\ Held(ackWrite') \in {0, 1}
  BY DEF Held
<1>3. Len(data') \in Nat /\ Len(acks') \in Nat
  BY NextInv DEF IInv, TypeOK, LinkTypeOK
<1>4. CASE Send
  <2>1. /\ ChannelSendData(CurrentFrame) /\ spc' = "wait" /\ dataWrite = Idle
        /\ spc \in {"send", "resend"}
        /\ UNCHANGED <<rpc, acks, ackWrite, hungUp>>
    BY <1>4 DEF Send, SenderAt, ackLink
  <2>2. /\ Len(data') <= Cap
        /\ Len(data') + Held(dataWrite') <= Len(data) + Held(dataWrite) + 1
    BY <2>1, <1>1, SendDataCount
  <2>3. InFlight <= Cap + 1 => InFlight' <= Cap + 2
    BY <2>1, <2>2, <1>1, <1>2, <1>3 DEF InFlight, OnTheLink
  <2>4. RoomOK'
    BY <2>1, <2>2, <1>1 DEF RoomOK
  <2> QED
    BY <2>1, <2>3, <2>4
<1>5. CASE ReadAck
  <2>1. /\ acks # << >> /\ acks' = Tail(acks)
        /\ UNCHANGED <<rpc, data, dataWrite, ackWrite, hungUp>>
    BY <1>5 DEF ReadAck, dataLink
  <2>2. Len(acks') = Len(acks) - 1
    BY <2>1, <1>1
  <2>3. InFlight <= Cap + 2 => InFlight' <= Cap + 1 /\ InFlight' <= Cap + 2
    BY <2>1, <2>2, <1>1, <1>2 DEF InFlight, OnTheLink
  <2>4. RoomOK'
    BY <2>1, <2>2, <1>1 DEF RoomOK
  <2> QED
    BY <2>1, <2>3, <2>4
<1>6. CASE PeerClosed
  BY <1>6 DEF PeerClosed, AtEof, ackLink, dataLink, RoomOK
<1>7. CASE Timeout
  <2>1. /\ dataWrite = Idle /\ acks = << >>
        /\ UNCHANGED <<rpc, data, dataWrite, acks, ackWrite, hungUp>>
    BY <1>7 DEF Timeout, SenderAt, NothingToRead, dataLink, ackLink
  <2>2. (IF rpc = "ack" THEN 1 ELSE 0) + Held(ackWrite) <= 1
    BY <1>2
  <2>3. InFlight' <= Cap + 1 /\ InFlight' <= Cap + 2
    BY <2>1, <2>2, <1>1, <1>2 DEF InFlight, OnTheLink
  <2> QED
    BY <2>1, <2>3 DEF RoomOK
<1>8. CASE SenderKernel
  <2>1. /\ UnblockData \/ WriteFails \/ BrokenPipe(spc \in {"send", "resend"})
        /\ spc' \in {spc, "killed"}
        /\ UNCHANGED <<rpc, acks, ackWrite, hungUp>>
    BY <1>8 DEF SenderKernel, UnblockData, WriteFails, BrokenPipe, ackLink
  <2>2. /\ Len(data') <= Cap
        /\ Len(data') + Held(dataWrite') <= Len(data) + Held(dataWrite)
    BY <2>1, <1>1, KernelDataCount
  <2>3. /\ InFlight <= Cap + 2 => InFlight' <= Cap + 2
        /\ InFlight <= Cap + 1 => InFlight' <= Cap + 1
    BY <2>1, <2>2, <1>1, <1>2, <1>3 DEF InFlight, OnTheLink
  <2>4. RoomOK'
    BY <2>1, <2>2, <1>1 DEF RoomOK
  <2> QED
    BY <2>1, <2>3, <2>4
<1>9. CASE Receive
  <2>1. /\ rpc = "recv" /\ rpc' = "ack" /\ ackWrite = Idle
        /\ data # << >> /\ data' = Tail(data)
        /\ UNCHANGED <<spc, dataWrite, acks, ackWrite, hungUp>>
    BY <1>9 DEF Receive, ReceiverAt, ackLink
  <2>2. Len(data') = Len(data) - 1
    BY <2>1, <1>1
  <2>3. InFlight' = InFlight
    BY <2>1, <2>2, <1>1, <1>2 DEF InFlight, OnTheLink
  <2>4. RoomOK'
    BY <2>1, <2>2, <1>1 DEF RoomOK
  <2> QED
    BY <2>1, <2>3, <2>4
<1>10. CASE SendAck
  <2>1. /\ ChannelSendAck(LastAccepted) /\ ackWrite = Idle
        /\ rpc = "ack" /\ rpc' # "ack"
        /\ UNCHANGED <<spc, data, dataWrite, hungUp>>
    BY <1>10 DEF SendAck, ReceiverAt, dataLink
  <2>2. /\ Len(acks') <= Cap
        /\ Len(acks') + Held(ackWrite') <= Len(acks) + Held(ackWrite) + 1
    BY <2>1, <1>1, SendAckCount
  <2>3. /\ InFlight <= Cap + 2 => InFlight' <= Cap + 2
        /\ InFlight <= Cap + 1 => InFlight' <= Cap + 1
    BY <2>1, <2>2, <1>1, <1>2, <1>3 DEF InFlight, OnTheLink
  <2>4. RoomOK'
    BY <2>1, <2>2, <1>1 DEF RoomOK
  <2> QED
    BY <2>1, <2>3, <2>4
<1>11. CASE ReceiverKernel
  <2>1. /\ UnblockAck /\ ackWrite' = Idle
        /\ UNCHANGED <<spc, rpc, data, dataWrite, hungUp>>
    BY <1>11 DEF ReceiverKernel, UnblockAck, dataLink
  <2>2. /\ Len(acks') <= Cap
        /\ Len(acks') + Held(ackWrite') <= Len(acks) + Held(ackWrite)
    BY <2>1, <1>1, KernelAckCount
  <2>3. /\ InFlight <= Cap + 2 => InFlight' <= Cap + 2
        /\ InFlight <= Cap + 1 => InFlight' <= Cap + 1
    BY <2>1, <2>2, <1>1, <1>2, <1>3 DEF InFlight, OnTheLink
  <2>4. RoomOK'
    BY <2>1, <2>2, <1>1 DEF RoomOK
  <2> QED
    BY <2>1, <2>3, <2>4
<1>12. CASE Harness
  <2>1. /\ UNCHANGED <<spc, rpc, acks, ackWrite>> /\ hungUp'
        /\ data' = data \/ data' = << >>
    BY <1>12 DEF Harness, HangUp, TrialOver, linkVars, ackLink, dataLink
  <2>2. RoomOK'
    BY <2>1, <1>1 DEF RoomOK
  <2> QED
    BY <2>1, <2>2
<1>13. CASE UNCHANGED vars
  BY <1>13 DEF vars, linkVars, dataLink, ackLink, RoomOK, InFlight, OnTheLink, Held
<1> QED
  BY <1>4, <1>5, <1>6, <1>7, <1>8, <1>9, <1>10, <1>11, <1>12, <1>13
     DEF Next, SenderNext, ReceiverNext

\* The two threads are never both blocked in a write, whatever the size of the socket
\* buffers.
THEOREM NoBlock == Spec => []NoMutualBlock
<1>1. Init => FlightOK
  BY CapAssumption DEF Init, LinkInit, FlightOK, RoomOK, InFlight, OnTheLink, Held
<1>2. IInv /\ FlightOK /\ [Next]_vars => FlightOK'
  BY FlightStep
<1>3. IInv /\ FlightOK => NoMutualBlock
  <2> SUFFICES ASSUME IInv, FlightOK PROVE NoMutualBlock
    OBVIOUS
  <2>1. Len(data) \in Nat /\ Len(acks) \in Nat
    BY DEF IInv, TypeOK, LinkTypeOK
  <2>2. OnTheLink \in Nat
    <3>1. Held(dataWrite) \in Nat /\ Held(ackWrite) \in Nat
      BY DEF Held
    <3> QED
      BY <2>1, <3>1 DEF OnTheLink
  <2>3. InFlight <= Cap + 2 => OnTheLink <= 2 * Cap + 1
    BY <2>2, CapAssumption DEF InFlight
  <2>4. ~ hungUp => OnTheLink <= 2 * Cap + 1
    BY <2>3 DEF FlightOK
  <2> QED
    BY <2>1, <2>4, FewFramesNoBlock
<1> QED
  BY <1>1, <1>2, <1>3, Invariance, PTL DEF Spec

-----------------------------------------------------------------------------
(* StopAndWait implements ReliableTransfer.                                *)

\* Every step delivers the next chunk, ends the transfer, reports it, or stutters.
LEMMA ContractStep ==
    ASSUME IInv, IInv', [Next]_vars
    PROVE  [Contract!Next]_(Contract!vars)
<1> USE ChunksAssumption DEF IInv
<1>1. CASE Receive /\ Expected(Head(data))
  <2>1. /\ WritePayload(Head(data).payload) /\ spc' = spc
    BY <1>1 DEF Receive
  <2>2. Head(data).payload = offset /\ Rn = Sn /\ offset \in 0 .. Chunks
    <3>1. data # << >> /\ data \in Seq(Frame \cup {Corrupt})
      BY <1>1 DEF Receive, TypeOK, LinkTypeOK
    <3>2. Head(data) = data[1] /\ 1 \in 1 .. Len(data)
      BY <3>1, HeadAndTail
    <3>3. Head(data) # Corrupt /\ Head(data).seq = Rn
      BY <1>1 DEF Expected
    <3> QED
      BY <3>2, <3>3 DEF FramesOK, SenderBehind, CurrentFrame, TypeOK
  <2>3. ~ eot /\ Len(output) = offset
    BY <2>2 DEF FileOK, InStep, OutputIsPrefix, TypeOK, LinkTypeOK
  <2>4. CASE offset = Chunks
    <3>1. Contract!End
      BY <2>1, <2>2, <2>3, <2>4 DEF Contract!End, WritePayload, Eot
    <3> QED
      BY <3>1 DEF Contract!Next
  <2>5. CASE offset # Chunks
    <3>1. Contract!Deliver
      BY <2>1, <2>2, <2>3, <2>5 DEF Contract!Deliver, WritePayload, Eot
    <3> QED
      BY <3>1 DEF Contract!Next
  <2> QED
    BY <2>4, <2>5
<1>2. CASE ~ (Receive /\ Expected(Head(data)))
  <2>1. UNCHANGED <<output, eot>>
    BY <1>2 DEF Next, SenderNext, ReceiverNext, Send, ReadAck, PeerClosed, Timeout,
                SenderKernel, UnblockData, WriteFails, BrokenPipe, Receive, SendAck,
                ReceiverKernel, UnblockAck, Harness, HangUp, TrialOver, vars, linkVars, file
  <2>2. spc = "done" => spc' = "done"
    BY DEF EndOK, Next, SenderNext, ReceiverNext, Send, SenderAt, ReadAck, PeerClosed,
           Timeout, SenderKernel, UnblockData, WriteFails, BrokenPipe, Receive, SendAck,
           ReceiverKernel, UnblockAck, Harness, HangUp, TrialOver, vars, linkVars
  <2>3. spc' = "done" => eot
    BY <2>1 DEF EndOK
  <2>4. CASE (spc' = "done") = (spc = "done")
    BY <2>1, <2>4 DEF Contract!vars
  <2>5. CASE spc' = "done" /\ spc # "done"
    <3>1. Contract!Report
      BY <2>1, <2>3, <2>5 DEF Contract!Report
    <3> QED
      BY <3>1 DEF Contract!Next
  <2> QED
    BY <2>2, <2>4, <2>5
<1> QED
  BY <1>1, <1>2

\* The transfer keeps the contract of sender_run and receiver_run.
THEOREM Refinement == Spec => ImplementsContract
<1>1. Init => Contract!Init
  BY DEF Init, LinkInit, Contract!Init
<1>2. IInv /\ IInv' /\ [Next]_vars => [Contract!Next]_(Contract!vars)
  BY ContractStep
<1> QED
  BY <1>1, <1>2, Invariance, PTL DEF Spec, ImplementsContract, Contract!Spec

=============================================================================
