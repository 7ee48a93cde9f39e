--------------------------- MODULE ArqLinkProofs ----------------------------
(***************************************************************************)
(* Lemmas about the link of ArqLink and about its queues, for any set of   *)
(* frames and replies; the proofs about the three modes rest on them.      *)
(***************************************************************************)
EXTENDS ArqLink, NumberLemmas, TLAPS

\* Reading a queue takes its first element and shifts the others.
LEMMA HeadAndTail ==
    ASSUME NEW S, NEW s \in Seq(S), s # << >>
    PROVE  /\ Head(s) \in S /\ Head(s) = s[1] /\ 1 \in 1 .. Len(s)
           /\ Tail(s) \in Seq(S) /\ Len(Tail(s)) = Len(s) - 1
           /\ \A k \in 1 .. Len(Tail(s)) :
                 k + 1 \in 1 .. Len(s) /\ Tail(s)[k] = s[k + 1]
OBVIOUS

\* A hung-up queue is empty.
LEMMA EmptyQueue == ASSUME NEW S PROVE << >> \in Seq(S)
OBVIOUS

\* One more chunk of the file.
LEMMA PrefixGrows ==
    ASSUME NEW n \in Nat
    PROVE  Append(FilePrefix(n), n) = FilePrefix(n + 1)
BY DEF FilePrefix

\* A file of n chunks has n payloads.
LEMMA PrefixLength ==
    ASSUME NEW n \in Nat
    PROVE  Len(FilePrefix(n)) = n
BY DEF FilePrefix

-----------------------------------------------------------------------------
(* What the channel may do to the queues.                                  *)

\* A frame handed to channel_send on the sender's side changes nothing else than
\* the end of the queue or the blocked write.
LEMMA SendDataEffect ==
    ASSUME NEW F, NEW f \in F, ChannelSendData(f),
           data \in Seq(F \cup {Corrupt}), dataWrite \in F \cup {Corrupt, Idle}
    PROVE  /\ data' \in Seq(F \cup {Corrupt})
           /\ dataWrite' \in F \cup {Corrupt, Idle}
           /\ \A k \in 1 .. Len(data') :
                 \/ k \in 1 .. Len(data) /\ data'[k] = data[k]
                 \/ k = Len(data) + 1 /\ data'[k] \in {f, Corrupt}
           /\ dataWrite' \in {dataWrite, f, Corrupt}
<1>1. CASE UNCHANGED dataLink
  BY <1>1 DEF dataLink
<1>2. CASE \E copy \in {f, Corrupt} : WriteData(copy)
  <2>1. PICK copy \in {f, Corrupt} : WriteData(copy)
    BY <1>2
  <2>2. copy \in F \cup {Corrupt}
    BY <2>1
  <2>3. \/ data' = data /\ dataWrite' = copy
        \/ data' = Append(data, copy) /\ dataWrite' = dataWrite
    BY <2>1 DEF WriteData
  <2> QED
    BY <2>1, <2>2, <2>3
<1> QED
  BY <1>1, <1>2 DEF ChannelSendData

\* The same on the receiver's side.
LEMMA SendAckEffect ==
    ASSUME NEW R, NEW r \in R, ChannelSendAck(r),
           acks \in Seq(R \cup {Corrupt}), ackWrite \in R \cup {Corrupt, Idle}
    PROVE  /\ acks' \in Seq(R \cup {Corrupt})
           /\ ackWrite' \in R \cup {Corrupt, Idle}
           /\ \A k \in 1 .. Len(acks') :
                 \/ k \in 1 .. Len(acks) /\ acks'[k] = acks[k]
                 \/ k = Len(acks) + 1 /\ acks'[k] \in {r, Corrupt}
           /\ ackWrite' \in {ackWrite, r, Corrupt}
<1>1. CASE UNCHANGED ackLink
  BY <1>1 DEF ackLink
<1>2. CASE \E copy \in {r, Corrupt} : WriteAck(copy)
  <2>1. PICK copy \in {r, Corrupt} : WriteAck(copy)
    BY <1>2
  <2>2. copy \in R \cup {Corrupt}
    BY <2>1
  <2>3. \/ acks' = acks /\ ackWrite' = copy
        \/ acks' = Append(acks, copy) /\ ackWrite' = ackWrite
    BY <2>1 DEF WriteAck
  <2> QED
    BY <2>1, <2>2, <2>3
<1> QED
  BY <1>1, <1>2 DEF ChannelSendAck

-----------------------------------------------------------------------------
(* How many frames are under way.  A direction is full when its queue has  *)
(* Cap frames and its write is blocked.                                    *)

Held(write) == IF write = Idle THEN 0 ELSE 1
OnTheLink   == Len(data) + Held(dataWrite) + Len(acks) + Held(ackWrite)
RoomOK      == Len(data) <= Cap /\ Len(acks) <= Cap

\* channel_send adds at most one frame, and never more than the buffer takes.
LEMMA SendDataCount ==
    ASSUME NEW F, NEW f \in F, ChannelSendData(f), dataWrite = Idle,
           data \in Seq(F \cup {Corrupt}), Len(data) <= Cap
    PROVE  /\ Len(data') <= Cap
           /\ Len(data') + Held(dataWrite') <= Len(data) + Held(dataWrite) + 1
<1>1. Len(data) \in Nat /\ Held(dataWrite) = 0 /\ Held(dataWrite') \in {0, 1}
  BY DEF Held
<1>2. CASE UNCHANGED dataLink
  BY <1>1, <1>2 DEF dataLink
<1>3. CASE \E copy \in {f, Corrupt} : WriteData(copy)
  <2>1. PICK copy \in {f, Corrupt} : WriteData(copy)
    BY <1>3
  <2>2. CASE Len(data) < Cap
    <3>1. dataWrite' = dataWrite /\ data' = Append(data, copy)
      BY <2>1, <2>2 DEF WriteData
    <3>2. Len(data') = Len(data) + 1
      BY <3>1
    <3> QED
      BY <3>1, <3>2, <2>2, <1>1, CapAssumption
  <2>3. CASE ~ (Len(data) < Cap)
    BY <2>1, <2>3, <1>1 DEF WriteData
  <2> QED
    BY <2>2, <2>3
<1> QED
  BY <1>2, <1>3 DEF ChannelSendData

\* The same on the receiver's side.
LEMMA SendAckCount ==
    ASSUME NEW R, NEW r \in R, ChannelSendAck(r), ackWrite = Idle,
           acks \in Seq(R \cup {Corrupt}), Len(acks) <= Cap
    PROVE  /\ Len(acks') <= Cap
           /\ Len(acks') + Held(ackWrite') <= Len(acks) + Held(ackWrite) + 1
<1>1. Len(acks) \in Nat /\ Held(ackWrite) = 0 /\ Held(ackWrite') \in {0, 1}
  BY DEF Held
<1>2. CASE UNCHANGED ackLink
  BY <1>1, <1>2 DEF ackLink
<1>3. CASE \E copy \in {r, Corrupt} : WriteAck(copy)
  <2>1. PICK copy \in {r, Corrupt} : WriteAck(copy)
    BY <1>3
  <2>2. CASE Len(acks) < Cap
    <3>1. ackWrite' = ackWrite /\ acks' = Append(acks, copy)
      BY <2>1, <2>2 DEF WriteAck
    <3>2. Len(acks') = Len(acks) + 1
      BY <3>1
    <3> QED
      BY <3>1, <3>2, <2>2, <1>1, CapAssumption
  <2>3. CASE ~ (Len(acks) < Cap)
    BY <2>1, <2>3, <1>1 DEF WriteAck
  <2> QED
    BY <2>2, <2>3
<1> QED
  BY <1>2, <1>3 DEF ChannelSendAck

\* The kernel moves a frame from the blocked write to the queue, or drops it.
LEMMA KernelDataCount ==
    ASSUME NEW F, NEW aboutToSend, UnblockData \/ WriteFails \/ BrokenPipe(aboutToSend),
           data \in Seq(F), Len(data) <= Cap
    PROVE  /\ Len(data') <= Cap
           /\ Len(data') + Held(dataWrite') <= Len(data) + Held(dataWrite)
<1>1. Len(data) \in Nat /\ Held(Idle) = 0 /\ Held(dataWrite) \in {0, 1}
  BY DEF Held
<1>2. CASE UnblockData
  <2>1. Held(dataWrite) = 1 /\ dataWrite' = Idle /\ data' = Append(data, dataWrite)
        /\ Len(data) < Cap
    BY <1>2 DEF UnblockData, Held
  <2>2. Len(data') = Len(data) + 1
    BY <2>1
  <2> QED
    BY <2>1, <2>2, <1>1, CapAssumption
<1>3. CASE WriteFails \/ BrokenPipe(aboutToSend)
  BY <1>1, <1>3 DEF WriteFails, BrokenPipe
<1> QED
  BY <1>2, <1>3

\* The kernel moves the blocked acknowledgement, and the number under way stays the same.
LEMMA KernelAckCount ==
    ASSUME NEW R, UnblockAck, acks \in Seq(R), Len(acks) <= Cap
    PROVE  /\ Len(acks') <= Cap
           /\ Len(acks') + Held(ackWrite') <= Len(acks) + Held(ackWrite)
<1>1. Held(ackWrite) = 1 /\ Held(Idle) = 0 /\ ackWrite' = Idle
      /\ acks' = Append(acks, ackWrite) /\ Len(acks) < Cap
  BY DEF UnblockAck, Held
<1>2. Len(acks') = Len(acks) + 1
  BY <1>1
<1> QED
  BY <1>1, <1>2, CapAssumption

\* Two full directions hold more than this.
LEMMA FewFramesNoBlock ==
    ASSUME Len(data) \in Nat, Len(acks) \in Nat, ~ hungUp => OnTheLink <= 2 * Cap + 1
    PROVE  NoMutualBlock
<1> SUFFICES ASSUME dataWrite # Idle, Len(data) = Cap, ~ hungUp,
                    ackWrite # Idle, Len(acks) = Cap
             PROVE  FALSE
  BY DEF NoMutualBlock
<1>1. OnTheLink <= 2 * Cap + 1
  OBVIOUS
<1>2. Held(dataWrite) = 1 /\ Held(ackWrite) = 1
  BY DEF Held
<1> QED
  BY <1>1, <1>2, CapAssumption DEF OnTheLink
=============================================================================
