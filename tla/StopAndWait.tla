---------------------------- MODULE StopAndWait -----------------------------
(***************************************************************************)
(* One Stop-and-Wait transfer of lab2: sender_sw_mode, sw_wait_for_ack and *)
(* wait_for_ack (arq/sender.c), and receiver_sw_mode (arq/receiver.c).     *)
(*                                                                         *)
(* The sequence number is one bit.  The window timer that the sender       *)
(* starts and stops is not part of the model: nothing in this mode reads   *)
(* it, the retransmission timeout is the timeout of select().              *)
(***************************************************************************)
EXTENDS ArqLink

Bit == {0, 1}
Frame == [seq : Bit, payload : Payload]

VARIABLES
    Sn,         \* sender: number of the current frame
    offset,     \* sender: its chunk; Chunks stands for the end of transmission
    Rn          \* receiver: expected number

senderVars == <<Sn, offset>>
vars == <<linkVars, senderVars, Rn>>

Init ==
    /\ spc = "send" /\ Sn = 0 /\ offset = 0
    /\ rpc = "recv" /\ Rn = 0
    /\ LinkInit

-----------------------------------------------------------------------------
(* The sender.                                                             *)

\* The frame of the current iteration; the one after the last chunk is the
\* zero-length end of transmission.
CurrentFrame == [seq |-> Sn, payload |-> offset]

\* First transmission of a chunk or of the end of transmission, or, after a timeout,
\* one more.
Send ==
    /\ SenderAt("send") \/ SenderAt("resend")
    /\ ChannelSendData(CurrentFrame)
    /\ spc' = "wait"
    /\ UNCHANGED <<senderVars, rpc, Rn, file, ackLink, hungUp>>

\* Slip: the bit is not wrapped around.
NextBitUnwrapped(bit) == bit + 1
NextBit(bit) == (bit + 1) % 2

\* sw_wait_for_ack has returned 0: the next chunk, or the end of sender_sw_mode.
Advance ==
    IF offset = Eot
      THEN spc' = "done" /\ UNCHANGED senderVars
      ELSE spc' = "send" /\ offset' = offset + 1 /\ Sn' = NextBit(Sn)

\* The ACK that ends the wait is intact and carries the current number.
\* Slip: any intact ACK will do.
AnyAck(reply) == reply # Corrupt
AwaitedAck(reply) == reply # Corrupt /\ reply = Sn

ReadAck ==
    /\ SenderAt("wait")
    /\ acks # << >>
    /\ acks' = Tail(acks)
    /\ IF AwaitedAck(Head(acks)) THEN Advance ELSE UNCHANGED <<spc, senderVars>>
    /\ UNCHANGED <<rpc, Rn, file, dataLink, ackWrite, hungUp>>

\* The peer closed: reported to the caller like an acknowledgement.
\* Slip: not reported.
PeerClosedIgnored == FALSE
PeerClosed ==
    /\ SenderAt("wait")
    /\ AtEof
    /\ Advance
    /\ UNCHANGED <<rpc, Rn, file, dataLink, ackLink, hungUp>>

\* select() times out.
\* Slip: the timeout taken although ACKs are waiting.
TimeoutBeforeReading ==
    /\ SenderAt("wait")
    /\ ~ hungUp
    /\ spc' = "resend"
    /\ UNCHANGED <<senderVars, rpc, Rn, file, dataLink, ackLink, hungUp>>
Timeout ==
    /\ SenderAt("wait")
    /\ NothingToRead
    /\ spc' = "resend"
    /\ UNCHANGED <<senderVars, rpc, Rn, file, dataLink, ackLink, hungUp>>

SenderKernel ==
    /\ UnblockData \/ WriteFails \/ BrokenPipe(spc \in {"send", "resend"})
    /\ UNCHANGED <<senderVars, Rn>>

SenderNext == Send \/ ReadAck \/ PeerClosed \/ Timeout \/ SenderKernel

-----------------------------------------------------------------------------
(* The receiver.                                                           *)

\* Slip: the number is not looked at.
AnyFrame(frame) == frame # Corrupt
Expected(frame) == frame # Corrupt /\ frame.seq = Rn

\* Read a frame, verify it, deliver it if it carries the expected number.
Receive ==
    /\ ReceiverAt("recv")
    /\ data # << >>
    /\ data' = Tail(data)
    /\ rpc' = "ack"
    /\ IF Expected(Head(data))
         THEN WritePayload(Head(data).payload) /\ Rn' = (Rn + 1) % 2
         ELSE UNCHANGED <<file, Rn>>
    /\ UNCHANGED <<spc, senderVars, dataWrite, ackLink, hungUp>>

\* Every frame is answered with the number of the last frame accepted.
\* Slip: with the number of the next one.
NextNumber == Rn
LastAccepted == (Rn - 1 + 2) % 2

SendAck ==
    /\ ReceiverAt("ack")
    /\ ChannelSendAck(LastAccepted)
    /\ rpc' = IF eot THEN "done" ELSE "recv"
    /\ UNCHANGED <<spc, senderVars, Rn, file, dataLink, hungUp>>

ReceiverKernel == UnblockAck /\ UNCHANGED <<senderVars, Rn>>

ReceiverNext == Receive \/ SendAck \/ ReceiverKernel

-----------------------------------------------------------------------------

Harness == (HangUp \/ TrialOver) /\ UNCHANGED <<senderVars, Rn>>

Next == SenderNext \/ ReceiverNext \/ Harness

Spec == Init /\ [][Next]_vars

\* The threads are scheduled, and a loss probability below one lets a frame that
\* is resent for ever through at some time.
Fairness ==
    /\ WF_vars(SenderNext) /\ WF_vars(ReceiverNext) /\ WF_vars(Harness)
    /\ SF_vars(Send /\ WriteData(CurrentFrame))
    /\ SF_vars(SendAck /\ WriteAck(LastAccepted))

FairSpec == Spec /\ Fairness

-----------------------------------------------------------------------------
(* Properties, beside those of ArqLink.                                    *)

\* Types of the locals, the file and the socket queues.
TypeOK ==
    /\ spc \in {"send", "wait", "resend", "done", "killed"}
    /\ rpc \in {"recv", "ack", "done"}
    /\ Sn \in Bit /\ Rn \in Bit
    /\ offset \in 0 .. Chunks
    /\ LinkTypeOK(Frame, Bit)

\* The two parties are never more than one frame apart, and the bit tells which of
\* the two cases it is: sw_wait_for_ack returns success for a frame only after the
\* receiver has accepted it.
InStep ==
    LET accepted == Len(output) + (IF eot THEN 1 ELSE 0)
    IN  accepted = (IF Rn = Sn THEN offset ELSE offset + 1)
=============================================================================
