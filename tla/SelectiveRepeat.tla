-------------------------- MODULE SelectiveRepeat ---------------------------
(***************************************************************************)
(* One Selective-Repeat transfer of lab2: sender_sr_mode and sr_wait_step  *)
(* (arq/sender.c), and receiver_sr_mode (arq/receiver.c).                  *)
(*                                                                         *)
(* A retransmission timer is a slot of timers[] with a send time.  Only    *)
(* the order of the send times decides which timer expires first, so that  *)
(* a pending timer is described by the timers that are older than it.      *)
(***************************************************************************)
EXTENDS ArqLink, FiniteSetsExt

CONSTANTS
    Sw,         \* window size of both parties, 2^(window_size - 1) in the code
    SeqSpace,   \* number of sequence numbers, 2^16 in the code
    NBuf,       \* slots of the receiver's buffer, 256 in the code
    Unset       \* a slot of frame_store or buffer that holds nothing

ASSUME SwAssumption == Sw \in Nat \ {0}
ASSUME SeqSpaceAssumption == SeqSpace \in Nat \ {0, 1}
ASSUME NBufAssumption == NBuf \in Nat /\ NBuf >= Sw
ASSUME UnsetAssumption == Unset \notin Payload

SeqNo == 0 .. SeqSpace - 1
Slots == 0 .. Sw - 1
Frame == [seq : SeqNo, payload : Payload]
Reply == [type : {"ACK", "NAK"}, seq : SeqNo]

VARIABLES
    Sf,             \* sender: first outstanding sequence number
    Sn,             \* sender: next sequence number
    offset,         \* sender: chunks of the file sent so far
    eotSent,        \* sender: past the end of the main loop
    frame_store,    \* sender: copies kept for retransmission
    pending,        \* sender: slots whose timer is pending
    older,          \* sender: for each of them, those that were started before it
    i,              \* sender: the number about to be sent again
    Rn,             \* receiver: next expected sequence number
    nak_sent,       \* receiver: a NAK has been sent since the last delivery
    frame,          \* receiver: the frame being handled
    buffer          \* receiver: payloads of the marked slots; Unset: not marked

progress == <<Sn, offset, eotSent, frame_store>>
timers   == <<pending, older>>
senderVars == <<Sf, progress, timers, i>>
receiverVars == <<Rn, nak_sent, frame, buffer>>
vars == <<linkVars, senderVars, receiverVars>>

Init ==
    /\ spc = "top"
    /\ Sf = 0 /\ Sn = 0 /\ offset = 0
    /\ eotSent = FALSE
    /\ frame_store = [s \in Slots |-> Unset]
    /\ pending = {} /\ older = [s \in Slots |-> {}]
    /\ i = 0
    /\ rpc = "recv" /\ Rn = 0
    /\ nak_sent = FALSE
    /\ frame = Unset
    /\ buffer = [s \in 0 .. NBuf - 1 |-> Unset]
    /\ LinkInit

-----------------------------------------------------------------------------
(* The sender.                                                             *)

\* Slip: one frame too many.
WindowFullOffByOne == Sn - Sf > Sw
WindowFull == Sn - Sf >= Sw

StopTimers(stopped) ==
    /\ pending' = pending \ stopped
    /\ older' = [s \in Slots |-> IF s \in stopped THEN {} ELSE older[s] \ stopped]

\* (Re)start the timer of a slot: its send time is now the latest.
\* Slip: it is only stopped.
StopTimer(slot) == StopTimers({slot})
StartTimer(slot) ==
    /\ pending' = pending \cup {slot}
    /\ older' = [s \in Slots |-> (IF s = slot THEN pending ELSE older[s]) \ {slot}]

\* Keep a copy of the frame with number Sn, send it, start its timer.
SendNext(payload) ==
    LET next == [seq |-> Sn, payload |-> payload] IN
    /\ SenderAt("top")
    /\ frame_store' = [frame_store EXCEPT ![Sn % Sw] = next]
    /\ ChannelSendData(next)
    /\ StartTimer(Sn % Sw)
    /\ Sn' = (Sn + 1) % SeqSpace
    /\ UNCHANGED <<spc, Sf, i, rpc, receiverVars, file, ackLink, hungUp>>

\* The condition of the main loop.  Slip: one turn too many.
MoreToSendOffByOne == offset <= Chunks
MoreToSend == offset < Chunks

\* The main loop sends a chunk as long as the window is open.
SendData ==
    /\ MoreToSend /\ ~ WindowFull
    /\ SendNext(offset)
    /\ offset' = offset + 1
    /\ UNCHANGED eotSent

\* After the last chunk: no test of the window before this send.
SendEot ==
    /\ ~ MoreToSend /\ ~ eotSent
    /\ SendNext(Eot)
    /\ eotSent' = TRUE
    /\ UNCHANGED offset

\* The condition of the drain loop.  Slip: the last frame is not waited for.
OutstandingOffByOne == Sf < Sn - 1
Outstanding == Sf < Sn

\* The sender is inside select(), called from the main loop or the drain loop.
InSelect ==
    /\ SenderAt("top")
    /\ \/ MoreToSend /\ WindowFull
       \/ eotSent /\ Outstanding

\* The replies sr_wait_step acts on: an intact NAK of an outstanding frame, and an
\* intact ACK that slides the window.
ValidNak(reply) ==
    reply # Corrupt /\ reply.type = "NAK" /\ reply.seq >= Sf /\ reply.seq < Sn
ValidAck(reply) ==
    reply # Corrupt /\ reply.type = "ACK" /\ reply.seq > Sf /\ reply.seq <= Sn

\* One turn of the do-while that drains the replies.  A NAK leads to an immediate
\* retransmission; an ACK slides the window and stops the timers of the frames it
\* passes; everything else is ignored.
ReadReply ==
    /\ InSelect \/ SenderAt("reading")
    /\ acks # << >>
    /\ acks' = Tail(acks)
    /\ LET reply == Head(acks)
       IN  /\ spc' = IF ValidNak(reply) THEN "nak" ELSE "reading"
           /\ i' = IF ValidNak(reply) THEN reply.seq ELSE i
           /\ IF ValidAck(reply)
                THEN /\ Sf' = reply.seq
                     /\ StopTimers({k % Sw : k \in Sf .. reply.seq - 1})
                ELSE UNCHANGED <<Sf, timers>>
    /\ UNCHANGED <<progress, rpc, receiverVars, file, dataLink, ackWrite, hungUp>>

\* fd_readable_now says no: back to the loop that called sr_wait_step.
StopReading ==
    /\ SenderAt("reading")
    /\ NothingToRead
    /\ spc' = "top"
    /\ UNCHANGED <<senderVars, rpc, receiverVars, file, dataLink, ackLink, hungUp>>

\* recv returns 0: both loops end and sender_sr_mode returns 0.
\* Slip: only when it happens while draining.
ReadableWhileReading == SenderAt("reading")
Readable == InSelect \/ SenderAt("reading")

PeerClosed ==
    /\ Readable
    /\ AtEof
    /\ spc' = "done"
    /\ UNCHANGED <<senderVars, rpc, receiverVars, file, dataLink, ackLink, hungUp>>

\* A set of timers that have expired: with one, all older ones have.
MayHaveExpired(expired) ==
    /\ expired \subseteq pending /\ expired # {}
    /\ \A s \in expired : older[s] \subseteq expired

\* The frame sr_wait_step settles on when these timers have already expired: all of
\* them have nothing remaining, and the first one found wins.  With none expired it is
\* the oldest, as when that one alone has.
EarliestOf(expired) == Min({k \in Sf .. Sn - 1 : k % Sw \in expired})

\* select() times out; the frame to resend was chosen before the wait.
\* Slip: the timeout taken although replies are waiting.
TimeoutBeforeReading ==
    /\ InSelect /\ ~ hungUp
    /\ \E expired \in SUBSET pending :
          MayHaveExpired(expired) /\ i' = EarliestOf(expired)
    /\ spc' = "timeout"
    /\ UNCHANGED <<Sf, progress, timers, rpc, receiverVars, file,
                   dataLink, ackLink, hungUp>>
Timeout ==
    /\ InSelect /\ NothingToRead
    /\ \E expired \in SUBSET pending :
          MayHaveExpired(expired) /\ i' = EarliestOf(expired)
    /\ spc' = "timeout"
    /\ UNCHANGED <<Sf, progress, timers, rpc, receiverVars, file,
                   dataLink, ackLink, hungUp>>

\* No timer of the window is pending: select() times out after one RTO, nothing is
\* resent and the caller's loop comes round again.  (Likewise if all pending timers
\* were started in the very instant of the search, which is the same stuttering step.)
IdleTimeout ==
    /\ InSelect /\ NothingToRead
    /\ pending = {}
    /\ UNCHANGED vars

\* Resend one frame and restart its timer; go back to where it was decided.
Resend ==
    /\ SenderAt("timeout") \/ SenderAt("nak")
    /\ ChannelSendData(frame_store[i % Sw])
    /\ StartTimer(i % Sw)
    /\ spc' = IF spc = "nak" THEN "reading" ELSE "top"
    /\ i' = 0
    /\ UNCHANGED <<Sf, progress, rpc, receiverVars, file, ackLink, hungUp>>

\* The drain loop finds nothing outstanding.
DrainDone ==
    /\ SenderAt("top")
    /\ eotSent /\ ~ Outstanding
    /\ spc' = "done"
    /\ UNCHANGED <<senderVars, rpc, receiverVars, file, dataLink, ackLink, hungUp>>

\* The sender is about to call channel_send.
AboutToSend ==
    \/ spc = "top" /\ IF MoreToSend THEN ~ WindowFull ELSE ~ eotSent
    \/ spc \in {"nak", "timeout"}

SenderKernel ==
    /\ UnblockData \/ WriteFails \/ BrokenPipe(AboutToSend)
    /\ UNCHANGED <<senderVars, receiverVars>>

SenderNext ==
    \/ SendData \/ SendEot
    \/ ReadReply \/ StopReading \/ PeerClosed
    \/ Timeout \/ IdleTimeout \/ Resend
    \/ DrainDone \/ SenderKernel

-----------------------------------------------------------------------------
(* The receiver.                                                           *)

Receive ==
    /\ ReceiverAt("recv")
    /\ data # << >>
    /\ frame' = Head(data)
    /\ data' = Tail(data)
    /\ rpc' = "check"
    /\ UNCHANGED <<Rn, nak_sent, buffer, spc, senderVars, file,
                   dataWrite, ackLink, hungUp>>

\* A corrupted frame, or one that is not the next expected, asks for one NAK.
SendNak ==
    /\ ReceiverAt("check")
    /\ frame # Corrupt => frame.seq # Rn
    /\ ~ nak_sent
    /\ ChannelSendAck([type |-> "NAK", seq |-> Rn])
    /\ nak_sent' = TRUE
    /\ UNCHANGED <<Rn, frame, buffer, spc, rpc, senderVars, file, dataLink, hungUp>>

\* The NAK, if any, has been sent; a corrupted frame is dropped.
DropCorrupted ==
    /\ ReceiverAt("check")
    /\ frame = Corrupt /\ nak_sent
    /\ rpc' = "recv"
    /\ frame' = Unset
    /\ UNCHANGED <<Rn, nak_sent, buffer, spc, senderVars, file,
                   dataLink, ackLink, hungUp>>

\* Slips: a window without its lower end, and one that is a frame too long.
BelowWindowEnd(seq) == seq < Rn + Sw
InLongWindow(seq) == seq >= Rn /\ seq <= Rn + Sw
InWindow(seq) == seq >= Rn /\ seq < Rn + Sw

Marked(buf, seq) == buf[seq % NBuf] # Unset

\* An intact frame is buffered if it is in the window and not marked yet.
Accept ==
    /\ ReceiverAt("check")
    /\ frame # Corrupt
    /\ frame.seq = Rn \/ nak_sent
    /\ frame' = Unset
    /\ buffer' = IF InWindow(frame.seq) /\ ~ Marked(buffer, frame.seq)
                   THEN [buffer EXCEPT ![frame.seq % NBuf] = frame.payload]
                   ELSE buffer
    /\ rpc' = IF buffer' # buffer /\ Marked(buffer', Rn) THEN "deliver" ELSE "recv"
    /\ UNCHANGED <<Rn, nak_sent, spc, senderVars, file, dataLink, ackLink, hungUp>>

\* One turn of the loop that delivers the consecutive marked frames from Rn on.
Deliver ==
    /\ ReceiverAt("deliver")
    /\ WritePayload(buffer[Rn % NBuf])
    /\ buffer' = [buffer EXCEPT ![Rn % NBuf] = Unset]
    /\ Rn' = (Rn + 1) % SeqSpace
    /\ rpc' = IF Marked(buffer', Rn') THEN "deliver" ELSE "ack"
    /\ UNCHANGED <<nak_sent, frame, spc, senderVars, dataLink, ackLink, hungUp>>

\* Slip: the frame after the next expected one is acknowledged.
AfterNext == (Rn + 1) % SeqSpace
NextExpected == Rn

\* One cumulative ACK after a delivery; it also allows the next NAK.
SendAck ==
    /\ ReceiverAt("ack")
    /\ ChannelSendAck([type |-> "ACK", seq |-> NextExpected])
    /\ nak_sent' = FALSE
    /\ rpc' = IF eot THEN "done" ELSE "recv"
    /\ UNCHANGED <<Rn, frame, buffer, spc, senderVars, file, dataLink, hungUp>>

ReceiverKernel == UnblockAck /\ UNCHANGED <<senderVars, receiverVars>>

ReceiverNext ==
    \/ Receive \/ SendNak \/ DropCorrupted \/ Accept \/ Deliver
    \/ SendAck \/ ReceiverKernel

-----------------------------------------------------------------------------

Harness == (HangUp \/ TrialOver) /\ UNCHANGED <<senderVars, receiverVars>>

Next == SenderNext \/ ReceiverNext \/ Harness

Spec == Init /\ [][Next]_vars

\* The threads are scheduled; a loss probability below one lets a frame that is
\* sent for ever through at some time; and the sender is not for ever so slow that
\* a timer it has just restarted expires before it looks again, so it is the oldest
\* timer's turn at some time.
ResendClean(n) == Resend /\ i = n /\ WriteData(frame_store[n % Sw])
AckClean == SendAck /\ WriteAck([type |-> "ACK", seq |-> Rn])
OldestFirst == Timeout /\ i' = EarliestOf({s \in pending : older[s] = {}})

Fairness ==
    /\ WF_vars(SenderNext) /\ WF_vars(ReceiverNext) /\ WF_vars(Harness)
    /\ \A n \in 0 .. Chunks : SF_vars(ResendClean(n))
    /\ SF_vars(AckClean)
    /\ SF_vars(OldestFirst)

FairSpec == Spec /\ Fairness

-----------------------------------------------------------------------------
(* Properties, beside those of ArqLink.                                    *)

\* Types of the locals, the file and the socket queues.
TypeOK ==
    /\ spc \in {"top", "reading", "nak", "timeout", "done", "killed"}
    /\ rpc \in {"recv", "check", "deliver", "ack", "done"}
    /\ Sf \in SeqNo /\ Sn \in SeqNo /\ Rn \in SeqNo /\ i \in SeqNo
    /\ offset \in 0 .. Chunks
    /\ eotSent \in BOOLEAN /\ nak_sent \in BOOLEAN
    /\ frame_store \in [Slots -> Frame \cup {Unset}]
    /\ pending \subseteq Slots /\ older \in [Slots -> SUBSET Slots]
    /\ frame \in Frame \cup {Corrupt, Unset}
    /\ buffer \in [0 .. NBuf - 1 -> Payload \cup {Unset}]
    /\ LinkTypeOK(Frame, Reply)

\* A marked slot holds the frame its place in the window stands for, and only frames
\* of the window are marked: a slot is never reused before it is delivered.
BufferHoldsWindow ==
    \A s \in 0 .. NBuf - 1 : buffer[s] # Unset =>
        /\ buffer[s] % NBuf = s
        /\ buffer[s] \in Rn .. Rn + Sw - 1

\* The window only ever slides past frames the receiver has delivered, and
\* the receiver never expects a number the sender has not used.
WindowBracketsReceiver == Sf <= Rn /\ Rn <= Sn

\* While the sender is in its main loop every outstanding frame has its copy in the
\* store and a pending timer of its own, so that it can be sent again.
MainLoopKeepsWindow ==
    ~ eotSent => \A k \in Sf .. Sn - 1 :
        /\ frame_store[k % Sw] = [seq |-> k, payload |-> k]
        /\ k % Sw \in pending

\* REPORT.md:5 promises "reliable data transfer over a lossy simulated channel": the
\* sender gets to the end of the file.
MainLoopEnds == <>eotSent
=============================================================================
