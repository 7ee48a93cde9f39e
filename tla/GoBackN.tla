------------------------------ MODULE GoBackN -------------------------------
(***************************************************************************)
(* One Go-Back-N transfer of lab2: sender_gbn_mode and gbn_wait_step       *)
(* (arq/sender.c), and receiver_gbn_mode (arq/receiver.c).                 *)
(*                                                                         *)
(* Sequence numbers are uint16_t in the code; here they are modulo         *)
(* SeqSpace, and comparisons are the code's comparisons of ints.           *)
(***************************************************************************)
EXTENDS ArqLink

CONSTANTS
    Sw,         \* window size of the sender, 2^window_size - 1 in the code
    SeqSpace,   \* number of sequence numbers, 2^16 in the code
    Unset       \* what a slot of frame_store holds before it is first written

ASSUME SwAssumption == Sw \in Nat \ {0}
ASSUME SeqSpaceAssumption == SeqSpace \in Nat \ {0, 1}

\* The transfer uses fewer sequence numbers than there are: every chunk and the
\* end of transmission have a number of their own.  QUICKSTART.md counts on it.
NoWrap == Chunks + 1 < SeqSpace

SeqNo == 0 .. SeqSpace - 1
Slots == 0 .. Sw - 1
Frame == [seq : SeqNo, payload : Payload]

VARIABLES
    Sf,             \* sender: first outstanding sequence number
    Sn,             \* sender: next sequence number
    offset,         \* sender: chunks of the file sent so far
    eotSent,        \* sender: past the end of the main loop
    frame_store,    \* sender: copies kept for retransmission
    i,              \* sender: index of the retransmission loop
    timer_running,  \* sender: its own flag
    window_timer,   \* timer.c: the window timer is active
    Rn              \* receiver: next expected sequence number

progress == <<Sn, offset, eotSent, frame_store>>
timers   == <<timer_running, window_timer>>
senderVars == <<Sf, progress, i, timers>>
vars == <<linkVars, senderVars, Rn>>

Init ==
    /\ spc = "top"
    /\ Sf = 0 /\ Sn = 0 /\ offset = 0
    /\ eotSent = FALSE
    /\ frame_store = [s \in Slots |-> Unset]
    /\ i = 0
    /\ timer_running = FALSE /\ window_timer = FALSE
    /\ rpc = "recv" /\ Rn = 0
    /\ LinkInit

-----------------------------------------------------------------------------
(* The sender.                                                             *)

\* Slip: one frame too many.
WindowFullOffByOne == Sn - Sf > Sw
WindowFull == Sn - Sf >= Sw

\* Keep a copy of the frame with number Sn, send it, start the timer unless it runs.
SendNext(payload) ==
    LET frame == [seq |-> Sn, payload |-> payload] IN
    /\ SenderAt("top")
    /\ frame_store' = [frame_store EXCEPT ![Sn % Sw] = frame]
    /\ ChannelSendData(frame)
    /\ Sn' = (Sn + 1) % SeqSpace
    /\ timer_running' = TRUE
    /\ window_timer' = (window_timer \/ ~ timer_running)
    /\ UNCHANGED <<spc, Sf, i, rpc, Rn, file, ackLink, hungUp>>

\* The conditions of the main loop.  Slip: one turn too many.
MoreToSendOffByOne == offset <= Chunks
MoreToSend == offset < Chunks

\* The main loop sends a chunk as long as the window is open.
SendData ==
    /\ MoreToSend /\ ~ WindowFull
    /\ SendNext(offset)
    /\ offset' = offset + 1
    /\ UNCHANGED eotSent

\* After the last chunk: no test of the window before this send.
SendEot ==
    /\ ~ MoreToSend /\ ~ eotSent
    /\ SendNext(Eot)
    /\ eotSent' = TRUE
    /\ UNCHANGED offset

\* The condition of the drain loop.  Slip: the last frame is not waited for.
OutstandingOffByOne == Sf < Sn - 1
Outstanding == Sf < Sn

\* The sender is inside select(): the window is full, or all is sent and the
\* drain loop waits for the outstanding acknowledgements.
InSelect ==
    /\ SenderAt("top")
    /\ \/ MoreToSend /\ WindowFull
       \/ eotSent /\ Outstanding

\* The ACKs that slide the window.
SlidingAck(ackNo) == ackNo # Corrupt /\ ackNo > Sf /\ ackNo <= Sn

\* Slip: the ACK taken for the number of the last frame received.
AfterLastReceived(ackNo) == IF ackNo < Sn THEN ackNo + 1 ELSE ackNo
FirstUnacked(ackNo) == ackNo

\* Slip: every ACK stops the timer.
AlwaysStop == TRUE
WindowEmpty == Sf' = Sn

\* One turn of the do-while that drains every ACK that is waiting.
ReadAck ==
    /\ InSelect \/ SenderAt("reading")
    /\ acks # << >>
    /\ acks' = Tail(acks)
    /\ spc' = "reading"
    /\ IF SlidingAck(Head(acks))
         THEN /\ Sf' = FirstUnacked(Head(acks))
              /\ timer_running' = (timer_running /\ ~ WindowEmpty)
              /\ window_timer' = (window_timer /\ ~ WindowEmpty)
         ELSE UNCHANGED <<Sf, timers>>
    /\ UNCHANGED <<progress, i, rpc, Rn, file, dataLink, ackWrite, hungUp>>

\* fd_readable_now says no: back to the loop that called gbn_wait_step.
StopReading ==
    /\ SenderAt("reading")
    /\ NothingToRead
    /\ spc' = "top"
    /\ UNCHANGED <<senderVars, rpc, Rn, file, dataLink, ackLink, hungUp>>

\* recv returns 0: both loops end and sender_gbn_mode returns 0.
\* Slip: only when it happens while draining.
ReadableWhileReading == SenderAt("reading")
Readable == InSelect \/ SenderAt("reading")

PeerClosed ==
    /\ Readable
    /\ AtEof
    /\ spc' = "done"
    /\ UNCHANGED <<senderVars, rpc, Rn, file, dataLink, ackLink, hungUp>>

\* Slip: the window is resent without its first frame.
ResendFromSecond == Sf + 1
ResendFrom == Sf

\* select() times out: start to resend [Sf, Sn).
\* Slip: the timeout taken although ACKs are waiting.
TimeoutBeforeReading ==
    /\ InSelect /\ ~ hungUp
    /\ spc' = "resend"
    /\ i' = ResendFrom
    /\ UNCHANGED <<Sf, progress, timers, rpc, Rn, file, dataLink, ackLink, hungUp>>
Timeout ==
    /\ InSelect /\ NothingToRead
    /\ spc' = "resend"
    /\ i' = ResendFrom
    /\ UNCHANGED <<Sf, progress, timers, rpc, Rn, file, dataLink, ackLink, hungUp>>

\* One frame of the window is sent again.
Resend ==
    /\ SenderAt("resend") /\ i < Sn
    /\ ChannelSendData(frame_store[i % Sw])
    /\ i' = i + 1
    /\ UNCHANGED <<spc, Sf, progress, timers, rpc, Rn, file, ackLink, hungUp>>

\* The whole window is resent; the window timer is started if it is stopped.
ResendDone ==
    /\ SenderAt("resend") /\ ~ (i < Sn)
    /\ spc' = "top"
    /\ i' = 0
    /\ window_timer' = TRUE
    /\ UNCHANGED <<Sf, progress, timer_running, rpc, Rn, file,
                   dataLink, ackLink, hungUp>>

\* The drain loop finds nothing outstanding.
DrainDone ==
    /\ SenderAt("top")
    /\ eotSent /\ ~ Outstanding
    /\ spc' = "done"
    /\ UNCHANGED <<senderVars, rpc, Rn, file, dataLink, ackLink, hungUp>>

\* The sender is about to call channel_send.
AboutToSend ==
    \/ spc = "top" /\ IF MoreToSend THEN ~ WindowFull ELSE ~ eotSent
    \/ spc = "resend" /\ i < Sn

SenderKernel ==
    /\ UnblockData \/ WriteFails \/ BrokenPipe(AboutToSend)
    /\ UNCHANGED <<senderVars, Rn>>

SenderNext ==
    \/ SendData \/ SendEot
    \/ ReadAck \/ StopReading \/ PeerClosed
    \/ Timeout \/ Resend \/ ResendDone
    \/ DrainDone \/ SenderKernel

-----------------------------------------------------------------------------
(* The receiver.                                                           *)

\* Slip: any intact frame is delivered.
AnyFrame(frame) == frame # Corrupt
Expected(frame) == frame # Corrupt /\ frame.seq = Rn

\* Read a frame, verify it, deliver it if it is the expected one.
Receive ==
    /\ ReceiverAt("recv")
    /\ data # << >>
    /\ data' = Tail(data)
    /\ rpc' = "ack"
    /\ IF Expected(Head(data))
         THEN WritePayload(Head(data).payload) /\ Rn' = (Rn + 1) % SeqSpace
         ELSE UNCHANGED <<file, Rn>>
    /\ UNCHANGED <<spc, senderVars, dataWrite, ackLink, hungUp>>

\* Every frame, good or bad, is answered with the cumulative ACK; the loop ends
\* after the ACK of the end of transmission.
SendAck ==
    /\ ReceiverAt("ack")
    /\ ChannelSendAck(Rn)
    /\ rpc' = IF eot THEN "done" ELSE "recv"
    /\ UNCHANGED <<spc, senderVars, Rn, file, dataLink, hungUp>>

ReceiverKernel == UnblockAck /\ UNCHANGED <<senderVars, Rn>>

ReceiverNext == Receive \/ SendAck \/ ReceiverKernel

-----------------------------------------------------------------------------

Harness == (HangUp \/ TrialOver) /\ UNCHANGED <<senderVars, Rn>>

Next == SenderNext \/ ReceiverNext \/ Harness

Spec == Init /\ [][Next]_vars

\* The threads are scheduled, and a loss probability below one lets a frame that
\* is resent for ever through at some time.
ResendClean(n) == Resend /\ i = n /\ WriteData(frame_store[n % Sw])
AckClean == SendAck /\ WriteAck(Rn)

Fairness ==
    /\ WF_vars(SenderNext) /\ WF_vars(ReceiverNext) /\ WF_vars(Harness)
    /\ \A n \in 0 .. Chunks : SF_vars(ResendClean(n))
    /\ SF_vars(AckClean)

FairSpec == Spec /\ Fairness

-----------------------------------------------------------------------------
(* Properties, beside those of ArqLink.                                    *)

\* Types of the locals, the file and the socket queues.
TypeOK ==
    /\ spc \in {"top", "reading", "resend", "done", "killed"}
    /\ rpc \in {"recv", "ack", "done"}
    /\ Sf \in SeqNo /\ Sn \in SeqNo /\ Rn \in SeqNo /\ i \in SeqNo
    /\ offset \in 0 .. Chunks
    /\ eotSent \in BOOLEAN
    /\ frame_store \in [Slots -> Frame \cup {Unset}]
    /\ timer_running \in BOOLEAN /\ window_timer \in BOOLEAN
    /\ LinkTypeOK(Frame, SeqNo)

\* The window only ever slides past frames the receiver has accepted, and
\* the receiver never expects a number the sender has not used.
WindowBracketsReceiver == Sf <= Rn /\ Rn <= Sn

\* REPORT.md:95, "On timeout: resend entire window [Sf, Sn)": slot k % Sw still
\* holds frame number k for every k in [Sf, Sn).
ResendsTheWindow ==
    \A k \in Sf .. Sn - 1 :
        frame_store[k % Sw] = [seq |-> k, payload |-> k]

\* The same while the sender is still in its main loop, where the test of the
\* window guards every write to the store.
MainLoopKeepsWindow == ~ eotSent => ResendsTheWindow

\* The timer flag follows the window: it is set exactly while frames are
\* outstanding, and the window timer of timer.c agrees with it.
TimerFollowsWindow ==
    /\ timer_running <=> Sf # Sn
    /\ window_timer <=> timer_running
=============================================================================
