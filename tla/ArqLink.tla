------------------------------ MODULE ArqLink -------------------------------
(***************************************************************************)
(* What the three ARQ modes of lab2 share: the simulated link of           *)
(* lab2/channel.c over one AF_UNIX stream socket pair, the output file,    *)
(* and the harness thread of run_trial (eval/eval_main.c), which hangs up  *)
(* the receiver's end once the receiver thread has returned.               *)
(*                                                                         *)
(* Each direction of the socket pair is a FIFO of whole frames, bounded by *)
(* the kernel's socket buffer.  channel_send flips its coins first: the    *)
(* frame is lost, or one bit of it is flipped, or it stays as it is.  Then *)
(* it writes, and blocks while the buffer is full.  A flipped bit changes  *)
(* the 16-bit checksum of the frame or one of the 32 bits of the stored    *)
(* one, and the receiving handlers of lab2 compare all 32 bits: it is      *)
(* always noticed.  They treat all frames whose checksum differs alike, so *)
(* a corrupted frame is the single value Corrupt.                          *)
(*                                                                         *)
(* Every channel_send and every read of a frame is a step of its own; the  *)
(* code between two of them touches only the locals of its thread.         *)
(***************************************************************************)
EXTENDS Integers, Sequences

CONSTANTS
    Chunks,     \* number of non-empty payloads of the input file
    Cap,        \* frames one direction of the socket buffers before write() blocks
    Corrupt,    \* a frame whose FCS does not verify
    Idle        \* no write() of this thread is blocked

ASSUME ChunksAssumption == Chunks \in Nat
ASSUME CapAssumption == Cap \in Nat \ {0}

VARIABLES
    spc,        \* where the sender thread is
    rpc,        \* where the receiver thread is
    output,     \* the payloads written to the output file
    eot,        \* the end-of-transmission frame has been accepted
    data,       \* frames in flight from the sender to the receiver
    dataWrite,  \* the frame the sender's blocked write() holds, or Idle
    acks,       \* frames in flight from the receiver to the sender
    ackWrite,   \* the frame the receiver's blocked write() holds, or Idle
    hungUp      \* the harness has closed the receiver's end

file     == <<output, eot>>
dataLink == <<data, dataWrite>>
ackLink  == <<acks, ackWrite>>
linkVars == <<spc, rpc, file, dataLink, ackLink, hungUp>>

LinkInit ==
    /\ output = << >> /\ eot = FALSE
    /\ data = << >> /\ dataWrite = Idle
    /\ acks = << >> /\ ackWrite = Idle
    /\ hungUp = FALSE

\* A thread is at pc, and not inside a blocked write().
SenderAt(pc)   == spc = pc /\ dataWrite = Idle
ReceiverAt(pc) == rpc = pc /\ ackWrite = Idle

\* A payload is the number of its chunk of the file; the zero-length payload
\* that ends the transmission is the number after the last chunk.
Eot == Chunks
Payload == 0 .. Chunks

\* fwrite of a payload; an empty one marks the end of the transmission.
WritePayload(payload) ==
    IF payload = Eot
      THEN eot' = TRUE /\ UNCHANGED output
      ELSE output' = Append(output, payload) /\ UNCHANGED eot

-----------------------------------------------------------------------------
(* channel_send on either end.                                             *)

\* send_all on the sender's end: into the buffer, or blocked when it is full.
\* Nothing is written to an end that has been closed (see BrokenPipe).
WriteData(frame) ==
    /\ ~ hungUp
    /\ IF Len(data) < Cap
         THEN data' = Append(data, frame) /\ UNCHANGED dataWrite
         ELSE dataWrite' = frame /\ UNCHANGED data

ChannelSendData(frame) ==
    \/ UNCHANGED dataLink                                \* lost
    \/ \E copy \in {frame, Corrupt} : WriteData(copy)    \* intact or corrupted

\* send_all on the receiver's end.  The sender's end stays open until both
\* threads are joined, so this write never fails.
WriteAck(frame) ==
    IF Len(acks) < Cap
      THEN acks' = Append(acks, frame) /\ UNCHANGED ackWrite
      ELSE ackWrite' = frame /\ UNCHANGED acks

ChannelSendAck(frame) ==
    \/ UNCHANGED ackLink
    \/ \E copy \in {frame, Corrupt} : WriteAck(copy)

\* What select() tells the sender.
NothingToRead == acks = << >> /\ ~ hungUp
AtEof         == acks = << >> /\ hungUp

-----------------------------------------------------------------------------
(* Steps of the kernel and of the harness; the locals of the ARQ mode do   *)
(* not change.                                                             *)

\* A blocked write() finds room.
UnblockData ==
    /\ dataWrite # Idle /\ ~ hungUp
    /\ Len(data) < Cap
    /\ data' = Append(data, dataWrite)
    /\ dataWrite' = Idle
    /\ UNCHANGED <<spc, rpc, file, ackLink, hungUp>>

UnblockAck ==
    /\ ackWrite # Idle
    /\ Len(acks) < Cap
    /\ acks' = Append(acks, ackWrite)
    /\ ackWrite' = Idle
    /\ UNCHANGED <<spc, rpc, file, dataLink, hungUp>>

\* The sender's write() was blocked when the receiver's end was closed: it is
\* woken up and returns an error, which the callers of channel_send ignore.
WriteFails ==
    /\ dataWrite # Idle /\ hungUp
    /\ dataWrite' = Idle
    /\ UNCHANGED <<spc, rpc, file, data, ackLink, hungUp>>

\* A write after the hang-up raises SIGPIPE, which nothing handles: the whole
\* process, sender and harness, is gone.
BrokenPipe(aboutToSend) ==
    /\ hungUp
    /\ aboutToSend \/ dataWrite # Idle
    /\ spc' = "killed"
    /\ dataWrite' = Idle
    /\ UNCHANGED <<rpc, file, data, ackLink, hungUp>>

\* pthread_join(receiver) has returned: close(fds[1]).  What the receiver has not
\* read is discarded; what it has sent can still be read.
HangUp ==
    /\ ReceiverAt("done")
    /\ ~ hungUp
    /\ hungUp' = TRUE
    /\ data' = << >>
    /\ UNCHANGED <<spc, rpc, file, dataWrite, ackLink>>

\* The trial is over: both threads joined, or the process killed.
TrialOver ==
    /\ hungUp
    /\ spc \in {"done", "killed"}
    /\ UNCHANGED linkVars

-----------------------------------------------------------------------------
(* What every mode promises.                                               *)

LinkTypeOK(Frame, Reply) ==
    /\ output \in Seq(Payload) /\ eot \in BOOLEAN
    /\ data \in Seq(Frame \cup {Corrupt})
    /\ dataWrite \in Frame \cup {Corrupt, Idle}
    /\ acks \in Seq(Reply \cup {Corrupt})
    /\ ackWrite \in Reply \cup {Corrupt, Idle}
    /\ hungUp \in BOOLEAN

\* The content of the output file after the first n chunks.
FilePrefix(n) == [k \in 1 .. n |-> k - 1]

\* The output file is at all times a prefix of the input file, whatever is
\* lost, corrupted or resent, and it is the whole file when the receiver ends:
\* the receiver writes every chunk once and in order.
OutputIsPrefix ==
    /\ output = FilePrefix(Len(output))
    /\ eot => Len(output) = Chunks

\* sender_run prints "Transfer complete!" only when the receiver has accepted the
\* end of the transmission, whether the last ACK or the hang-up told it so.
CompleteMeansDelivered == spc = "done" => eot

\* The two threads never block each other, each in a write() that waits for the
\* other one to read.
NoMutualBlock ==
    ~ ( /\ dataWrite # Idle /\ Len(data) = Cap /\ ~ hungUp
        /\ ackWrite # Idle /\ Len(acks) = Cap )

Contract == INSTANCE ReliableTransfer WITH
                ended <- eot,
                complete <- (spc = "done")

\* The transfer implements the contract of lab2 ...
ImplementsContract == Contract!Spec

\* ... and, where the fairness is assumed, the whole file does arrive.
DeliversTheFile == Contract!FairSpec

\* Every trial comes to an end: run_trial's two joins return, or the process dies.
TrialEnds == <>(spc \in {"done", "killed"} /\ hungUp)

\* eval_main.c:133 says of the hang-up: "Close its socket end so the sender sees
\* EOF and stops waiting for a final ACK that may be lost."  A sender that is
\* resending at that moment writes to the closed socket instead.
HangUpIsSeenAsEof == spc # "killed"
=============================================================================
