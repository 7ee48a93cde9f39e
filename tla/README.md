# A verification project for Network-Lab

The repository holds three networking labs in C. This directory holds TLA+ models of
them, the TLC configurations that check the models on small instances, and proofs
checked by TLAPS. The present state: the three ARQ protocols of lab2 and its timer library,
the CSMA channel of lab3, and the error-detecting codes of lab1 with the two programs that
use them are modelled and checked. The safety of the three protocols, their refinement of the
contract and the absence of mutual blocking, the safety and the refinement of the CSMA channel,
the properties of the timers, that lab1 loses nothing that was not damaged, and what its codes
notice and what they do not are proved for every instance.

## 1. The system

| Part | Source | State it keeps | Operations | Interacts with |
|---|---|---|---|---|
| ARQ sender | `lab2/arq/sender.c` | `Sf`, `Sn`, `offset`, `frame_store`, timers, `g_stats` | `sender_run`, one `sender_*_mode` and one `*_wait*` per protocol | channel, timer library, receiver thread |
| ARQ receiver | `lab2/arq/receiver.c` | `Rn`, `nak_sent`, `buffer`/`marked`, the output file | `receiver_run`, one `receiver_*_mode` per protocol | channel, sender thread |
| Simulated channel | `lab2/channel.c`, `lab1/error_inject/bit_flip.c` | loss and corruption probability, counters (one lock) | `channel_send`, `channel_recv` | a socket pair shared by both threads |
| Timer library | `lab2/timer.c` | one window timer, 65536 frame timers, a running mean of the RTT | start/stop/expired, deadlines, `timer_record_rtt` | sender |
| Trial harness | `lab2/eval/eval_main.c` | the socket pair, two threads | `run_trial`: create, join receiver, close its end, join sender, compare the files | all of the above |
| CSMA channel | `lab3/channel.c`, `protocol.h` | per station: connected, active, start slot, collided, pending result; slot number, medium state, metrics | `channel_serve`, `channel_resolve_slot` | stations over TCP (only test stations exist) |
| Error detection | `lab1/error.c`, `scheme.c` | none | checksum, CRC of several degrees | lab1 programs, ARQ frames |
| lab1 programs | `lab1/sender.c`, `receiver.c` | `seq`, `offset`; `accepted`, `rejected`, the output file | the two main loops: one frame after the other over TCP, nothing is repeated or acknowledged | error detection |
| Error injection | `lab1/error_inject/` | none that lasts | flips and bursts of bits, compensating errors, multiples of the generator | error detection, `channel_send` of lab2 |
| Performance analysis | `lab1/perf_analysis/` | none that lasts | measurements | error detection |
| Helpers | `utils/utils.c` | none | `send_all`, `recv_all`, TCP set-up, `read_file` | everyone |

A lab2 trial is three threads of one process. `run_trial` creates a socket pair and
starts the receiver and the sender on its two ends. It joins the receiver first, then
closes the receiver's end, then joins the sender. Sender and receiver share nothing but
the socket. All loss and corruption happens in `channel_send`, before the frame is
written; what is written is delivered in order.

What is hard in it:

* **Loss, corruption, late ACKs.** A timeout does not tell a lost frame from a lost ACK
  or a slow receiver; duplicates and old ACKs are always possible.
* **Blocking writes.** Both threads write with a blocking `write()` and neither reads
  while it writes.
* **The end of a transfer.** The last ACK may be lost. The receiver ends after it has
  sent it once, and the sender learns of the end from the hang-up, or is killed by it.
* **Shared slots.** `frame_store`, the SR timers and the SR buffer are indexed modulo the
  window or modulo 256; a number must not meet another one in its slot.
* **16-bit numbers compared as ints.**
* **Lock-step slots (lab3).** One slow or wrong station stops the whole medium. Carrier sense
  is one slot old. A collision ends at different times for those in it, a jam may fall on
  the last slot of a frame, and each attempt must get one result.
* **Odd sizes and widths (lab1).** A region of 61 bytes is summed in words of two; a 16-bit sum
  and four widths of CRC share one 32-bit trailer.
* **Time (timer library).** Repeated starts, an RTO that is cut down to whole milliseconds in
  one place only, a mean that survives `timer_init`.

What makes each part correct: the receiver writes every chunk once and in order; a window
slides only past frames that were accepted; the copy that is resent is the frame that is
outstanding; the sender claims completion only after the receiver has accepted the end;
the two threads never wait for each other for ever; a trial ends. For lab3: the counts add
up, every attempt is in one place and gets one result, a frame is delivered only if it had
the medium for itself, every station is released. For lab1: what a code promises to notice
is noticed, and an undamaged chunk is never lost or moved. For the timers: each expires one
RTO after its first start.

`PROJECT.json` lists the hazards at their lines with the properties that cover them.

## 2. The modules

| Module | Models |
|---|---|
| `ReliableTransfer` | The contract of one transfer: deliver the next chunk, end after the last one, report completion only after the end. |
| `ArqLink` | What the protocols share: the two directions of the socket pair, `channel_send`, blocked writes, the hang-up, SIGPIPE, and the properties every protocol owes. |
| `StopAndWait` | `sender_sw_mode`, `sw_wait_for_ack`, `wait_for_ack`, `receiver_sw_mode`. |
| `GoBackN` | `sender_gbn_mode`, `gbn_wait_step`, `receiver_gbn_mode`, the flag of the window timer. |
| `SelectiveRepeat` | `sender_sr_mode`, `sr_wait_step`, `receiver_sr_mode`, the per-frame timers. |
| `MCGoBackN`, `MCSelectiveRepeat` | Window sizes computed as in the code, for TLC. |
| `StopAndWaitProofs`, `GoBackNProofs`, `SelectiveRepeatProofs` | The inductive invariant of each protocol and the theorems. |
| `ArqLinkProofs`, `NumberLemmas` | Lemmas about the link, and about numbers, for the proofs. |
| `Timer`, `MCTimer` | `timer.c` under any sequence of calls. |
| `TimerProofs`, `CsmaChannelProofs` | The inductive invariants and the theorems of those components. |
| `Lab1TransferProofs` | The codes of lab1, the invariant and the theorems of its two programs, and the algebra of damaged frames. |
| `SlottedMedium` | The contract of a shared medium: a frame that had the medium for itself in all its slots is delivered. |
| `CsmaChannel` | `channel_serve`, `channel_resolve_slot`, and the stations of `lab3/tests/channel_test.c` over one connection each. |
| `ErrorDetection` | `error.c` and `scheme.c`: operators on bytes and registers as sets of bits. |
| `ErrorInjection` | The frames of lab1 and the errors of `error_inject/`. |
| `Lab1Transfer`, `MCLab1Transfer` | `sender.c` and `receiver.c` with errors between them. |

`GoBackN` and its siblings extend `ArqLink` and add the locals of the two threads.
`CsmaChannel` instantiates `SlottedMedium` with a refinement mapping. `Lab1Transfer` extends
`ErrorInjection`, which extends `ErrorDetection`.

### State and steps: the protocols of lab2

`spc` and `rpc` say where the two threads are. A step of a thread is one `channel_send`
or one read of a frame, with all the local code up to the next one; a thread never shares
its locals, so nothing can observe it in between. `select()` is the guard of the steps
that follow it: there is something to read, the peer has closed, or there is nothing to
read and the timeout fires. Time is not modelled: a timeout may fire whenever nothing is
readable, which covers every choice of RTO and every speed of the threads.

* A **payload** is the number of its chunk; the empty payload that ends a transmission is
  the number `Chunks`. A **frame** is a record of sequence number and payload.
* **`channel_send`** loses the frame, corrupts it, or keeps it; then it writes. `data` and
  `acks` are the frames in the two socket buffers, at most `Cap` each. With a full buffer
  the frame is put into `dataWrite` or `ackWrite` and the thread makes no step until
  `UnblockData` or `UnblockAck`.
* A **corrupted frame** is the one value `Corrupt`. Both ends of lab2 compute the sum again
  and compare it with all 32 bits of the trailer, so a single flipped bit, in the frame or in
  the trailer, is always noticed (lab1's verifier differs, see section 3). Every receiver treats
  all such frames alike.
* **`HangUp`** closes the receiver's end once the receiver thread is done; what it has not
  read is gone. The sender then either sees end-of-file (`PeerClosed`) or writes:
  `BrokenPipe` ends the process by SIGPIPE, which nobody handles. A write that was
  already blocked when the end closed may also just return an error (`WriteFails`), which
  the callers ignore.
* **SR timers.** Only the order of the send times matters: `pending` is the set of the slots that
  are timed, `older` says for each which ones were started before it. `sr_wait_step` picks the frame before it waits: the oldest, or,
  if several have expired already, the lowest number among them (`EarliestOf`).
* **Statistics, printing, RTT samples, the CSV and the delay** are left out; the SW window
  timer is left out as well, because nothing reads it.

### State and steps: the CSMA channel of lab3

`pc` says which loop of `channel_serve` is running and `turn` at which station it is. A step
reads or writes one message; `EndSlot` is the work between the last read of a slot and the
first tick of the next one, which touches only the channel's own variables. `st`, `metrics`,
`slot`, `prev_state` and `n_connected` are the variables of the code; `acts` stands for both
`acts` and `actions_buf`. `down` and `up` are the two directions of the connections. Of a
frame only its enqueue slot and whether its FCS verifies are kept.

The stations are `run_mock_station` with `decide_contend`, `decide_delay` and
`decide_idle_forever`, joined into one set of possible answers: a station that is not
sending idles, starts (a polite one only after an idle slot) or leaves; one that is sending
transmits or jams until a tick brings its result. More general than the tests: a station may
try again after a result. The stations in `Faulty` may also answer for the wrong slot (Test
14), leave in the middle of a frame, or crash at any time. A message to a station that is
gone vanishes, or raises SIGPIPE, which kills the channel (`BrokenPipe`), or is answered with
an error (`WriteFails`). After an error the channel returns without closing anything (`failed`).

### State and steps: lab1 and the timers

A byte is the set of its bits that are 1, a register of the CRC likewise, so that
exclusive-or is the symmetric difference; the words of the checksum are numbers. `Send`
builds a chunk and computes its FCS, `Receive` reads one frame, possibly after an error has hit
it, and verifies it. `last` keeps the verdict of the step just taken for the properties.
An error is one of those that `eval_main.c` injects between the computation and the
verification of the FCS, or the single flip of lab2's channel. The sender may die between
two frames or within one, the receiver may fail to open its file.

`Timer` has one action per function; the functions that return a value without changing
anything are operators. An operation takes no time; between two of them the client may tarry
or sleep until the earliest deadline. `since` and `sampled` are history variables.

Definitions whose comment begins with *Slip* are small mistakes of the kind the code might
have contained; putting one in the place of the definition that follows it must break a
property (`mutants` in `PROJECT.json`).

## 3. What is checked

### Properties

| Property | Says |
|---|---|
| `OutputIsPrefix` | The output file is a prefix of the input at all times and all of it after the end: no chunk is written twice, skipped or out of order. |
| `CompleteMeansDelivered` | The sender completes only after the receiver accepted the end of transmission. |
| `ImplementsContract` | The protocol implements `ReliableTransfer`; the step-by-step form of the two above. |
| `InStep` (SW) | The parties are at most one frame apart and the bit tells which case it is. |
| `WindowBracketsReceiver` (GBN, SR) | `Sf <= Rn <= Sn`. |
| `MainLoopKeepsWindow` (GBN, SR) | While the window test guards the sends, slot `k % Sw` holds frame `k` for every outstanding `k` (and, in SR, its timer is pending). |
| `BufferHoldsWindow` (SR) | A marked slot of the buffer holds the frame of the window that belongs there. |
| `TimerFollowsWindow` (GBN) | Both timer flags are set exactly while frames are outstanding. |
| `NoMutualBlock` | The threads are never both blocked in a write that needs the other to read. |
| `MetricsAddUp` (lab3) | Attempts = delivered + collided + bad FCS + on the air; every slot counted once; fewer collision events than attempts that have collided. |
| `ThroughputAndDelayAreBounded` (lab3) | Delivered frames had `slot_frame_len` busy slots each; the mean delay lies between a frame's length and the experiment's. |
| `OneResultPerAttempt` (lab3) | The attempt a station waits for is in exactly one of: request, medium, pending result, reply. |
| `PoliteStationsStartTogether` (lab3) | Two stations on the air that both wait for idle began in the same slot. |
| `ImplementsSlottedMedium` (lab3) | The slot protocol implements `SlottedMedium`. |
| `StationsReleased` (lab3) | All stations end, unless an error has ended the experiment. |
| `FileIsReassembled` (lab1) | Every frame sent is on the connection, in the output, or rejected; the output is in order; only damaged frames are rejected or unclean. |
| `DamageIsNoticed` (lab1) | A single flip is noticed anywhere in the frame, except by the checksum in the one trailer byte it does not look at, where it never is (lab1 claims all are); a solid burst of the CRC's degree is noticed, as lab1 claims, and one of a bit more is, which is more than it claims; every CRC notices the compensating error that the checksum does not. |
| `BlindSpots` (lab1) | The checksum accepts every compensating error, a CRC every multiple of its generator; the all-zero blind spot does not exist. |
| `VerdictsAreAlgebraic` (lab1) | The bit-by-bit loops agree with polynomial long division, and with the sum modulo 2^16 - 1. |
| `TimersAreOnTime` (timer) | A timer expires one RTO after its first start; who sleeps until the earliest deadline never oversleeps and wakes less than a millisecond early. |
| `RtoFollowsSamples` (timer) | The adaptive RTO lies between twice the least and twice the largest sample of the process; it is zero before the first. |
| `DeliversTheFile` | The contract with its liveness: the whole file arrives. |
| `TrialEnds` | Both joins return, or the process is killed. |

What the repository says and the code does not do, each refuted by a run:

| Property | Says |
|---|---|
| `ResendsTheWindow` (GBN) | A timeout resends all frames from `Sf` on. |
| `MainLoopEnds` (SR) | The sender does not stay in its main loop for ever. |
| `CompleteMeansDelivered` (GBN, with wrap-around) | As above. |
| `HangUpIsSeenAsEof` | The sender is never killed by the hang-up. |

Deadlock is checked in every passing run; the only states that may stop are those in which a
trial, a transfer or an experiment is over (`TrialOver`, `Over`, `Wait`).

### Runs

| Run | Instance | Shows |
|---|---|---|
| `sw` | 4 chunks, `Cap` 3 | Everything above for Stop-and-Wait, liveness included. |
| `gbn_safety` | 4 chunks, window 3, 8 numbers, `Cap` 4 | Safety with a file longer than the window: the window fills and slides, the end of transmission comes with a full window. |
| `gbn_live` | 2 chunks, window 3, `Cap` 3 | Delivery and termination. |
| `sr_safety` | 4 chunks, window 2, buffer 3, `Cap` 3 | Safety with two windows and reused slots on both sides. |
| `sr_live` | 2 chunks, window 4, buffer 4, `Cap` 2 | Delivery and termination. |
| `csma` | 2 stations, frames of 3 slots, 5 slots, collision detection, one faulty station, one with a frame enqueued at slot 0 | The books, the results, the refinement, the release of the stations. |
| `lab1` | payloads of 12 bytes, a file of 17 bytes, one damaged frame, all five codes | What is noticed and what is not. |
| `timer` | 2 frames, RTO 1.5 ms fixed or 2 ms adaptive, 3 ms, 3 counted calls, 2 samples | Expiry, deadlines, the adaptive RTO. |
| `gbn_eot_overwrite` | as `gbn_safety` | A disagreement, see below. |
| `sr_lost_ack` | 2 chunks, window 1 | A disagreement. |
| `gbn_wrap` | 6 chunks, window 1, 4 numbers | A disagreement. |
| `hangup_sigpipe` | 1 chunk | A disagreement. |

### Bounds, and why they are enough

* `Chunks`: the SW bit and the SR buffer wrap around more than once; the GBN and SR
  safety files are longer than the window, so every slot is reused.
* `Cap` stands for the kernel's socket buffer, about 277 frames of 65 bytes, against
  windows of at most 15. `NoMutualBlock` needs room for a window and the end of
  transmission; with `Cap = Sw` the Go-Back-N threads do block each other. The bound of
  `gbn_safety` is that threshold, the least room for which the property can hold.
* `SeqSpace` stands for 2^16 and is larger than the number of frames (`NoWrap`), except
  in `gbn_wrap`.
* `NBuf` stands for the 256 slots of the SR receiver: any number not below the window.
* No counter of the lab2 protocols is cut off: resending is bounded by the queues.
* `csma`: two stations suffice for a collision, and a frame of three slots has a first, a
  middle and a last one. In five slots a frame can collide and be sent again, two frames
  can overlap in one slot only, and a collision can go on after one party has jammed. All
  sizes of the set of polite stations are initial states. `Faulty` is one station: with
  the other one faulty too nobody would be left to be harmed.
* `lab1`: the real payload is 44 bytes. `PAYLOAD_SIZE` keeps what the arithmetic depends on: an odd
  region (29 bytes) longer than a burst or a generator of 33 bits, and a file with a
  shorter last chunk. With 44 bytes the run shows the same and takes four times as long.
  `Words`, the words of compensating errors, are the first one, those that hold half of the
  length and half of the number, and the last whole word of the payload. `MaxHits` is 1; frames are verified one by one.
* `timer`: one RTO is not a whole number of milliseconds. `MaxTime` is twice the shorter RTO,
  so that a timer can expire, be stopped and started again; `MaxCalls` leaves one start
  besides one for each frame; the mean is exact for up to three samples.


### Fairness

The threads are scheduled (weak fairness of each thread, with the kernel's part, and of
the harness). The loss and corruption probabilities are below one, and the draws are
independent: a frame that is sent again for ever is at some time written intact (strong
fairness of an intact resend of each frame and of an intact ACK). Nothing is assumed of
NAKs or first transmissions. For SR one more assumption: the oldest pending timer is at
some time the one that is served. It fails only if the sender is for ever so slow that a
timer it has just restarted expires before its next turn; then the code favours the
lowest number. In lab3 the channel and the station processes are scheduled (weak fairness
of the channel and of each station, as processes of one machine); nobody has to crash.

The liveness runs use files that fit into one window together with the end of
transmission. The runs `gbn_eot_overwrite` and `sr_lost_ack` show why: with a longer file the code may
stop making progress for ever. The files of the sweep (384 bytes) are 9 chunks
and the end of transmission: they fit into the window of GBN (15), not into that of SR (8);
`eval/run_sweep.sh` runs every trial under a time limit.

### Disagreements between the code and what is said of it

1. **GBN end of transmission** (`sender.c:409`). It is stored without a test of the window.
   With a full window its slot is that of frame `Sf`, and a timeout resends the end of
   transmission in its place. `REPORT.md:95` says the whole window is resent.
2. **SR lost ACK** (`receiver.c:322`). An ACK is sent only after a delivery. If the ACK of a full
   window is lost, every retransmission is a duplicate, which is dropped without an
   answer (one NAK for a number beyond the window, which the sender ignores, apart), and
   the sender stays in its main loop. `REPORT.md:5` promises reliable data transfer.
3. **GBN wrap-around** (`sender.c:422`). After 65536 frames `Sn` is below `Sf`, the window test no
   longer holds the sender back, and the drain loop ends at once. The comment above it
   says it waits for all frames.
4. **Hang-up** (`lab2/eval/eval_main.c:133`). The comment expects the sender to see end-of-file. A
   sender whose timeout has just fired writes first and is killed by SIGPIPE.

Others met while modelling, without a run of their own:

* **SR end of transmission** (`lab2/arq/sender.c:587`). It is sent without a test of the window, too.
  With a full window its copy and its timer are those of frame `Sf`, and the ACK of `Sf` stops the
  timer: the end of transmission is outstanding without one. `REPORT.md:62` says there is
  one timer slot per outstanding frame.
* **Desync in lab3** (`lab3/channel.c:117`). The channel returns -1 and leaves all connections open.
  The station that answered for the wrong slot waits for its next tick, and `tests/channel_test.c`
  waits for that station (line 380) before it asserts the -1 (line 382): Test 14 does not end.
  `StationsReleased` exempts an experiment that an error has ended, for this reason.
* **The last result of an experiment** (`lab3/channel.c:218`). `protocol.h:39` says that a tick carries
  the result of "this station's just-ended attempt". The stop tick carries `RES_NONE`: a frame
  that is complete in the last slot is counted as delivered and its station never told.
  In `OneResultPerAttempt` such a result stays pending at the channel.
* **Single flips under the checksum** (`lab1/scheme.c:63`). `lab1/README.md:104` says that all are
  detected. The verifier takes the lower 16 bits of the trailer, and the sum takes in the
  first byte of the trailer as the end of its last word; a flip in the second byte is in neither
  and the frame is accepted, with header and payload intact. `DamageIsNoticed` says what the
  code does: every flip is noticed but in that byte, and there none is (`Unchecked`).
* **Bursts one bit longer than the degree** (`lab1/error_inject/bit_flip.c:32`). Some are said to be
  missed: 0.39 % with crc8 (`tests/test_burst.c:48`, `QUICKSTART.txt:151`, and 2^-r for the others,
  `eval_main.c:139`). That is the share among all patterns of such bursts; `inject_burst_error` makes
  the one with every bit flipped, and the codes notice it at every place. `DamageIsNoticed`
  says so, against what those lines expect.
* **Jams** (`lab3/channel.c:177`). A jam is counted as a transmission lost to a collision, whether
  or not there was one; `channel.h:23` says "lost to collision".
* **The file of lab1's sender** (`lab1/sender.c:24`). The usage line asks for a file; the program
  always reads `data.txt`. The model's `File` is whatever was read.
* **Two-bit errors** (`lab1/README.md:105`). The checksum is said to detect all of them in
  different words; `BlindSpots` shows that it detects none of the compensating ones.
* **All-zero frame** (`lab1/QUICKSTART.txt:130`). Said to be undetected; the code notices it.
* **Generator multiples** (`lab1/error_inject/eval_main.c:109`). The label expects a CRC to catch all
  of them; it catches none.
* **Bursts up to the degree** (`lab1/README.md:111`). `inject_burst_error` flips every bit of the
  burst, and numbers bits from the least significant one of each byte; the promise of the CRC is
  checked for bursts as long as the degree made in this way, and proved for them. They are not bursts on the line, where the end of the first
  byte, the bytes between and the start of the last one are apart: that the span is wider than the
  degree is why the textbook argument does not cover them. A burst of other patterns in that
  numbering is not one on the line either.
* **Deadlines** (`lab2/timer.c:124`). A fractional RTO is cut down here only, so that a client
  woken for a timer may find it not yet expired, and then gets a deadline of zero until it is.
* **The RTO of lab2** (`lab2/arq/sender.c:125`). 20 ms; `REPORT.md:60` says 100 ms.
* **Adaptive RTO** (`lab2/timer.c:141`). It is what a client waits for; the timers expire by the
  configured RTO all the same. Before the first sample it is zero.

## 4. What is proved

Every theorem holds for all values of the constants that satisfy the assumptions named
beside them in the modules (`Chunks`, `Cap`, `Sw`, `SeqSpace`, `NBuf`, the number of stations, the
frame length, the set of faulty stations, the configurations, the clock rate, ...). That `Corrupt`
and `Idle` differ from frames is not needed; of `Unset` only that it is no payload
(`UnsetAssumption`).

| | Stop-and-Wait | Go-Back-N | Selective Repeat |
|---|---|---|---|
| Module | `StopAndWaitProofs` | `GoBackNProofs` | `SelectiveRepeatProofs` |
| Under | nothing more | `NoWrap` | `NoWrap` |
| `[]IInv` | `Invariance` | `Invariance` | `Invariance` |
| `[]TypeOK` | `TypeCorrect` | `TypeCorrect` | `TypeCorrect` |
| `[]OutputIsPrefix` | `FileSafe` | `FileSafe` | `FileSafe` |
| `[]CompleteMeansDelivered` | `CompletionSafe` | `CompletionSafe` | `CompletionSafe` |
| `ImplementsContract` | `Refinement` | `Refinement` | `Refinement` |
| how far apart the parties are | `StepSafe` (`InStep`) | `WindowSafe` (`WindowBracketsReceiver`) | `WindowSafe` |
| the copies that are resent | (one frame, rebuilt) | `StoreSafe` (`MainLoopKeepsWindow`) | `StoreSafe` |
| its own | | `TimerSafe` (`TimerFollowsWindow`) | `BufferSafe` (`BufferHoldsWindow`) |
| `[]NoMutualBlock` | `NoBlock`, any `Cap` | `NoBlock`, `Cap > Sw` | `NoBlock`, `Cap > 3 * Sw + 5` |

| Module | Theorem | Property |
|---|---|---|
| `CsmaChannelProofs` | `Invariance` | `[]IInv` |
| | `TypeCorrect` | `[]TypeOK` |
| | `MetricsSafe` | `[]MetricsAddUp` |
| | `BoundsSafe` | `[]ThroughputAndDelayAreBounded` |
| | `PoliteSafe` | `[]PoliteStationsStartTogether` |
| | `OneResult` | `[]OneResultPerAttempt` |
| | `Refinement` | `ImplementsSlottedMedium` |
| `TimerProofs` | `Invariance` | `[]IInv` |
| | `TimersOnTime` | `[]TimersAreOnTime` |
| | `RtoSafe` | `[]RtoFollowsSamples` |
| `Lab1TransferProofs` | `UndamagedVerifies` | (an undamaged frame verifies) |
| | `Invariance` | `[]IInv` |
| | `TypeCorrect` | `[]TypeOK` |
| | `FileReassembled` | `[]FileIsReassembled` |
| | `CrcIsLinear`, `CrcDivides`, `CrcVerdict` | (a CRC is a long division of the error) |
| | `ChecksumVerdict`, `ChecksumOfDamaged`, `ChecksumOfTrailer` | (the checksum is a sum modulo 65535) |
| | `BurstLeavesRest` | (no burst is a multiple of its generator) |
| | `LastIsGood` | `[](IInv /\ LastOK)` |
| | `VerdictsAlgebraic` | `[]VerdictsAreAlgebraic` |
| | `PairLeavesRest` | (no two flips in one column are a multiple of a generator, up to `PAYLOAD_SIZE` 44) |
| | `FlipsAndBurstsNoticed` | `[]` of the first two parts of `DamageIsNoticed`, any `PAYLOAD_SIZE` |
| | `DamageNoticed` | `[]DamageIsNoticed`, `PAYLOAD_SIZE` up to 44 |
| | `BlindSpotsRemain` | `[]BlindSpots` |

`NumberLemmas` has the facts about numbers that the others cite: a nonempty set of naturals has a
least element; two numbers less than `N` apart differ modulo `N`; induction up to a number and, from
it, that a function given by its first value and its steps exists. `ArqLinkProofs` has what every protocol needs of
the link: what `channel_send`, a blocked write and the hang-up do to the queues, to what
is in them and to their lengths.

### The arguments

**Stop-and-Wait.** One bit must tell a new frame from a copy of the last one. `FramesOK`: the
frames on the link are copies of the current one, or left from the one before; the latter come
first, and once the current frame is accepted there are none. `AcksOK` says the same of the
ACKs in the other direction. That is why a stale bit never passes for a fresh one: the link
keeps the order, and of two generations on it the older is in front.

**Go-Back-N.** None of the properties is inductive alone: that `Rn` never passes `Sn` needs to
know which frames are on the link, that `Sf` never passes `Rn` which ACKs are. `IInv` has a
conjunct for each: `FramesOK` (every intact frame in the queue, in the blocked write and in
the store is a copy of a frame numbered below `Sn`, and frame `k` carries chunk `k`),
`AcksOK` (no ACK on its way is ahead of `Rn`), `CountersOK` (`Sn` counts what was sent, and
`Sf <= Rn <= Sn`), `FileOK` (`Rn` alone determines the output file), `EndOK` (nobody ends
before the end of transmission is accepted) and `TimersOK`. The copies in the
store may be of the wrong frame after the end of transmission (the first disagreement
above), yet they are copies of some frame that was sent, which is why safety survives.
`StoreOK` is a second invariant on top of `IInv`.

**Selective Repeat.** The same conjuncts, with `RepliesOK` for ACKs and NAKs, and three more. `BufferOK`: a
marked slot holds the chunk of the window that belongs there; it rests on `NBuf >= Sw`,
so that a number has been delivered and its slot cleared before the number that shares
the slot can enter the window. `TimersOK`: only slots of outstanding frames are timed, so that the search of
`EarliestOf` finds a number. `WindowOK`: in the main loop the window is at most `Sw` and
every outstanding frame has its copy and its timer.

`NoWrap` says that every chunk and the end of transmission have a number of their own. It is
needed: `gbn_wrap` violates `CompleteMeansDelivered` without it.

**No mutual blocking.** Both threads are blocked only if both buffers are full, `2 * Cap + 2` frames
with the two that wait. So it is enough to bound `InFlight`, the frames and replies that
are on their way or that the receiver may still answer with. A frame the receiver reads is
replaced by at most one ACK (in Stop-and-Wait and Go-Back-N), so only the sender adds to
it; and the sender goes back to its loop, or times out, only with nothing left to read, that is, when
one direction is empty. From there it adds one resend, or one window and the end of
transmission. In Selective Repeat a frame can be worth several replies: a
retransmission that closes a gap releases an ACK for each buffered frame, and after each delivery
a NAK may be sent again. `InFlight` counts two replies for each frame not yet delivered, and
the bound becomes three windows and six frames. That threshold is sufficient, not known to be the
least (`sr_safety` finds no block with less); with the real 277 frames and windows of at most 8 and 15 every one is met. For
Go-Back-N the threshold is the least: with `Cap = Sw` the threads do block each other.

**CSMA channel.** Everything rests on the lock-step. `channel_serve` is at one station in one of its
loops, and that says of every other station how far the exchange of the slot has come: what is
in its two connections and what it may say (`StationOK`). A crash, an answer for the wrong
slot and a station that leaves in the middle of a frame are all part of it. `MediumOK`
then says what a slot leaves behind: who is on the air started less than a frame ago, nobody is if
the last slot was idle, and more than one only if the last slot was a collision, in which case all are
marked. From it follow the books (`MetricsAddUp`), the bounds, the carrier sense, and, attempt by attempt,
`OneResultPerAttempt`. For the refinement, `EndSlot` is the one step that is a slot of
`SlottedMedium`; all others leave the mapped state as it is.

**Timers.** `since`, the history, says when a timer was first started; the invariant is that each
timer runs exactly while it is set and from that moment on (`FrameOK`, `WindowOK`), and that a
client which has just slept until a deadline is not past any timer (`NotTooLate`). The
deadline is that of the oldest timer cut down to whole milliseconds (`FirstDeadline`), hence never
above what the most urgent timer has left and less than a millisecond below (`DeadlineIsClose`). For the mean,
`MeanOK` names two samples that bound the others and the mean; a new sample replaces one of
them or neither.

**lab1.** First the codes. That a recursive function takes the values its definition says must
be shown for each: a function with those values exists (`Recursion`), so the one that is
chosen has them. For a CRC the rest is short: the receiver computes it again (`CrcIsLocal`), and
a register of at most 32 bits survives `htonl` and back (`FcsSurvives`), whatever the degree. For the
checksum the sums stay below 2^16 under the end-around carry (`SumsExist`), the bits of a number
add up to the number (`BitsOfNumber`), the sum and its complement give 65535, and the trailer byte that
a region of odd length draws into its last word is zero before and after the FCS is
stored (`ChecksumVerifies`): the stored sum has 16 bits, the first byte of the trailer holds the upper
ones. Together: `UndamagedVerifies`. Then the programs. `WireOK` says that the connection holds
the frames that follow those handled, each sealed by the sender, and that only a sender that was
killed leaves half a frame behind them; `OutputOK` that the output is in order; `CountOK` that what
was rejected or altered was hit. The step that matters is `Receive`: a frame that was not hit
verifies, hence is written as it was sent.

**lab1, what the codes notice.** `LastOK` says that a message just verified is one of the sender's,
with one of the errors or none, and that the verdict is `Verdict`, the one of `verify_fcs`. It is
inductive relative to `IInv`. The rest is about single frames.

A CRC. A step of the register is linear (`StepLinear`), so the CRC of a damaged region is that of
the sent one plus that of the error (`CrcIsLinear`), and the frame is accepted exactly if the error
in the region and the one in the trailer make the same difference (`CrcOfDamaged`). A step depends on
the bits below the degree only and makes nothing of nothing only, because the generators have a constant
term (`StepLow`): it is a multiplication by x modulo the generator, `Times`. `Power` is the residue
of a power of x, `Residue` the sum of those of a polynomial; long division computes it
(`RemainderIs`), and so does the loop over the bytes, from the first, highest one on (`CrcDivides`). So a power of
x, that is, one flip, leaves a residue, and the generator laid over the frame leaves none
(`FlipLeavesRest`, `MultipleLeavesNothing`). A solid burst times x + 1 telescopes: of each of its three
parts only the two ends are left, six powers in all, none above 40 when the shift to the end of the burst is
divided out (`PowersOfBurst`, `BurstResidue`). For each generator the residues of these powers are
computed (`Crc8Powers`, ...), and a few bits of the register suffice to tell, for every place in a byte where the
burst can begin, that the six do not cancel: for crc16 the top bit alone, for crc32 bits 1 and 22
(`Crc8Bursts`, ...).

A compensating error under a CRC is two bits `k` words apart, x^0 + x^16k when the lower one is divided
out, and passes only if x^16k leaves the residue 1. Squaring is linear modulo 2, and the square of each
generator is a multiple of it (`Crc8Square`, ...), so the residue of x^2n is the square of that of x^n
(`SquareLaw`). No generator has a square factor: a residue whose square is 1 is 1, as the bits of odd number that
its upper half leaves when it is squared are linearly independent, which is a system of 4, 5, 8 and 16
equations for the four generators (`Crc8Root`, ...). So if x^16k leaves 1, x^k does (`RootOfOne`), and that is not so for the distances
1 to 29 that fit into a frame (`FirstPowers`, `WordsApart`). The bound is not a weakness of the proof: x^127
leaves 1 with crc8, so with payloads of at least 239 bytes two words 127 apart could be flipped without
notice. `frame.h` has 44.

The checksum. A sum with its end-around carries differs from the plain sum by a multiple of 65535 and
is zero only if that is (`Folded`, `SumIsFolded`); a frame always has the bytes of its source address, so two flips cannot
make all its words zero (`WordsRemain`). A flipped bit adds its weight to the plain sum or takes it away
(`TotalFlip`), at least 1 and at most 2^15, and two opposite flips of equal weight cancel
(`ChecksumOfDamaged`). A flip in the trailer is a flip in the last word, in the 16 bits of the sum, or
in the bytes between, which change neither (`TrailerFlip`, `TotalKept`, `ChecksumOfTrailer`): one byte
if the region is of odd length, two if it is even. The all-zero array ends with a word of at most 255, and that
sum is never 65535 (`NoAllZeroBlindSpot`).

### What changed in the models for the proofs

The pending timers of `SelectiveRepeat` are a set, with for each timer those that are older; a
sequence said the same but needed an induction to say so. `CsmaChannel` names the two sums it takes
(`TotalDelay`, `TotalAge`). `Timer` states that a frame number is a `uint16_t`. In lab1,
`DivideSteps` and `CompensatingErrors` take pairs and triples instead of several arguments,
`FileIsReassembled` counts the frames in the connection as a set, and `Lab1Transfer` states that
`MaxHits` is a number and that half a frame is not a frame. `WordsOf` took in one word too many for
a region of even length, which no run has; the proof that it is the sum which the code folds
failed there.

### What is only model-checked

* **Liveness** (`DeliversTheFile`, `TrialEnds`, `StationsReleased`): out of the prover's reach.
* The least `Cap` for Selective Repeat.
* The four disagreements of section 3, which TLC shows by a counterexample.

## 5. Plan

1. Done: `ReliableTransfer`, `ArqLink`, the three protocols, `GoBackNProofs`.
2. Done: `SlottedMedium` and `CsmaChannel`; `ErrorDetection`, `ErrorInjection` and
   `Lab1Transfer`; `Timer`.
3. Done, proofs: the three protocols, the absence of mutual blocking, `CsmaChannel` with its
   refinement, `Timer`, and of lab1 `FileIsReassembled`, `TypeOK` and what the codes make of damage.
4. The start of a trial: a sender that fails before it sends.

## 6. Not modelled, and why

The performance analysis and the counting loops of the error injection are sequential
programs that keep no state worth a state machine. TCP set-up and files are plain I/O.
Statistics and the CSV have no effect on a transfer. The delay of lab2's channel is zero in
every trial and would only slow a thread down, which the interleaving covers. A window above 256
frames overruns the arrays of the code; no caller asks for one, and the model has exactly
the slots it indexes. In lab3, stations that fall silent during a frame, claim a later
enqueue slot, or run an experiment without slots do not occur in the repository. The
start of a trial in which a thread fails at once is not modelled yet.

Of the modules themselves the following is left out. In lab1 an error of `recv_all`
(`receiver.c:54`) ends the loop as the end of the connection does. A frame that is accepted with a
damaged length is written with that length, beyond the payload if it is longer (`receiver.c:66`);
that is undefined behaviour, and the model only says that the chunk is not clean. The CRC of
degree 32 shifts a promoted byte by 24 bits (`error.c:36`), undefined from 0x80 on; the model takes
the outcome of the usual build. In lab3, `tcp_accept` may fail for reasons of the
kernel, without a station that is gone; the channel then returns as in `WriteFails`. In Selective
Repeat, the moment at which a timer has exactly nothing left when `select()` is set up is not told
apart from the moment after it.
