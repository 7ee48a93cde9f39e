---------------------------- MODULE CsmaChannel -----------------------------
(***************************************************************************)
(* The CSMA medium of lab3: channel_serve (channel.c) and the stations of  *)
(* its tests (tests/channel_test.c), in lock-step over one TCP connection  *)
(* each.                                                                   *)
(*                                                                         *)
(* The channel accepts all stations, then runs slot after slot: it sends   *)
(* every connected station a tick (what the medium was in the slot before, *)
(* and the result of the station's attempt, if one has just ended), reads  *)
(* one action from each, and works out what happened in the slot.  A read  *)
(* or write of a message is a step; the work between the last read of a    *)
(* slot and the first tick of the next one touches only the channel's own  *)
(* state and is one step, EndSlot.                                         *)
(*                                                                         *)
(* The stations are those of the tests, made a little more general: after  *)
(* a result a station may also stay and try again.  Those in Faulty may do  *)
(* what Faults lists.                                                      *)
(***************************************************************************)
EXTENDS Integers, Sequences, FiniteSetsExt

CONSTANTS
    n_stations,         \* the parameters of channel_serve
    slot_frame_len,
    max_slots,
    detect_collisions,
    Backlogged,         \* stations whose frames have waited since slot 0
    Faulty,             \* stations that may do something wrong,
    Faults              \* a subset of {"wrong slot", "leaves early", "crashes"}

ASSUME StationsAssumption == n_stations \in 1 .. 256
ASSUME FrameLenAssumption == slot_frame_len \in Nat /\ slot_frame_len >= 2
ASSUME SlotsAssumption == max_slots \in Nat \ {0}
ASSUME BackloggedAssumption == Backlogged \subseteq 0 .. n_stations - 1
ASSUME FaultsAssumption ==
    /\ Faulty \subseteq 0 .. n_stations - 1
    /\ Faults \subseteq {"wrong slot", "leaves early", "crashes"}

Station == 0 .. n_stations - 1

May(i, fault) == i \in Faulty /\ fault \in Faults

MediumState == {"IDLE", "BUSY", "COLLISION"}
Result      == {"NONE", "SUCCESS", "COLLISION"}
Action      == {"IDLE", "START", "TRANSMIT", "JAM", "DONE"}

\* What goes over a connection, as far as it matters: the configuration and the
\* ticks one way, the actions the other way.  Of the frame of an action only the
\* slot it was enqueued in is left, and whether its FCS verifies.
Config == [kind : {"config"}]
Tick   == [kind : {"tick"}, slot : Nat, medium : MediumState, result : Result,
           should_stop : BOOLEAN]
ActionMsg == [slot : Nat, action : Action, enqueue_slot : Nat, intact : BOOLEAN]

chan_station_t ==
    [connected : BOOLEAN, active : BOOLEAN, start_slot : Nat, collided : BOOLEAN,
     enqueue_slot : Nat, intact : BOOLEAN, pending_result : Result]

VARIABLES
    pc,         \* where channel_serve is
    turn,       \* the station its current loop is at
    slot, prev_state, n_connected, metrics,
    st,         \* chan_station_t of every station
    acts,       \* the last action read from every station
    down, up,   \* the two directions of every connection
    station     \* the state of the station processes

channelVars == <<pc, turn, slot, prev_state, n_connected, metrics, st, acts>>
vars == <<channelVars, down, up, station>>

NoMetrics == [total_slots |-> 0, idle_slots |-> 0, busy_slots |-> 0,
              collision_slots |-> 0, collision_events |-> 0,
              collided_attempts |-> 0, attempts |-> 0, frames_delivered |-> 0,
              fcs_failures |-> 0, sum_delay_slots |-> 0]

Init ==
    /\ pc = "accept" /\ turn = 0 /\ slot = 0
    /\ prev_state = "IDLE" /\ n_connected = n_stations
    /\ metrics = NoMetrics
    /\ st = [i \in Station |->
                [connected |-> FALSE, active |-> FALSE, start_slot |-> 0,
                 collided |-> FALSE, enqueue_slot |-> 0, intact |-> FALSE,
                 pending_result |-> "NONE"]]
    \* Not read before every station has answered once.
    /\ acts = [i \in Station |->
                [slot |-> 0, action |-> "DONE", enqueue_slot |-> 0, intact |-> FALSE]]
    /\ down = [i \in Station |-> << >>]
    /\ up = [i \in Station |-> << >>]
    /\ station \in [Station -> [at : {"connected"}, sending : {FALSE},
                                wait_for_idle : BOOLEAN]]

Gone(i) == station[i].at = "gone"

-----------------------------------------------------------------------------
(* The loops of channel_serve over the stations.                           *)

\* On to the next station, and after the last one to the next part.
NextTurn(part) ==
    IF turn < n_stations - 1
      THEN turn' = turn + 1 /\ UNCHANGED pc
      ELSE turn' = 0 /\ pc' = part

\* A message to a station that has left vanishes.
SendDown(i, msg) ==
    down' = IF Gone(i) THEN down ELSE [down EXCEPT ![i] = Append(@, msg)]

\* tcp_accept, the configuration, and the reset of the station's entry.
Accept ==
    /\ pc = "accept"
    /\ SendDown(turn, [kind |-> "config"])
    /\ st' = [st EXCEPT ![turn].connected = TRUE,
                        ![turn].active = FALSE,
                        ![turn].pending_result = "NONE"]
    /\ NextTurn("tick")
    /\ UNCHANGED <<slot, prev_state, n_connected, metrics, acts, up, station>>

\* Slip: the result that has been sent stays pending.
ResultKept(entry) == entry
ResultSent(entry) == [entry EXCEPT !.pending_result = "NONE"]

SendTick ==
    /\ pc = "tick"
    /\ IF st[turn].connected
         THEN /\ SendDown(turn, [kind |-> "tick", slot |-> slot, medium |-> prev_state,
                                 result |-> st[turn].pending_result,
                                 should_stop |-> FALSE])
              /\ st' = [st EXCEPT ![turn] = ResultSent(@)]
         ELSE UNCHANGED <<down, st>>
    /\ NextTurn("listen")
    /\ UNCHANGED <<slot, prev_state, n_connected, metrics, acts, up, station>>

\* A write to a station that has crashed: SIGPIPE ends the process of the channel
\* once the kernel has learnt of the crash.
BrokenPipe ==
    /\ pc \in {"accept", "tick", "stop"}
    /\ Gone(turn)
    /\ pc = "accept" \/ st[turn].connected
    /\ pc' = "killed"
    /\ UNCHANGED <<turn, slot, prev_state, n_connected, metrics, st, acts, down, up,
                   station>>

\* channel_serve returns -1 from the middle of the experiment, as it does on every
\* error: without a stop tick, and with all connections open.
Fail == pc' = "failed" /\ UNCHANGED <<turn, acts>>

\* The other outcome of such a write, or of the accept before it: an error is
\* returned, such as a reset connection.
WriteFails ==
    /\ pc \in {"accept", "tick"}
    /\ Gone(turn)
    /\ pc = "accept" \/ st[turn].connected
    /\ Fail
    /\ UNCHANGED <<slot, prev_state, n_connected, metrics, st, down, up, station>>

InStep(msg) == msg.slot = slot

Listen ==
    /\ pc = "listen"
    /\ st[turn].connected => up[turn] # << >>
    /\ IF ~ st[turn].connected
         THEN NextTurn("resolve") /\ UNCHANGED <<acts, up>>
         ELSE /\ up' = [up EXCEPT ![turn] = Tail(@)]
              /\ IF InStep(Head(up[turn]))
                   THEN acts' = [acts EXCEPT ![turn] = Head(up[turn])]
                        /\ NextTurn("resolve")
                   ELSE Fail
    /\ UNCHANGED <<slot, prev_state, n_connected, metrics, st, down, station>>

ListenEof ==
    /\ pc = "listen"
    /\ st[turn].connected
    /\ up[turn] = << >> /\ Gone(turn)
    /\ Fail
    /\ UNCHANGED <<slot, prev_state, n_connected, metrics, st, down, up, station>>

-----------------------------------------------------------------------------
(* The end of a slot.                                                      *)

Did(action) == {i \in Station : acts[i].action = action}

\* channel_resolve_slot goes over the actions of all stations; that of a station
\* that has left is its DONE.
\* Slip: a station in the first slot of its frame is not counted.
TransmittersUnderWay == Did("TRANSMIT") \cup Did("JAM")
Transmitters == Did("START") \cup Did("TRANSMIT") \cup Did("JAM")

medium_from_txcount(txcount) ==
    CASE txcount = 0 -> "IDLE"
      [] txcount = 1 -> "BUSY"
      [] OTHER -> "COLLISION"

State == medium_from_txcount(Cardinality(Transmitters))

\* Slip: every slot with a collision is an event.
EveryCollision(state) == state = "COLLISION"
NewCollisionEvent(state) == state = "COLLISION" /\ prev_state # "COLLISION"

\* The entry of a station after the action has been parsed.
\* Slip: the mark of the last collision is not taken back.
ParsedKeepingMark(i) ==
    IF ~ st[i].connected
      THEN st[i]
      ELSE CASE acts[i].action = "START" ->
                  [st[i] EXCEPT !.active = TRUE, !.start_slot = slot,
                                !.enqueue_slot = acts[i].enqueue_slot,
                                !.intact = acts[i].intact]
             [] acts[i].action = "DONE" -> [st[i] EXCEPT !.connected = FALSE]
             [] OTHER -> st[i]
Parsed(i) ==
    IF ~ st[i].connected
      THEN st[i]
      ELSE CASE acts[i].action = "START" ->
                  [st[i] EXCEPT !.active = TRUE, !.start_slot = slot,
                                !.collided = FALSE,
                                !.enqueue_slot = acts[i].enqueue_slot,
                                !.intact = acts[i].intact]
             [] acts[i].action = "DONE" -> [st[i] EXCEPT !.connected = FALSE]
             [] OTHER -> st[i]

OnAir(entry) == entry.connected /\ entry.active

\* ... and after collisions have been marked.  The count of the code is only ever
\* compared with zero.
\* Slip: only a station that begins in this slot is marked.
MarkedAtStart(i) ==
    IF State = "COLLISION" /\ OnAir(Parsed(i)) /\ i \in Did("START")
      THEN [Parsed(i) EXCEPT !.collided = TRUE]
      ELSE Parsed(i)
Marked(i) ==
    IF State = "COLLISION" /\ OnAir(Parsed(i)) /\ i \in Transmitters
      THEN [Parsed(i) EXCEPT !.collided = TRUE]
      ELSE Parsed(i)

\* frame_age >= slot_frame_len.
\* Slip: the first slot is counted twice.
CompleteEarly(entry) == slot - entry.start_slot + 2 >= slot_frame_len
Complete(entry) == slot - entry.start_slot + 1 >= slot_frame_len

\* How the transmission of station i ends in this slot, if it does.
Verdict(i) ==
    CASE ~ OnAir(Marked(i)) -> "none"
      [] OnAir(Marked(i)) /\ i \in Did("JAM") -> "collided"
      [] OnAir(Marked(i)) /\ i \notin Did("JAM") /\ ~ Complete(Marked(i)) -> "none"
      [] OTHER -> IF Marked(i).collided THEN "collided"
                  ELSE IF Marked(i).intact THEN "delivered" ELSE "bad FCS"

With(verdict) == {i \in Station : Verdict(i) = verdict}

Settled(i) ==
    IF Verdict(i) = "none"
      THEN Marked(i)
      ELSE [Marked(i) EXCEPT
                !.active = FALSE,
                !.pending_result = IF Verdict(i) = "delivered" THEN "SUCCESS"
                                   ELSE "COLLISION"]

Delay(entry) == entry.start_slot + slot_frame_len - entry.enqueue_slot

TotalDelay(S) == MapThenSumSet(LAMBDA i : Delay(Marked(i)), S)

One(condition) == IF condition THEN 1 ELSE 0

Counted ==
    [total_slots       |-> metrics.total_slots + 1,
     idle_slots        |-> metrics.idle_slots + One(State = "IDLE"),
     busy_slots        |-> metrics.busy_slots + One(State = "BUSY"),
     collision_slots   |-> metrics.collision_slots + One(State = "COLLISION"),
     collision_events  |-> metrics.collision_events + One(NewCollisionEvent(State)),
     attempts          |-> metrics.attempts
                             + Cardinality({i \in Did("START") : st[i].connected}),
     collided_attempts |-> metrics.collided_attempts + Cardinality(With("collided")),
     frames_delivered  |-> metrics.frames_delivered + Cardinality(With("delivered")),
     fcs_failures      |-> metrics.fcs_failures + Cardinality(With("bad FCS")),
     sum_delay_slots   |-> metrics.sum_delay_slots + TotalDelay(With("delivered"))]

\* Slip: a station that has left is counted again in every slot.
LeavingAgain == Did("DONE")
Leaving == {i \in Did("DONE") : st[i].connected}

\* What the loop has written before it finds a station that leaves in the middle of
\* a transmission is never read again.
EndSlot ==
    /\ pc = "resolve"
    /\ IF \E i \in Leaving : st[i].active
         THEN Fail /\ UNCHANGED <<slot, prev_state, n_connected, metrics, st>>
         ELSE /\ metrics' = Counted
              /\ st' = [i \in Station |-> Settled(i)]
              /\ n_connected' = n_connected - Cardinality(Leaving)
              /\ prev_state' = State
              /\ slot' = slot + 1
              /\ pc' = IF slot' < max_slots /\ n_connected' > 0 THEN "tick" ELSE "stop"
              /\ UNCHANGED <<turn, acts>>
    /\ UNCHANGED <<down, up, station>>

\* Slip: only a station in the middle of a transmission is told to stop.
ToldWhenActive(entry) == entry.connected /\ entry.active
ToldToStop(entry) == entry.connected

\* The last tick; it carries no result.  Then the connection is closed.
SendStop ==
    /\ pc = "stop"
    /\ IF ToldToStop(st[turn])
         THEN SendDown(turn, [kind |-> "tick", slot |-> slot, medium |-> prev_state,
                              result |-> "NONE", should_stop |-> TRUE])
         ELSE UNCHANGED down
    /\ NextTurn("returned")
    /\ UNCHANGED <<slot, prev_state, n_connected, metrics, st, acts, up, station>>

Channel ==
    \/ Accept \/ SendTick \/ BrokenPipe \/ WriteFails
    \/ Listen \/ ListenEof \/ EndSlot \/ SendStop

-----------------------------------------------------------------------------
(* The stations: run_mock_station and its decide functions.                *)

Leave(i) ==
    /\ station' = [station EXCEPT ![i].at = "gone"]
    /\ down' = [down EXCEPT ![i] = << >>]

ReadConfig(i) ==
    /\ station[i].at = "connected"
    /\ down[i] # << >>
    /\ down' = [down EXCEPT ![i] = Tail(@)]
    /\ station' = [station EXCEPT ![i].at = "running"]
    /\ UNCHANGED <<channelVars, up>>

\* What the decide functions may answer.  A station whose attempt is under way
\* transmits or, where collisions are detected, jams.  Any other one is idle, leaves,
\* or starts; one that waits for idle starts only after an idle slot.
Answers(i, tick, sending) ==
    IF sending
      THEN {"TRANSMIT"} \cup (IF detect_collisions THEN {"JAM"} ELSE {})
                        \cup (IF May(i, "leaves early") THEN {"DONE"} ELSE {})
      ELSE {"IDLE", "DONE"} \cup
           (IF station[i].wait_for_idle /\ tick.medium # "IDLE" THEN {} ELSE {"START"})

\* make_frame: the slot the frame says it was enqueued in.  There is a frame only in
\* a START.
Enqueued(i, tick, action) ==
    IF action # "START" \/ i \in Backlogged THEN 0 ELSE tick.slot

\* The attempt is over for the station when a tick brings a result.
Answer(i) ==
    /\ station[i].at = "running"
    /\ down[i] # << >> /\ ~ Head(down[i]).should_stop
    /\ LET tick    == Head(down[i])
           sending == station[i].sending /\ tick.result = "NONE"
       IN \E action \in Answers(i, tick, sending),
             number \in {tick.slot} \cup
                        (IF May(i, "wrong slot") THEN {tick.slot + 1} ELSE {}) :
          \E intact \in IF action = "START" THEN BOOLEAN ELSE {FALSE} :
            /\ up' = [up EXCEPT ![i] = Append(@, [slot |-> number, action |-> action,
                                                  enqueue_slot |-> Enqueued(i, tick, action),
                                                  intact |-> intact])]
            /\ station' = [station EXCEPT
                              ![i].sending = sending \/ action = "START",
                              ![i].at = IF action = "DONE" THEN "gone" ELSE @]
    /\ down' = [down EXCEPT ![i] = Tail(@)]
    /\ UNCHANGED channelVars

\* The stop tick, or the end-of-file that a killed channel leaves behind.
Stop(i) ==
    /\ station[i].at = "running"
    /\ down[i] # << >> /\ Head(down[i]).should_stop
    /\ Leave(i)
    /\ UNCHANGED <<channelVars, up>>

Eof(i) ==
    /\ ~ Gone(i)
    /\ pc = "killed"
    /\ Leave(i)
    /\ UNCHANGED <<channelVars, up>>

Crash(i) ==
    /\ May(i, "crashes")
    /\ ~ Gone(i)
    /\ Leave(i)
    /\ UNCHANGED <<channelVars, up>>

StationStep(i) == ReadConfig(i) \/ Answer(i) \/ Stop(i) \/ Eof(i)

-----------------------------------------------------------------------------

Over == pc \in {"returned", "failed", "killed"}

\* waitpid() of the tests: the caller of channel_serve waits for its stations, with
\* the connections of a failed experiment still open.
Wait ==
    /\ Over
    /\ \A i \in Station : Gone(i) \/ (pc = "failed" /\ down[i] = << >>)
    /\ UNCHANGED vars

Next == Channel \/ (\E i \in Station : StationStep(i) \/ Crash(i)) \/ Wait

Spec == Init /\ [][Next]_vars

\* The processes are scheduled; nobody has to crash.
Fairness == WF_vars(Channel) /\ \A i \in Station : WF_vars(StationStep(i))

FairSpec == Spec /\ Fairness

-----------------------------------------------------------------------------
(* Properties.                                                             *)

\* Types of the locals of channel_serve, of st and of the messages.
TypeOK ==
    /\ pc \in {"accept", "tick", "listen", "resolve", "stop", "returned", "failed",
               "killed"}
    /\ turn \in Station
    /\ slot \in 0 .. max_slots
    /\ prev_state \in MediumState
    /\ n_connected \in 0 .. n_stations
    /\ metrics \in [DOMAIN NoMetrics -> Nat]
    /\ st \in [Station -> chan_station_t]
    /\ acts \in [Station -> ActionMsg]
    /\ down \in [Station -> Seq(Config \cup Tick)]
    /\ up \in [Station -> Seq(ActionMsg)]
    /\ station \in [Station -> [at : {"connected", "running", "gone"},
                                sending : BOOLEAN, wait_for_idle : BOOLEAN]]

Active == {i \in Station : OnAir(st[i])}

\* The metrics agree with each other and with the medium.  Every attempt the
\* channel has counted is delivered, lost to a collision or to a bad FCS, or still
\* on the air; every slot was idle, busy or a collision; and a new collision event
\* always has a transmission that began in it, so there are fewer events than
\* transmissions that have collided.
MetricsAddUp ==
    /\ metrics.attempts = metrics.frames_delivered + metrics.collided_attempts
                            + metrics.fcs_failures + Cardinality(Active)
    /\ metrics.total_slots = slot
    /\ slot = metrics.idle_slots + metrics.busy_slots + metrics.collision_slots
    /\ metrics.collision_events > 0 =>
         metrics.collision_events <
           metrics.collided_attempts + Cardinality({i \in Active : st[i].collided})

\* How long the transmissions of the stations in S have lasted, taken together.
TotalAge(now, entries, S) == MapThenSumSet(LAMBDA i : now - entries[i].start_slot, S)

\* The throughput is at most one: every frame that was delivered, or failed only
\* its FCS, had slot_frame_len busy slots for itself, as has a clean transmission on
\* the air for as long as it lasts.  The average delay lies between the length of a
\* frame and that of the experiment.
ThroughputAndDelayAreBounded ==
    /\ (metrics.frames_delivered + metrics.fcs_failures) * slot_frame_len
         + TotalAge(slot, st, {i \in Active : ~ st[i].collided})
         <= metrics.busy_slots
    /\ metrics.frames_delivered * slot_frame_len <= metrics.sum_delay_slots
    /\ metrics.sum_delay_slots <= metrics.frames_delivered * slot

\* Where the attempt of station i is: its START on the way to the end of the slot,
\* on the medium, ended with a result that waits for the next tick, or ended with
\* the result on its way.
Whereabouts(i) ==
    {place \in {"request", "medium", "pending", "reply"} :
        CASE place = "request" ->
                \/ up[i] # << >> /\ Head(up[i]).action = "START"
                \/ /\ pc = "resolve" \/ (pc = "listen" /\ i < turn)
                   /\ acts[i].action = "START"
          [] place = "medium"  -> st[i].active
          [] place = "pending" -> st[i].pending_result # "NONE"
          [] OTHER -> \E k \in DOMAIN down[i] :
                         down[i][k].kind = "tick" /\ down[i][k].result # "NONE"}

\* Channel and stations agree on who is sending, and no attempt is reported twice or
\* forgotten: while a station waits for the result of its attempt, that attempt is in
\* exactly one place; otherwise it is nowhere.  (On an error the channel drops all
\* of it.)
OneResultPerAttempt ==
    pc \notin {"failed", "killed"} =>
        \A i \in Station : ~ Gone(i) =>
            Cardinality(Whereabouts(i)) = One(station[i].sending)

\* Carrier sensing works although a station hears of a slot only when it is over:
\* two stations that wait for idle and are on the air together began in one slot.
PoliteStationsStartTogether ==
    \A i, j \in Active :
        station[i].wait_for_idle /\ station[j].wait_for_idle =>
            st[i].start_slot = st[j].start_slot

\* The experiment ends within max_slots slots, and all stations end with it, unless
\* an error ended it.
StationsReleased == <>(pc = "failed" \/ \A i \in Station : Gone(i))

Medium == INSTANCE SlottedMedium WITH
            FrameLen  <- slot_frame_len,
            age       <- [i \in Station |->
                            IF OnAir(st[i]) THEN slot - st[i].start_slot ELSE 0],
            clean     <- [i \in Station |-> OnAir(st[i]) /\ ~ st[i].collided],
            delivered <- metrics.frames_delivered,
            lost      <- metrics.collided_attempts + metrics.fcs_failures

\* Ticks, answers and slot-by-slot bookkeeping amount to the slotted medium: a frame
\* is delivered only if it had the medium for itself in each of its slots.
ImplementsSlottedMedium == Medium!Spec
=============================================================================
