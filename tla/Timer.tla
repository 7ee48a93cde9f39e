------------------------------- MODULE Timer --------------------------------
(***************************************************************************)
(* The timer library of lab2 (timer.c): one timer for a window, one per    *)
(* frame, and the mean of the round-trip times.                            *)
(*                                                                         *)
(* The client calls the operations in any order, as tests/timer_test.c     *)
(* does in some; between two calls it may sleep: for any time, or until    *)
(* timer_earliest_deadline_ms says that a frame timer expires.  An         *)
(* operation takes no time.  Time runs in units of 1 / UnitsPerMs of a     *)
(* millisecond, because an RTO need not be a whole number of them.         *)
(***************************************************************************)
EXTENDS Integers, FiniteSetsExt

CONSTANTS
    SeqNums,        \* the frames that are timed
    Configs,        \* the values of timer_config: rto in units, and use_ema
    UnitsPerMs,
    Samples,        \* round-trip times that are recorded, in units
    MaxTime,        \* bounds: on the clock,
    MaxCalls,       \* on the calls that count in the statistics,
    MaxSamples      \* and on the samples

\* A uint16_t.
ASSUME SeqNumsAssumption == \A n \in SeqNums : n \in Nat /\ n < 65536
ASSUME UnitsAssumption == UnitsPerMs \in Nat \ {0}
ASSUME ConfigsAssumption == Configs \subseteq [rto : Nat \ {0}, use_ema : BOOLEAN]
ASSUME SamplesAssumption == Samples \subseteq Nat
\* The mean is kept in hundredths of a unit, which is exact for three samples.
ASSUME MaxSamplesAssumption == MaxSamples \in 0 .. 3

VARIABLES
    now,            \* the clock
    t_config,
    window,         \* t_window_running and t_window_start_time
    t_slots,        \* in_use and send_time_ns of every frame
    t_stats,
    t_avg_rtt, t_rtt_samples,
    asleep,         \* whether the client has just slept until a deadline
    since,          \* history: when each timer, TheWindow included, was first
                    \* started since it last stood still
    sampled         \* history: the samples recorded since the process started

timers == <<t_config, window, t_slots>>
rtt    == <<t_avg_rtt, t_rtt_samples, sampled>>
vars   == <<now, timers, t_stats, rtt, asleep, since>>

Never == -1
TheWindow == 65536      \* not the number of a frame

NoStats == [windows_started |-> 0, windows_expired |-> 0,
            frames_started  |-> 0, frames_expired  |-> 0]

Idle    == [running |-> FALSE, start |-> 0]
Unused  == [in_use |-> FALSE, send_time |-> 0]

\* The tests call timer_init before anything else.
Init ==
    /\ now = 0
    /\ t_config \in Configs
    /\ window = Idle
    /\ t_slots = [n \in SeqNums |-> Unused]
    /\ t_stats = NoStats
    /\ t_avg_rtt = 0 /\ t_rtt_samples = 0 /\ sampled = {}
    /\ asleep = FALSE
    /\ since = [t \in SeqNums \cup {TheWindow} |-> Never]

Count(counter) == t_stats' = [t_stats EXCEPT ![counter] = @ + 1]
MoreCalls == MapThenSumSet(LAMBDA counter : t_stats[counter], DOMAIN t_stats) < MaxCalls

\* The first start since the timer stood still.
Started(t) == since' = [since EXCEPT ![t] = IF @ = Never THEN now ELSE @]
Stopped(t) == since' = [since EXCEPT ![t] = Never]

-----------------------------------------------------------------------------
(* The window timer.                                                       *)

WindowExpired == window.running /\ now - window.start >= t_config.rto

timer_start_window ==
    /\ MoreCalls
    /\ IF window.running
         THEN UNCHANGED <<window, t_stats>>
         ELSE window' = [running |-> TRUE, start |-> now] /\ Count("windows_started")
    /\ Started(TheWindow)
    /\ UNCHANGED <<t_config, t_slots, rtt>>

timer_stop_window ==
    /\ window' = [window EXCEPT !.running = FALSE]
    /\ Stopped(TheWindow)
    /\ UNCHANGED <<t_config, t_slots, t_stats, rtt>>

\* A timer that has expired is counted whenever it is asked about.
timer_window_expired ==
    /\ MoreCalls
    /\ IF WindowExpired THEN Count("windows_expired") ELSE UNCHANGED t_stats
    /\ UNCHANGED <<timers, rtt, since>>

-----------------------------------------------------------------------------
(* The frame timers.                                                       *)

FrameExpired(n) == t_slots[n].in_use /\ now - t_slots[n].send_time >= t_config.rto

\* Slip: a second start begins anew.
RestartedSlot(slot) == [in_use |-> TRUE, send_time |-> now]
StartedSlot(slot) == IF slot.in_use THEN slot ELSE [in_use |-> TRUE, send_time |-> now]

timer_start_frame(n) ==
    /\ MoreCalls
    /\ t_slots' = [t_slots EXCEPT ![n] = StartedSlot(@)]
    /\ IF t_slots[n].in_use THEN UNCHANGED t_stats ELSE Count("frames_started")
    /\ Started(n)
    /\ UNCHANGED <<t_config, window, rtt>>

timer_stop_frame(n) ==
    /\ t_slots' = [t_slots EXCEPT ![n].in_use = FALSE]
    /\ Stopped(n)
    /\ UNCHANGED <<t_config, window, t_stats, rtt>>

timer_frame_expired(n) ==
    /\ MoreCalls
    /\ IF FrameExpired(n) THEN Count("frames_expired") ELSE UNCHANGED t_stats
    /\ UNCHANGED <<timers, rtt, since>>

timer_frame_remaining(n) ==
    IF t_slots[n].in_use
      THEN Max({t_config.rto - (now - t_slots[n].send_time), 0})
      ELSE 0

\* Here the cast cuts the RTO down to whole milliseconds before it is scaled.
WholeMs(rto) == UnitsPerMs * (rto \div UnitsPerMs)

timer_earliest_deadline ==
    LET deadlines == {t_slots[n].send_time + WholeMs(t_config.rto) - now :
                        n \in {m \in SeqNums : t_slots[m].in_use}}
    IN  Max({0, Min(deadlines \cup {t_config.rto})})

-----------------------------------------------------------------------------
(* The round-trip times, and the rest.                                     *)

Mean(avg, rtt_ms) == (9 * avg + 100 * rtt_ms) \div 10

\* Slip: there is no first sample, the mean starts from zero.
MeanFromZero(rtt_ms) == Mean(t_avg_rtt, rtt_ms)
NewMean(rtt_ms) == IF t_rtt_samples = 0 THEN 100 * rtt_ms ELSE Mean(t_avg_rtt, rtt_ms)

timer_record_rtt(rtt_ms) ==
    /\ t_rtt_samples < MaxSamples
    /\ t_avg_rtt' = NewMean(rtt_ms)
    /\ t_rtt_samples' = t_rtt_samples + 1
    /\ sampled' = sampled \cup {rtt_ms}
    /\ UNCHANGED <<timers, t_stats, since>>

\* In hundredths of a unit.  The timers themselves always use the configured RTO.
timer_get_rto == IF t_config.use_ema THEN 2 * t_avg_rtt ELSE 100 * t_config.rto

\* Neither the mean nor the statistics start anew.
timer_init(config) ==
    /\ t_config' = config
    /\ t_slots' = [n \in SeqNums |-> Unused]
    /\ window' = Idle
    /\ since' = [t \in DOMAIN since |-> Never]
    /\ UNCHANGED <<t_stats, rtt>>

timer_reset_stats ==
    /\ t_stats' = NoStats
    /\ UNCHANGED <<timers, rtt, since>>

-----------------------------------------------------------------------------
(* The client.                                                             *)

Call ==
    /\ \/ timer_start_window \/ timer_stop_window \/ timer_window_expired
       \/ \E n \in SeqNums :
             timer_start_frame(n) \/ timer_stop_frame(n) \/ timer_frame_expired(n)
       \/ \E rtt_ms \in Samples : timer_record_rtt(rtt_ms)
       \/ \E config \in Configs : timer_init(config)
       \/ timer_reset_stats
    /\ asleep' = FALSE
    /\ UNCHANGED now

Pass(units) ==
    /\ now + units <= MaxTime
    /\ now' = now + units
    /\ UNCHANGED <<timers, t_stats, rtt, since>>

\* The client does something else for a while.
Tarry == Pass(1) /\ asleep' = FALSE

SleepUntilDeadline ==
    /\ timer_earliest_deadline > 0
    /\ Pass(timer_earliest_deadline)
    /\ asleep' = TRUE

Next == Call \/ Tarry \/ SleepUntilDeadline

Spec == Init /\ [][Next]_vars

-----------------------------------------------------------------------------
(* Properties.                                                             *)

\* A timer expires one RTO after the first of the calls that started it, however
\* often it is started again, and never after it was stopped or timer_init called.  A
\* client that sleeps as long as timer_earliest_deadline_ms lets it has never slept
\* past a frame timer, and if it was woken for one, then less than a millisecond early.
TimersAreOnTime ==
    /\ WindowExpired <=> since[TheWindow] # Never /\ now - since[TheWindow] >= t_config.rto
    /\ \A n \in SeqNums :
         /\ FrameExpired(n) <=> since[n] # Never /\ now - since[n] >= t_config.rto
         /\ asleep /\ since[n] # Never => now - since[n] <= t_config.rto
    /\ LET left == {timer_frame_remaining(n) : n \in {m \in SeqNums : since[m] # Never}}
       IN  left # {} => /\ timer_earliest_deadline <= Min(left)
                        /\ Min(left) - timer_earliest_deadline < UnitsPerMs

\* The adaptive RTO lies between twice the smallest and twice the largest round-trip
\* time the process has recorded, those of earlier transfers included; before the
\* first sample it is zero, whatever RTO was configured.
RtoFollowsSamples ==
    t_config.use_ema =>
        IF sampled = {}
          THEN timer_get_rto = 0
          ELSE timer_get_rto \in 200 * Min(sampled) .. 200 * Max(sampled)
=============================================================================
