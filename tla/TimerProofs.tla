----------------------------- MODULE TimerProofs ----------------------------
(***************************************************************************)
(* The timer library of lab2 keeps time, for every set of frames, every    *)
(* configuration, every clock rate and any number of calls; and the mean   *)
(* of the round-trip times stays between them, for as many samples as the  *)
(* model keeps exactly.                                                    *)
(***************************************************************************)
EXTENDS Timer, NumberLemmas

TypeOK ==
    /\ now \in Nat
    /\ t_config \in Configs
    /\ window \in [running : BOOLEAN, start : Nat]
    /\ t_slots \in [SeqNums -> [in_use : BOOLEAN, send_time : Nat]]
    /\ t_avg_rtt \in Nat /\ t_rtt_samples \in Nat /\ sampled \subseteq Nat
    /\ asleep \in BOOLEAN
    /\ since \in [SeqNums \cup {TheWindow} -> Nat \cup {Never}]

\* The send time of a running timer is when it was first started.
WindowOK ==
    /\ window.running <=> since[TheWindow] # Never
    /\ window.running => window.start = since[TheWindow] /\ window.start <= now
FrameOK(n) ==
    /\ t_slots[n].in_use <=> since[n] # Never
    /\ t_slots[n].in_use => t_slots[n].send_time = since[n] /\ t_slots[n].send_time <= now

\* A client that has just slept until a deadline has not slept past one.
NotTooLate(n) ==
    asleep /\ t_slots[n].in_use => now - t_slots[n].send_time <= t_config.rto

TimersOK == WindowOK /\ \A n \in SeqNums : FrameOK(n) /\ NotTooLate(n)

\* The mean lies between two of the samples that bound the others.
Between(lo, hi) ==
    /\ \A x \in sampled : lo <= x /\ x <= hi
    /\ 100 * lo <= t_avg_rtt /\ t_avg_rtt <= 100 * hi
MeanOK ==
    /\ t_rtt_samples = 0 <=> sampled = {}
    /\ sampled = {} => t_avg_rtt = 0
    /\ sampled # {} => \E lo, hi \in sampled : Between(lo, hi)

IInv == TypeOK /\ TimersOK /\ MeanOK

-----------------------------------------------------------------------------
(* Least and greatest elements.                                            *)

\* A set of integers with a lower bound has a least element.
LEMMA LeastFrom ==
    ASSUME NEW S, S \subseteq Int, S # {}, NEW b \in Int, \A x \in S : b <= x
    PROVE  \E x \in S : \A y \in S : x <= y
<1> DEFINE T == {x - b : x \in S}
<1>1. T \subseteq Nat /\ T # {}
  <2>1. ASSUME NEW x \in S PROVE x - b \in Nat
    <3>1. x \in Int /\ b <= x
      OBVIOUS
    <3> QED
      BY <3>1
  <2> QED
    BY <2>1
<1> HIDE DEF T
<1>2. PICK t \in T : \A u \in T : t <= u
  BY <1>1, LeastElement
<1> USE DEF T
<1>3. PICK x \in S : t = x - b
  OBVIOUS
<1>4. ASSUME NEW y \in S PROVE x <= y
  <2>1. y - b \in T
    OBVIOUS
  <2>2. x - b <= y - b
    BY <2>1, <1>2, <1>3
  <2>3. x \in Int /\ y \in Int
    OBVIOUS
  <2> QED
    BY <2>2, <2>3
<1> QED
  BY <1>4

\* Min is what it is called ...
LEMMA MinIs ==
    ASSUME NEW S, S \subseteq Int, NEW m \in S, \A y \in S : m <= y
    PROVE  Min(S) = m
<1>1. \E x \in S : \A y \in S : x <= y
  OBVIOUS
<1>2. Min(S) \in S /\ \A y \in S : Min(S) <= y
  BY <1>1 DEF Min
<1>3. Min(S) <= m /\ m <= Min(S) /\ Min(S) \in Int /\ m \in Int
  BY <1>2
<1> QED
  BY <1>3

\* ... and so is Max.
LEMMA MaxIs ==
    ASSUME NEW S, S \subseteq Int, NEW m \in S, \A y \in S : y <= m
    PROVE  Max(S) = m
<1>1. \E x \in S : \A y \in S : x >= y
  OBVIOUS
<1>2. Max(S) \in S /\ \A y \in S : Max(S) >= y
  BY <1>1 DEF Max
<1>3. m <= Max(S) /\ Max(S) <= m /\ Max(S) \in Int /\ m \in Int
  BY <1>2
<1> QED
  BY <1>3

\* The greater of two numbers.
LEMMA MaxOfTwo ==
    ASSUME NEW a \in Int, NEW b \in Int
    PROVE  Max({a, b}) = IF a >= b THEN a ELSE b
<1>1. CASE a >= b
  BY <1>1, MaxIs
<1>2. CASE ~ (a >= b)
  <2>1. \A y \in {a, b} : y <= b
    BY <1>2
  <2>2. Max({a, b}) = b
    BY <2>1, MaxIs
  <2> QED
    BY <1>2, <2>2
<1> QED
  BY <1>1, <1>2

-----------------------------------------------------------------------------
(* How long the client may sleep.                                          *)

\* The cast to whole milliseconds takes less than one of them away.
LEMMA WholeMilliseconds ==
    ASSUME NEW rto \in Nat
    PROVE  /\ WholeMs(rto) \in Nat /\ WholeMs(rto) <= rto
           /\ rto - WholeMs(rto) < UnitsPerMs
<1> DEFINE q == rto \div UnitsPerMs
           r == rto % UnitsPerMs
           p == UnitsPerMs * q
<1>1. q \in Nat /\ r \in Nat /\ r < UnitsPerMs /\ rto = UnitsPerMs * q + r
  BY UnitsAssumption
<1>2. UnitsPerMs * q \in Nat
  BY <1>1, UnitsAssumption
<1>3. WholeMs(rto) = p
  BY DEF WholeMs
<1>4. p \in Nat /\ rto = p + r
  BY <1>1, <1>2
<1> HIDE DEF p, q, r
<1> QED
  BY <1>1, <1>3, <1>4, UnitsAssumption

\* The frames that are timed, and the deadline of each as the loop computes it.
Timed == {m \in SeqNums : t_slots[m].in_use}
DeadlineOf(n) == t_slots[n].send_time + WholeMs(t_config.rto) - now

\* The configuration and the send times are natural numbers.
LEMMA DeadlineTypes ==
    ASSUME TypeOK
    PROVE  /\ t_config.rto \in Nat \ {0} /\ WholeMs(t_config.rto) \in Nat
           /\ WholeMs(t_config.rto) <= t_config.rto
           /\ t_config.rto - WholeMs(t_config.rto) < UnitsPerMs
           /\ \A n \in SeqNums : t_slots[n].send_time \in Nat /\ DeadlineOf(n) \in Int
<1>1. t_config.rto \in Nat \ {0} /\ now \in Nat
  BY ConfigsAssumption DEF TypeOK
<1>2. \A n \in SeqNums : t_slots[n].send_time \in Nat
  BY DEF TypeOK
<1>3. WholeMs(t_config.rto) \in Nat
  BY <1>1, WholeMilliseconds
<1> QED
  BY <1>1, <1>2, <1>3, WholeMilliseconds DEF DeadlineOf

\* With no frame timed the client may sleep for a whole RTO.
LEMMA NoDeadline ==
    ASSUME TypeOK, Timed = {}
    PROVE  timer_earliest_deadline = t_config.rto
<1> DEFINE r == t_config.rto
<1>1. r \in Nat \ {0}
  BY DeadlineTypes
<1>2. timer_earliest_deadline
        = Max({0, Min({t_slots[n].send_time + WholeMs(r) - now : n \in Timed} \cup {r})})
  BY DEF timer_earliest_deadline, Timed
<1> HIDE DEF r
<1>3. Min({r}) = r
  BY <1>1, MinIs
<1>4. Max({0, r}) = r
  BY <1>1, MaxOfTwo
<1>5. {t_slots[n].send_time + WholeMs(r) - now : n \in Timed} \cup {r} = {r}
  OBVIOUS
<1>6. timer_earliest_deadline = r
  BY <1>2, <1>3, <1>4, <1>5
<1> QED
  BY <1>6 DEF r

\* Otherwise until the first deadline.
LEMMA FirstDeadline ==
    ASSUME TypeOK, TimersOK, Timed # {}
    PROVE  \E n \in Timed :
              /\ \A m \in Timed : t_slots[n].send_time <= t_slots[m].send_time
              /\ timer_earliest_deadline =
                    IF DeadlineOf(n) > 0 THEN DeadlineOf(n) ELSE 0
<1> DEFINE D == {DeadlineOf(n) : n \in Timed}
           r == t_config.rto
<1>1. /\ now \in Nat /\ r \in Nat \ {0} /\ WholeMs(r) \in Nat /\ WholeMs(r) <= r
      /\ Timed \subseteq SeqNums
      /\ \A n \in Timed : t_slots[n].send_time \in Nat /\ DeadlineOf(n) \in Int
  BY DeadlineTypes DEF TypeOK, Timed
<1>2. \A n \in Timed : t_slots[n].send_time <= now
  BY DEF Timed, TimersOK, FrameOK
<1>3. \A n \in Timed : - now <= DeadlineOf(n) /\ DeadlineOf(n) <= r
  BY <1>1, <1>2 DEF DeadlineOf
<1>4. PICK d \in D : \A e \in D : d <= e
  <2>1. D \subseteq Int /\ D # {} /\ - now \in Int /\ \A e \in D : - now <= e
    BY <1>1, <1>3
  <2> HIDE DEF D
  <2> QED
    BY <2>1, LeastFrom
<1>5. PICK n \in Timed : d = DeadlineOf(n)
  OBVIOUS
<1>6. \A m \in Timed : DeadlineOf(n) <= DeadlineOf(m)
  BY <1>4, <1>5
<1>7. \A m \in Timed : t_slots[n].send_time <= t_slots[m].send_time
  BY <1>1, <1>6 DEF DeadlineOf
<1>8. Min(D \cup {r}) = d
  <2>1. D \cup {r} \subseteq Int /\ d \in D \cup {r} /\ \A y \in D \cup {r} : d <= y
    BY <1>1, <1>3, <1>4, <1>5
  <2> HIDE DEF D, r
  <2> QED
    BY <2>1, MinIs
<1>9. timer_earliest_deadline = Max({0, d})
  <2>1. timer_earliest_deadline = Max({0, Min(D \cup {r})})
    BY DEF timer_earliest_deadline, Timed, DeadlineOf
  <2> QED
    BY <2>1, <1>8
<1>10. Max({0, d}) = IF 0 >= d THEN 0 ELSE d
  BY <1>1, <1>5, MaxOfTwo
<1>11. d \in Int
  BY <1>1, <1>5
<1> QED
  BY <1>5, <1>7, <1>9, <1>10, <1>11

\* A client that sleeps until the deadline does not sleep past the RTO of any frame.
LEMMA SleepIsShort ==
    ASSUME TypeOK, TimersOK, NEW n \in SeqNums, t_slots[n].in_use
    PROVE  /\ timer_earliest_deadline \in Nat
           /\ timer_earliest_deadline > 0 =>
                 (now + timer_earliest_deadline) - t_slots[n].send_time <= t_config.rto
<1>1. n \in Timed
  BY DEF Timed
<1>2. PICK k \in Timed :
         /\ \A m \in Timed : t_slots[k].send_time <= t_slots[m].send_time
         /\ timer_earliest_deadline = IF DeadlineOf(k) > 0 THEN DeadlineOf(k) ELSE 0
  BY <1>1, FirstDeadline
<1>3. k \in SeqNums
  BY DEF Timed
<1>4. /\ DeadlineOf(k) \in Int /\ t_slots[k].send_time \in Nat /\ t_slots[n].send_time \in Nat
      /\ WholeMs(t_config.rto) \in Nat /\ WholeMs(t_config.rto) <= t_config.rto
      /\ now \in Nat /\ t_config.rto \in Nat
  BY <1>3, DeadlineTypes DEF TypeOK
<1>5. t_slots[k].send_time <= t_slots[n].send_time
  BY <1>1, <1>2
<1>6. timer_earliest_deadline \in Nat
  BY <1>2, <1>4
<1>7. DeadlineOf(k) = t_slots[k].send_time + WholeMs(t_config.rto) - now
  BY DEF DeadlineOf
<1> QED
  BY <1>2, <1>4, <1>5, <1>6, <1>7

-----------------------------------------------------------------------------
(* The steps.                                                              *)

\* Calls that change the statistics at most.
LEMMA QueryStep ==
    ASSUME IInv, UNCHANGED <<now, timers, rtt, since>>, asleep' = FALSE
    PROVE  IInv'
<1>1. UNCHANGED <<now, t_config, window, t_slots, t_avg_rtt, t_rtt_samples, sampled, since>>
  BY DEF timers, rtt
<1> QED
  BY <1>1 DEF IInv, TypeOK, TimersOK, WindowOK, FrameOK, NotTooLate, MeanOK, Between

\* TheWindow is not the number of a frame.
LEMMA NotTheWindow == \A n \in SeqNums : n # TheWindow
BY SeqNumsAssumption DEF TheWindow

\* The window timer is started, or stopped.  A second start changes nothing.
LEMMA WindowStep ==
    ASSUME IInv, timer_start_window \/ timer_stop_window, now' = now, asleep' = FALSE
    PROVE  IInv'
<1> USE DEF IInv
<1>1. /\ UNCHANGED <<t_config, t_slots, t_avg_rtt, t_rtt_samples, sampled>>
      /\ since' \in [SeqNums \cup {TheWindow} -> Nat \cup {Never}]
      /\ \A n \in SeqNums : since'[n] = since[n]
      /\ window' \in [running : BOOLEAN, start : Nat]
      /\ window'.running <=> since'[TheWindow] # Never
      /\ window'.running => window'.start = since'[TheWindow] /\ window'.start <= now
  <2>1. /\ since \in [SeqNums \cup {TheWindow} -> Nat \cup {Never}]
        /\ now \in Nat /\ window \in [running : BOOLEAN, start : Nat]
        /\ now # Never
    BY DEF TypeOK, Never
  <2>2. \A n \in SeqNums : n # TheWindow
    BY NotTheWindow
  <2>3. CASE timer_start_window
    <3>1. /\ UNCHANGED <<t_config, t_slots, t_avg_rtt, t_rtt_samples, sampled>>
          /\ since' = [since EXCEPT ![TheWindow] = IF @ = Never THEN now ELSE @]
          /\ window' = IF window.running THEN window ELSE [running |-> TRUE, start |-> now]
      BY <2>3 DEF timer_start_window, Started, rtt
    <3>2. since'[TheWindow] = IF since[TheWindow] = Never THEN now ELSE since[TheWindow]
      BY <3>1, <2>1
    <3>3. since' \in [SeqNums \cup {TheWindow} -> Nat \cup {Never}]
      BY <3>1, <2>1
    <3>4. \A n \in SeqNums : since'[n] = since[n]
      BY <3>1, <2>1, <2>2
    <3>5. CASE window.running
      BY <3>1, <3>2, <3>3, <3>4, <3>5, <2>1 DEF TimersOK, WindowOK
    <3>6. CASE ~ window.running
      <4>1. since'[TheWindow] = now /\ window' = [running |-> TRUE, start |-> now]
        BY <3>1, <3>2, <3>6 DEF TimersOK, WindowOK
      <4> QED
        BY <4>1, <3>1, <3>3, <3>4, <2>1
    <3> QED
      BY <3>5, <3>6
  <2>4. CASE timer_stop_window
    <3>1. /\ UNCHANGED <<t_config, t_slots, t_avg_rtt, t_rtt_samples, sampled>>
          /\ since' = [since EXCEPT ![TheWindow] = Never]
          /\ window' = [window EXCEPT !.running = FALSE]
      BY <2>4 DEF timer_stop_window, Stopped, rtt
    <3> QED
      BY <3>1, <2>1, <2>2
  <2> QED
    BY <2>3, <2>4
<1>2. TypeOK'
  BY <1>1 DEF TypeOK
<1>3. TimersOK'
  <2>1. WindowOK'
    BY <1>1 DEF WindowOK
  <2>2. \A n \in SeqNums : (FrameOK(n) /\ NotTooLate(n))'
    BY <1>1 DEF TimersOK, FrameOK, NotTooLate
  <2> QED
    BY <2>1, <2>2 DEF TimersOK
<1>4. MeanOK'
  BY <1>1 DEF MeanOK, Between
<1> QED
  BY <1>2, <1>3, <1>4

\* The timer of a frame is started, or stopped.
LEMMA FrameStep ==
    ASSUME IInv, NEW n \in SeqNums, timer_start_frame(n) \/ timer_stop_frame(n),
           now' = now, asleep' = FALSE
    PROVE  IInv'
<1> USE DEF IInv
<1>1. /\ since \in [SeqNums \cup {TheWindow} -> Nat \cup {Never}]
      /\ t_slots \in [SeqNums -> [in_use : BOOLEAN, send_time : Nat]]
      /\ now \in Nat /\ now # Never /\ n # TheWindow
  <2>1. n # TheWindow
    BY NotTheWindow
  <2>2. now \in Nat /\ now # Never
    BY DEF TypeOK, Never
  <2>3. /\ since \in [SeqNums \cup {TheWindow} -> Nat \cup {Never}]
        /\ t_slots \in [SeqNums -> [in_use : BOOLEAN, send_time : Nat]]
    BY DEF TypeOK
  <2> QED
    BY <2>1, <2>2, <2>3
<1>2. t_slots[n] \in [in_use : BOOLEAN, send_time : Nat]
  BY <1>1
<1>3. PICK slot \in [in_use : BOOLEAN, send_time : Nat], first \in Nat \cup {Never} :
         /\ UNCHANGED <<t_config, window, t_avg_rtt, t_rtt_samples, sampled>>
         /\ since' = [since EXCEPT ![n] = first]
         /\ t_slots' = [t_slots EXCEPT ![n] = slot]
         /\ slot.in_use <=> first # Never
         /\ slot.in_use => slot.send_time = first /\ slot.send_time <= now
  <2>1. CASE timer_start_frame(n)
    <3> DEFINE slot == StartedSlot(t_slots[n])
               first == IF since[n] = Never THEN now ELSE since[n]
    <3>1. /\ UNCHANGED <<t_config, window, t_avg_rtt, t_rtt_samples, sampled>>
          /\ since' = [since EXCEPT ![n] = first]
          /\ t_slots' = [t_slots EXCEPT ![n] = slot]
      BY <2>1, <1>1 DEF timer_start_frame, Started, rtt
    <3>2. first \in Nat \cup {Never} /\ slot \in [in_use : BOOLEAN, send_time : Nat]
      BY <1>1, <1>2 DEF StartedSlot
    <3>3. CASE t_slots[n].in_use
      BY <3>1, <3>2, <3>3 DEF TimersOK, FrameOK, StartedSlot
    <3>4. CASE ~ t_slots[n].in_use
      <4>1. first = now /\ slot = [in_use |-> TRUE, send_time |-> now]
        BY <3>4 DEF TimersOK, FrameOK, StartedSlot
      <4>2. slot.in_use = TRUE /\ slot.send_time = now
        BY <4>1
      <4>3. now <= now
        BY <1>1
      <4> HIDE DEF slot, first
      <4>4. /\ slot.in_use <=> first # Never
            /\ slot.in_use => slot.send_time = first /\ slot.send_time <= now
        BY <4>1, <4>2, <4>3, <1>1
      <4> QED
        BY <4>4, <3>1, <3>2
    <3> QED
      BY <3>3, <3>4
  <2>2. CASE timer_stop_frame(n)
    <3> DEFINE slot == [t_slots[n] EXCEPT !.in_use = FALSE]
    <3>1. /\ UNCHANGED <<t_config, window, t_avg_rtt, t_rtt_samples, sampled>>
          /\ since' = [since EXCEPT ![n] = Never]
          /\ t_slots' = [t_slots EXCEPT ![n] = slot]
      BY <2>2, <1>1 DEF timer_stop_frame, Stopped, rtt
    <3>2. slot \in [in_use : BOOLEAN, send_time : Nat] /\ slot.in_use = FALSE
      BY <1>2
    <3> QED
      BY <3>1, <3>2
  <2> QED
    BY <2>1, <2>2
<1>4. /\ since' \in [SeqNums \cup {TheWindow} -> Nat \cup {Never}]
      /\ t_slots' \in [SeqNums -> [in_use : BOOLEAN, send_time : Nat]]
      /\ since'[TheWindow] = since[TheWindow]
      /\ since'[n] = first /\ t_slots'[n] = slot
      /\ \A m \in SeqNums : m # n => since'[m] = since[m] /\ t_slots'[m] = t_slots[m]
  BY <1>1, <1>3
<1>5. TypeOK'
  BY <1>3, <1>4 DEF TypeOK
<1>6. TimersOK'
  <2>1. WindowOK'
    BY <1>3, <1>4 DEF TimersOK, WindowOK
  <2>2. ASSUME NEW m \in SeqNums PROVE FrameOK(m)'
    <3>1. CASE m = n
      BY <3>1, <1>3, <1>4 DEF FrameOK
    <3>2. CASE m # n
      BY <3>2, <1>4 DEF TimersOK, FrameOK
    <3> QED
      BY <3>1, <3>2
  <2>3. \A m \in SeqNums : NotTooLate(m)'
    BY DEF NotTooLate
  <2> QED
    BY <2>1, <2>2, <2>3 DEF TimersOK
<1>7. MeanOK'
  BY <1>3 DEF MeanOK, Between
<1> QED
  BY <1>5, <1>6, <1>7

\* timer_init stops every timer; the mean stays.
LEMMA InitStep ==
    ASSUME IInv, NEW config \in Configs, timer_init(config), now' = now, asleep' = FALSE
    PROVE  IInv'
<1> USE DEF IInv
<1>1. /\ t_config' = config /\ window' = Idle
      /\ t_slots' = [n \in SeqNums |-> Unused]
      /\ since' = [t \in SeqNums \cup {TheWindow} |-> Never]
      /\ UNCHANGED <<t_avg_rtt, t_rtt_samples, sampled>>
  BY DEF timer_init, rtt, TypeOK
<1>2. TypeOK'
  BY <1>1 DEF TypeOK, Idle, Unused
<1>3. TimersOK'
  BY <1>1 DEF TimersOK, WindowOK, FrameOK, NotTooLate, Idle, Unused
<1>4. MeanOK'
  BY <1>1 DEF MeanOK, Between
<1> QED
  BY <1>2, <1>3, <1>4

\* The new mean lies between the samples, the new one included.
LEMMA MeanIsBetween ==
    ASSUME NEW avg \in Nat, NEW lo \in Nat, NEW hi \in Nat, NEW r \in Nat,
           100 * lo <= avg, avg <= 100 * hi, lo <= r, r <= hi
    PROVE  100 * lo <= Mean(avg, r) /\ Mean(avg, r) <= 100 * hi /\ Mean(avg, r) \in Nat
BY DEF Mean

\* A sample is recorded.
LEMMA SampleStep ==
    ASSUME IInv, NEW r \in Samples, timer_record_rtt(r), now' = now, asleep' = FALSE
    PROVE  IInv'
<1> USE DEF IInv
<1>1. /\ t_avg_rtt' = NewMean(r) /\ t_rtt_samples' = t_rtt_samples + 1
      /\ sampled' = sampled \cup {r}
      /\ UNCHANGED <<t_config, window, t_slots, since>>
  BY DEF timer_record_rtt, timers
<1>2. r \in Nat /\ t_avg_rtt \in Nat /\ t_rtt_samples \in Nat /\ sampled \subseteq Nat
  BY SamplesAssumption DEF TypeOK
<1>3. t_rtt_samples' \in Nat /\ t_rtt_samples' # 0 /\ sampled' # {}
  BY <1>1, <1>2
<1>4. \E lo, hi \in sampled' : t_avg_rtt' \in Nat /\ Between(lo, hi)'
  <2>1. CASE sampled = {}
    <3>1. t_avg_rtt' = 100 * r /\ sampled' = {r}
      BY <2>1, <1>1 DEF MeanOK, NewMean
    <3> QED
      BY <3>1, <1>2 DEF Between
  <2>2. CASE sampled # {}
    <3>1. PICK lo \in sampled, hi \in sampled : Between(lo, hi)
      BY <2>2 DEF MeanOK
    <3>2. /\ lo \in Nat /\ hi \in Nat /\ lo <= hi
          /\ 100 * lo <= t_avg_rtt /\ t_avg_rtt <= 100 * hi
          /\ \A x \in sampled : x \in Nat /\ lo <= x /\ x <= hi
      BY <3>1, <1>2 DEF Between
    <3> DEFINE l == IF r < lo THEN r ELSE lo
               h == IF r > hi THEN r ELSE hi
    <3>3. l \in sampled' /\ h \in sampled'
      BY <1>1
    <3>4. l \in Nat /\ h \in Nat /\ l <= lo /\ hi <= h /\ l <= r /\ r <= h
      BY <3>2, <1>2
    <3> HIDE DEF l, h
    <3>5. \A x \in sampled' : l <= x /\ x <= h
      BY <3>2, <3>4, <1>1, <1>2
    <3>6. 100 * l <= t_avg_rtt /\ t_avg_rtt <= 100 * h
      BY <3>2, <3>4, <1>2
    <3>7. t_avg_rtt' = Mean(t_avg_rtt, r)
      BY <2>2, <1>1 DEF MeanOK, NewMean
    <3>8. /\ 100 * l <= Mean(t_avg_rtt, r) /\ Mean(t_avg_rtt, r) <= 100 * h
          /\ Mean(t_avg_rtt, r) \in Nat
      BY <3>4, <3>6, <1>2, MeanIsBetween
    <3> QED
      BY <3>3, <3>5, <3>7, <3>8 DEF Between
  <2> QED
    BY <2>1, <2>2
<1>5. TypeOK'
  <2>1. sampled' \subseteq Nat /\ t_avg_rtt' \in Nat
    BY <1>1, <1>2, <1>4
  <2> QED
    BY <2>1, <1>1, <1>3 DEF TypeOK
<1>6. TimersOK'
  BY <1>1 DEF TimersOK, WindowOK, FrameOK, NotTooLate
<1>7. MeanOK'
  BY <1>3, <1>4 DEF MeanOK
<1> QED
  BY <1>5, <1>6, <1>7

\* Time passes.  A client that sleeps until the deadline does not oversleep.
LEMMA TimeStep ==
    ASSUME IInv, Tarry \/ SleepUntilDeadline
    PROVE  IInv'
<1> USE DEF IInv
<1>1. UNCHANGED <<t_config, window, t_slots, t_avg_rtt, t_rtt_samples, sampled, since>>
  BY DEF Tarry, SleepUntilDeadline, Pass, timers, rtt
<1>2. now \in Nat /\ t_config.rto \in Nat
  BY DeadlineTypes DEF TypeOK
<1>3. timer_earliest_deadline \in Nat
  <2>1. CASE Timed = {}
    BY <2>1, <1>2, NoDeadline
  <2>2. CASE Timed # {}
    <3>1. PICK n \in SeqNums : t_slots[n].in_use
      BY <2>2 DEF Timed
    <3> QED
      BY <3>1, SleepIsShort
  <2> QED
    BY <2>1, <2>2
<1>4. now' \in Nat /\ now <= now' /\ asleep' \in BOOLEAN
  <2>1. CASE Tarry
    <3>1. now' = now + 1 /\ asleep' = FALSE
      BY <2>1 DEF Tarry, Pass
    <3>2. now + 1 \in Nat /\ now <= now + 1
      BY <1>2
    <3> QED
      BY <3>1, <3>2
  <2>2. CASE SleepUntilDeadline
    <3>1. now' = now + timer_earliest_deadline /\ asleep' = TRUE
      BY <2>2 DEF SleepUntilDeadline, Pass
    <3> QED
      BY <3>1, <1>2, <1>3
  <2> QED
    BY <2>1, <2>2
<1>5. TypeOK'
  BY <1>1, <1>4 DEF TypeOK
<1>6. WindowOK'
  <2>1. window.start \in Nat
    BY DEF TypeOK
  <2> QED
    BY <2>1, <1>1, <1>2, <1>4 DEF TimersOK, WindowOK
<1>7. ASSUME NEW n \in SeqNums PROVE FrameOK(n)' /\ NotTooLate(n)'
  <2>1. t_slots[n].send_time \in Nat
    BY DEF TypeOK
  <2>2. FrameOK(n)'
    BY <2>1, <1>1, <1>2, <1>4 DEF TimersOK, FrameOK
  <2>3. NotTooLate(n)'
    <3> SUFFICES ASSUME asleep', t_slots[n].in_use
                 PROVE  now' - t_slots[n].send_time <= t_config.rto
      BY <1>1 DEF NotTooLate
    <3>1. SleepUntilDeadline
      BY DEF Tarry
    <3>2. timer_earliest_deadline > 0 /\ now' = now + timer_earliest_deadline
      BY <3>1 DEF SleepUntilDeadline, Pass
    <3>3. (now + timer_earliest_deadline) - t_slots[n].send_time <= t_config.rto
      BY <3>2, SleepIsShort
    <3>4. now' - t_slots[n].send_time = (now + timer_earliest_deadline) - t_slots[n].send_time
      BY <3>2, Zenon
    <3> QED
      BY <3>3, <3>4, Zenon
  <2> QED
    BY <2>2, <2>3
<1>8. MeanOK'
  BY <1>1 DEF MeanOK, Between
<1> QED
  BY <1>5, <1>6, <1>7, <1>8, <1>1 DEF TimersOK

-----------------------------------------------------------------------------
(* The invariant, and what follows from it.                                *)

\* Initially nothing runs and nothing was sampled.
LEMMA InitInv == ASSUME Init PROVE IInv
<1>1. TypeOK
  BY DEF Init, TypeOK, Idle, Unused
<1>2. TimersOK
  BY DEF Init, TimersOK, WindowOK, FrameOK, NotTooLate, Idle, Unused
<1>3. MeanOK
  BY DEF Init, MeanOK
<1> QED
  BY <1>1, <1>2, <1>3 DEF IInv

\* Every operation, and every pause of the client, keeps it.
LEMMA NextInv == ASSUME IInv, [Next]_vars PROVE IInv'
<1>1. CASE Call
  <2>1. now' = now /\ asleep' = FALSE
    BY <1>1 DEF Call
  <2>2. CASE timer_start_window \/ timer_stop_window
    BY <2>1, <2>2, WindowStep
  <2>3. CASE timer_window_expired \/ timer_reset_stats
    <3>1. UNCHANGED <<now, timers, rtt, since>>
      BY <2>1, <2>3 DEF timer_window_expired, timer_reset_stats
    <3> QED
      BY <2>1, <3>1, QueryStep
  <2>4. CASE \E n \in SeqNums : timer_start_frame(n) \/ timer_stop_frame(n)
    BY <2>1, <2>4, FrameStep
  <2>5. CASE \E n \in SeqNums : timer_frame_expired(n)
    <3>1. UNCHANGED <<now, timers, rtt, since>>
      BY <2>1, <2>5 DEF timer_frame_expired
    <3> QED
      BY <2>1, <3>1, QueryStep
  <2>6. CASE \E rtt_ms \in Samples : timer_record_rtt(rtt_ms)
    BY <2>1, <2>6, SampleStep
  <2>7. CASE \E config \in Configs : timer_init(config)
    BY <2>1, <2>7, InitStep
  <2> QED
    BY <1>1, <2>2, <2>3, <2>4, <2>5, <2>6, <2>7 DEF Call
<1>2. CASE Tarry \/ SleepUntilDeadline
  BY <1>2, TimeStep
<1>3. CASE UNCHANGED vars
  <2>1. UNCHANGED <<now, t_config, window, t_slots, t_avg_rtt, t_rtt_samples, sampled,
                    asleep, since>>
    BY <1>3 DEF vars, timers, rtt
  <2> QED
    BY <2>1 DEF IInv, TypeOK, TimersOK, WindowOK, FrameOK, NotTooLate, MeanOK, Between
<1> QED
  BY <1>1, <1>2, <1>3 DEF Next

\* The inductive invariant: a timer runs exactly while its history says so, from the
\* moment the history names, and the mean lies between two samples that bound the rest.
THEOREM Invariance == Spec => []IInv
<1>1. Init => IInv
  BY InitInv
<1>2. IInv /\ [Next]_vars => IInv'
  BY NextInv
<1> QED
  BY <1>1, <1>2, PTL DEF Spec

\* What a frame's timer has left: nothing if it is not running.
LEMMA Remaining ==
    ASSUME TypeOK, NEW n \in Timed, t_slots[n].send_time <= now
    PROVE  timer_frame_remaining(n) =
              LET rest == t_config.rto - (now - t_slots[n].send_time)
              IN  IF rest >= 0 THEN rest ELSE 0
<1> DEFINE rest == t_config.rto - (now - t_slots[n].send_time)
<1>1. n \in SeqNums /\ t_slots[n].in_use
  BY DEF Timed
<1>2. rest \in Int
  BY <1>1, DeadlineTypes DEF TypeOK
<1>3. timer_frame_remaining(n) = Max({rest, 0})
  BY <1>1 DEF timer_frame_remaining
<1> HIDE DEF rest
<1>4. timer_frame_remaining(n) = IF rest >= 0 THEN rest ELSE 0
  BY <1>2, <1>3, MaxOfTwo
<1> QED
  BY <1>4 DEF rest

\* The deadline is at most what the most urgent timer has left, and less than a
\* millisecond below it.
LEMMA DeadlineIsClose ==
    ASSUME IInv, Timed # {}
    PROVE  LET left == {timer_frame_remaining(n) : n \in Timed}
           IN  /\ timer_earliest_deadline <= Min(left)
               /\ Min(left) - timer_earliest_deadline < UnitsPerMs
<1> DEFINE rto == t_config.rto
           sent(n) == t_slots[n].send_time
           leftOf(n) == timer_frame_remaining(n)
           left == {leftOf(n) : n \in Timed}
<1>1. TypeOK /\ TimersOK
  BY DEF IInv
<1>2. PICK k \in Timed :
         /\ \A m \in Timed : sent(k) <= sent(m)
         /\ timer_earliest_deadline = IF DeadlineOf(k) > 0 THEN DeadlineOf(k) ELSE 0
  BY <1>1, FirstDeadline
<1>3. \A n \in Timed : n \in SeqNums /\ sent(n) \in Nat /\ sent(n) <= now
  BY <1>1, DeadlineTypes DEF Timed, TimersOK, FrameOK
<1>4. /\ rto \in Nat /\ now \in Nat /\ UnitsPerMs \in Nat \ {0}
      /\ WholeMs(rto) \in Nat /\ WholeMs(rto) <= rto /\ rto - WholeMs(rto) < UnitsPerMs
  BY <1>1, DeadlineTypes, UnitsAssumption DEF TypeOK
<1>5. \A n \in Timed :
         leftOf(n) = IF rto - (now - sent(n)) >= 0 THEN rto - (now - sent(n)) ELSE 0
  BY <1>1, <1>3, Remaining
<1>6. DeadlineOf(k) = (sent(k) + WholeMs(rto)) - now
  BY <1>3, <1>4 DEF DeadlineOf
<1> HIDE DEF rto, sent, leftOf
<1>7. \A n \in Timed : leftOf(n) \in Int /\ leftOf(k) <= leftOf(n)
  BY <1>2, <1>3, <1>4, <1>5
<1>8. Min(left) = leftOf(k)
  <2>1. left \subseteq Int /\ leftOf(k) \in left /\ \A y \in left : leftOf(k) <= y
    BY <1>7
  <2> HIDE DEF left
  <2> QED
    BY <2>1, MinIs
<1> HIDE DEF left
<1>9. /\ timer_earliest_deadline <= leftOf(k)
      /\ leftOf(k) - timer_earliest_deadline < UnitsPerMs
  BY <1>2, <1>3, <1>4, <1>5, <1>6
<1>10. /\ timer_earliest_deadline <= Min(left)
       /\ Min(left) - timer_earliest_deadline < UnitsPerMs
  BY <1>8, <1>9
<1> QED
  BY <1>10 DEF left, leftOf

\* Every timer expires one RTO after the first of the calls that started it and a
\* client that trusts timer_earliest_deadline_ms wakes in time, less than a millisecond
\* early: for any frames, any configurations and any sequence of calls.
THEOREM TimersOnTime == Spec => []TimersAreOnTime
<1>1. ASSUME IInv PROVE TimersAreOnTime
  <2>1. TypeOK /\ TimersOK
    BY <1>1 DEF IInv
  <2>2. WindowExpired <=> since[TheWindow] # Never /\ now - since[TheWindow] >= t_config.rto
    BY <2>1 DEF WindowExpired, TimersOK, WindowOK
  <2>3. ASSUME NEW n \in SeqNums
        PROVE  /\ FrameExpired(n) <=> since[n] # Never /\ now - since[n] >= t_config.rto
               /\ asleep /\ since[n] # Never => now - since[n] <= t_config.rto
    BY <2>1 DEF FrameExpired, TimersOK, FrameOK, NotTooLate
  <2>4. {m \in SeqNums : since[m] # Never} = Timed
    BY <2>1 DEF Timed, TimersOK, FrameOK
  <2>5. LET left == {timer_frame_remaining(n) : n \in Timed}
        IN  left # {} => /\ timer_earliest_deadline <= Min(left)
                         /\ Min(left) - timer_earliest_deadline < UnitsPerMs
    <3>1. CASE Timed = {}
      BY <3>1
    <3>2. CASE Timed # {}
      BY <3>2, <1>1, DeadlineIsClose
    <3> QED
      BY <3>1, <3>2
  <2> QED
    BY <2>2, <2>3, <2>4, <2>5 DEF TimersAreOnTime
<1> QED
  BY <1>1, Invariance, PTL

\* The adaptive RTO lies between twice the smallest and twice the largest sample the
\* process has recorded, and is zero before the first.
THEOREM RtoSafe == Spec => []RtoFollowsSamples
<1>1. ASSUME IInv, t_config.use_ema, sampled = {} PROVE timer_get_rto = 0
  BY <1>1 DEF IInv, MeanOK, timer_get_rto
<1>2. ASSUME IInv, t_config.use_ema, sampled # {}
      PROVE  timer_get_rto \in 200 * Min(sampled) .. 200 * Max(sampled)
  <2>1. PICK lo \in sampled, hi \in sampled : Between(lo, hi)
    BY <1>2 DEF IInv, MeanOK
  <2>2. t_avg_rtt \in Nat /\ sampled \subseteq Nat /\ lo \in Nat /\ hi \in Nat
    BY <1>2 DEF IInv, TypeOK
  <2>3. sampled \subseteq Int /\ \A x \in sampled : lo <= x /\ x <= hi
    BY <2>1, <2>2 DEF Between
  <2>4. Min(sampled) = lo /\ Max(sampled) = hi
    <3>1. Min(sampled) = lo
      BY <2>3, MinIs
    <3>2. Max(sampled) = hi
      BY <2>3, MaxIs
    <3> QED
      BY <3>1, <3>2
  <2>5. timer_get_rto = 2 * t_avg_rtt
    BY <1>2 DEF timer_get_rto
  <2>6. 200 * lo <= 2 * t_avg_rtt /\ 2 * t_avg_rtt <= 200 * hi
    BY <2>1, <2>2 DEF Between
  <2> QED
    BY <2>2, <2>4, <2>5, <2>6
<1>3. IInv => RtoFollowsSamples
  BY <1>1, <1>2 DEF RtoFollowsSamples
<1> QED
  BY <1>3, Invariance, PTL

=============================================================================
