-------------------------- MODULE CsmaChannelProofs -------------------------
(***************************************************************************)
(* Theorems about the CSMA channel and its stations, for any number of     *)
(* stations, any length of a frame and of the experiment, with or without  *)
(* collision detection, and with any set of stations at fault.             *)
(*                                                                         *)
(* The induction rests on the lock-step.  channel_serve is at one station  *)
(* in one of its loops, and that says for every other station how far the  *)
(* exchange of this slot has come: which messages are on the way and what  *)
(* they may say (StationOK).  Everything else follows from what a slot     *)
(* leaves behind on the medium (MediumOK).                                 *)
(***************************************************************************)
EXTENDS CsmaChannel, FiniteSetTheorems, TLAPS

-----------------------------------------------------------------------------
(* The inductive invariant.                                                *)

\* How far channel_serve is with station i, while nothing has gone wrong.
Running == pc \notin {"failed", "killed"}

Unaccepted(i) == pc = "accept" /\ i >= turn
Between(i)    == (pc = "accept" /\ i < turn) \/ (pc \in {"tick", "stop"} /\ i >= turn)
Told(i)       == (pc = "tick" /\ i < turn) \/ (pc = "listen" /\ i >= turn)
Heard(i)      == (pc = "listen" /\ i < turn) \/ pc = "resolve"
Stopped(i)    == (pc = "stop" /\ i < turn) \/ pc = "returned"

ConfigMsg == [kind |-> "config"]
TickMsg(result, stop) ==
    [kind |-> "tick", slot |-> slot, medium |-> prev_state, result |-> result,
     should_stop |-> stop]

Pending(i) == st[i].pending_result # "NONE"

\* An attempt is not on the medium and over at the same time, and the station knows of
\* it in either case.
AttemptOK(i, over) ==
    /\ ~ (st[i].active /\ over)
    /\ ~ Gone(i) => (station[i].sending <=> st[i].active \/ over)

\* What a station may have answered in this slot.
AnswerOK(i, msg) ==
    /\ msg \in ActionMsg /\ msg.enqueue_slot <= slot
    /\ msg.action \in IF st[i].active THEN {"TRANSMIT", "JAM", "DONE"}
                                      ELSE {"IDLE", "START", "DONE"}
    /\ station[i].at # "connected"
    /\ msg.action = "DONE" => Gone(i)
    /\ AttemptOK(i, msg.action = "START")
    /\ msg.action = "START" /\ station[i].wait_for_idle => prev_state = "IDLE"

\* The station is not, or no longer, served.
AbsentOK(i) ==
    /\ ~ st[i].active /\ ~ Pending(i)
    /\ down[i] = << >> /\ up[i] = << >>
    /\ acts[i].action = "DONE"
    /\ IF Unaccepted(i) THEN station[i].at # "running" /\ ~ station[i].sending
                        ELSE Gone(i)

BetweenOK(i) ==
    /\ up[i] = << >>
    /\ station[i].at # "connected" => down[i] = << >>
    /\ station[i].at = "connected" =>
         /\ down[i] = <<ConfigMsg>> /\ pc # "stop"
         /\ ~ station[i].sending
    /\ AttemptOK(i, Pending(i))

\* The tick is on its way,
Ticked(i, result) ==
    /\ up[i] = << >> /\ ~ Gone(i)
    /\ IF station[i].at = "connected"
         THEN down[i] = <<ConfigMsg, TickMsg(result, FALSE)>> /\ ~ station[i].sending
         ELSE down[i] = <<TickMsg(result, FALSE)>>
    /\ AttemptOK(i, result # "NONE")

\* ... or the answer, or the station has crashed before it could answer.
Answered(i) ==
    /\ up[i] # << >> /\ up[i] = <<Head(up[i])>> /\ down[i] = << >>
    /\ AnswerOK(i, Head(up[i]))

Silent(i) == up[i] = << >> /\ down[i] = << >> /\ Gone(i)

ToldOK(i) ==
    /\ ~ Pending(i)
    /\ \/ \E result \in Result : Ticked(i, result)
       \/ Answered(i)
       \/ Silent(i)

HeardOK(i) ==
    /\ ~ Pending(i)
    /\ down[i] = << >> /\ up[i] = << >>
    /\ AnswerOK(i, acts[i])

StoppedOK(i) ==
    /\ up[i] = << >>
    /\ IF Gone(i) THEN down[i] = << >>
                  ELSE station[i].at = "running" /\ down[i] = <<TickMsg("NONE", TRUE)>>
    /\ AttemptOK(i, Pending(i))

StationOK(i) ==
    /\ ~ st[i].connected => AbsentOK(i)
    /\ st[i].connected =>
         /\ ~ Unaccepted(i)
         /\ Between(i) => BetweenOK(i)
         /\ Told(i)    => ToldOK(i)
         /\ Heard(i)   => HeardOK(i)
         /\ Stopped(i) => StoppedOK(i)

\* What a station reads after its configuration is a tick, even when the channel has
\* failed.
TicksOK(i) ==
    /\ station[i].at = "running" => down[i] \in Seq(Tick)
    /\ station[i].at = "connected" => down[i] = << >> \/ Tail(down[i]) \in Seq(Tick)

LoopOK ==
    /\ pc = "resolve" => turn = 0
    /\ pc \in {"accept", "tick", "listen", "resolve"} => slot < max_slots
    /\ pc = "accept" =>
         n_connected = n_stations /\ \A i \in Station : i < turn => st[i].connected
    /\ Running /\ pc # "accept" =>
         n_connected = Cardinality({i \in Station : st[i].connected})

\* The transmissions on the air between two slots.
MediumOK ==
    /\ \A i \in Active :
          /\ st[i].start_slot < slot
          /\ slot < st[i].start_slot + slot_frame_len
          /\ st[i].enqueue_slot <= st[i].start_slot
    /\ prev_state = "IDLE" => Active = {}
    /\ prev_state # "COLLISION" => \A i, j \in Active : i = j
    /\ \A i, j \in Active : ~ st[i].collided => i = j

IInv ==
    /\ TypeOK
    /\ LoopOK
    /\ \A i \in Station : TicksOK(i)
    /\ Running => \A i \in Station : StationOK(i)
    /\ MediumOK
    /\ PoliteStationsStartTogether
    /\ MetricsAddUp
    /\ ThroughputAndDelayAreBounded

-----------------------------------------------------------------------------
(* Lemmas.                                                                 *)

\* Queues of one or two messages.
LEMMA Queues ==
    ASSUME NEW a, NEW b
    PROVE  /\ <<a>> # << >> /\ Head(<<a>>) = a /\ Tail(<<a>>) = << >>
           /\ Append(<< >>, a) = <<a>>
           /\ <<a, b>> # << >> /\ Head(<<a, b>>) = a /\ Tail(<<a, b>>) = <<b>>
           /\ Append(<<a>>, b) = <<a, b>>
<1>1. <<a>> # << >> /\ Head(<<a>>) = a
  OBVIOUS
<1>2. Tail(<<a>>) = << >>
  OBVIOUS
<1>3. Append(<< >>, a) = <<a>>
  OBVIOUS
<1>4. <<a, b>> # << >> /\ Head(<<a, b>>) = a
  OBVIOUS
<1>5. Tail(<<a, b>>) = <<b>>
  OBVIOUS
<1>6. Append(<<a>>, b) = <<a, b>>
  <2> DEFINE q == Append(<<a>>, b)
  <2>1. <<a>> \in Seq({a, b}) /\ Len(<<a>>) = 1
    OBVIOUS
  <2>2. q \in Seq({a, b}) /\ Len(q) = 2 /\ q[1] = a /\ q[2] = b
    BY <2>1
  <2>3. q = [k \in 1 .. 2 |-> q[k]]
    BY <2>2
  <2>4. <<a, b>> = [k \in 1 .. 2 |-> <<a, b>>[k]]
    OBVIOUS
  <2>5. \A k \in 1 .. 2 : k = 1 \/ k = 2
    OBVIOUS
  <2>6. \A k \in 1 .. 2 : q[k] = <<a, b>>[k]
    BY <2>2, <2>5
  <2> QED
    BY <2>3, <2>4, <2>6
<1> QED
  BY <1>1, <1>2, <1>3, <1>4, <1>5, <1>6

\* The head and the rest of a queue that is not empty.
LEMMA HeadOfQueue ==
    ASSUME NEW S, NEW q \in Seq(S), q # << >>
    PROVE  Head(q) \in S /\ Tail(q) \in Seq(S)
<1>1. Head(q) = q[1] /\ 1 \in 1 .. Len(q)
  OBVIOUS
<1> QED
  BY <1>1

\* A message at the end of a queue.
LEMMA QueueTypes ==
    ASSUME NEW S, NEW q \in Seq(S), NEW e \in S
    PROVE  Append(q, e) \in Seq(S)
OBVIOUS

\* A set of stations is finite.
LEMMA StationsFinite ==
    /\ IsFiniteSet(Station) /\ Cardinality(Station) = n_stations
    /\ \A S \in SUBSET Station :
          IsFiniteSet(S) /\ Cardinality(S) \in Nat /\ Cardinality(S) <= n_stations
<1>1. n_stations \in Nat /\ n_stations - 1 \in Int /\ n_stations - 1 >= 0
  BY StationsAssumption
<1>2. IsFiniteSet(Station) /\ Cardinality(Station) = n_stations
  BY <1>1, FS_Interval DEF Station
<1> QED
  BY <1>2, FS_Subset, FS_CardinalityType

\* The sums over a set of at most one station.
LEMMA AgeOfNone == \A now, entries : TotalAge(now, entries, {}) = 0
<1> SUFFICES ASSUME NEW now, NEW entries PROVE TotalAge(now, entries, {}) = 0
  OBVIOUS
<1> DEFINE pick(s) == CHOOSE x \in s : TRUE
           Body(g) == [s \in SUBSET {} |->
                          IF s = {} THEN 0
                          ELSE (now - entries[pick(s)].start_slot) + g[s \ {pick(s)}]]
           iter == CHOOSE g : g = Body(g)
<1>1. \E g : g = Body(g)
  <2> DEFINE w == [s \in SUBSET {} |-> 0]
  <2>1. \A s \in SUBSET {} : s = {}
    OBVIOUS
  <2>2. w = Body(w)
    BY <2>1
  <2> QED
    BY <2>2
<1>2. iter = Body(iter)
  <2> HIDE DEF Body
  <2> QED
    BY <1>1
<1>3. iter[{}] = 0
  <2>1. {} \in SUBSET {}
    OBVIOUS
  <2> HIDE DEF iter
  <2> QED
    BY <1>2, <2>1
<1>4. TotalAge(now, entries, {}) = iter[{}]
  BY Zenon DEF TotalAge, MapThenSumSet, MapThenFoldSet
<1> QED
  BY <1>3, <1>4

\* ... and of one transmission.
LEMMA AgeOfOne ==
    ASSUME NEW now, NEW entries, NEW t, now - entries[t].start_slot \in Int
    PROVE  TotalAge(now, entries, {t}) = now - entries[t].start_slot
<1> DEFINE pick(s) == CHOOSE x \in s : TRUE
           Age(x) == now - entries[x].start_slot
           Body(g) == [s \in SUBSET {t} |->
                          IF s = {} THEN 0
                          ELSE Age(pick(s)) + g[s \ {pick(s)}]]
           iter == CHOOSE g : g = Body(g)
<1>1. \A s \in SUBSET {t} : s # {} => s = {t} /\ pick(s) = t
  OBVIOUS
<1>2. \E g : g = Body(g)
  <2> DEFINE w == [s \in SUBSET {t} |-> IF s = {} THEN 0 ELSE Age(t)]
  <2>1. ASSUME NEW s \in SUBSET {t}
        PROVE  w[s] = IF s = {} THEN 0
                      ELSE Age(pick(s)) + w[s \ {pick(s)}]
    <3>1. CASE s = {}
      BY <3>1
    <3>2. CASE s # {}
      <4>1. s = {t} /\ pick(s) = t /\ s \ {pick(s)} = {}
        BY <3>2, <1>1
      <4>2. w[{}] = 0 /\ w[s] = Age(t)
        BY <3>2, <4>1
      <4>3. Age(pick(s)) = Age(t) /\ Age(t) \in Int
        BY <4>1
      <4>4. w[s \ {pick(s)}] = 0
        BY <4>1, <4>2
      <4> HIDE DEF w, Age, pick
      <4>5. Age(pick(s)) + w[s \ {pick(s)}] = Age(t)
        BY <4>3, <4>4
      <4> QED
        BY <3>2, <4>2, <4>5
    <3> QED
      BY <3>1, <3>2
  <2>2. w = [s \in SUBSET {t} |-> w[s]]
    OBVIOUS
  <2> HIDE DEF w
  <2>3. w = Body(w)
    BY <2>1, <2>2
  <2> QED
    BY <2>3
<1>3. iter = Body(iter)
  <2> HIDE DEF Body
  <2> QED
    BY <1>2
<1>4. iter[{t}] = Age(pick({t})) + iter[{t} \ {pick({t})}]
  <2> HIDE DEF iter
  <2> QED
    BY <1>3
<1>5. iter[{}] = 0
  <2> HIDE DEF iter
  <2> QED
    BY <1>3
<1>6. pick({t}) = t /\ {t} \ {pick({t})} = {}
  BY <1>1
<1>7. TotalAge(now, entries, {t}) = iter[{t}]
  BY Zenon DEF TotalAge, MapThenSumSet, MapThenFoldSet
<1>8. Age(pick({t})) = Age(t)
  BY <1>6
<1> HIDE DEF iter
<1> QED
  BY <1>4, <1>5, <1>6, <1>7, <1>8

\* The delay of no frame,
LEMMA DelayOfNone == TotalDelay({}) = 0
<1> DEFINE pick(s) == CHOOSE x \in s : TRUE
           Body(g) == [s \in SUBSET {} |->
                          IF s = {} THEN 0 ELSE Delay(Marked(pick(s))) + g[s \ {pick(s)}]]
           iter == CHOOSE g : g = Body(g)
<1>1. \E g : g = Body(g)
  <2> DEFINE w == [s \in SUBSET {} |-> 0]
  <2>1. \A s \in SUBSET {} : s = {}
    OBVIOUS
  <2>2. w = Body(w)
    BY <2>1
  <2> QED
    BY <2>2
<1>2. iter = Body(iter)
  <2> HIDE DEF Body
  <2> QED
    BY <1>1
<1>3. iter[{}] = 0
  <2>1. {} \in SUBSET {}
    OBVIOUS
  <2> HIDE DEF iter
  <2> QED
    BY <1>2, <2>1
<1>4. TotalDelay({}) = iter[{}]
  BY Zenon DEF TotalDelay, MapThenSumSet, MapThenFoldSet
<1> QED
  BY <1>3, <1>4

\* ... and of one.
LEMMA DelayOfOne ==
    ASSUME NEW t, Delay(Marked(t)) \in Int
    PROVE  TotalDelay({t}) = Delay(Marked(t))
<1> DEFINE pick(s) == CHOOSE x \in s : TRUE
           Body(g) == [s \in SUBSET {t} |->
                          IF s = {} THEN 0 ELSE Delay(Marked(pick(s))) + g[s \ {pick(s)}]]
           iter == CHOOSE g : g = Body(g)
<1>1. \A s \in SUBSET {t} : s # {} => s = {t} /\ pick(s) = t
  OBVIOUS
<1>2. \E g : g = Body(g)
  <2> DEFINE w == [s \in SUBSET {t} |-> IF s = {} THEN 0 ELSE Delay(Marked(t))]
  <2>1. ASSUME NEW s \in SUBSET {t}
        PROVE  w[s] = IF s = {} THEN 0
                      ELSE Delay(Marked(pick(s))) + w[s \ {pick(s)}]
    <3>1. CASE s = {}
      BY <3>1
    <3>2. CASE s # {}
      <4>1. s = {t} /\ pick(s) = t /\ s \ {pick(s)} = {}
        BY <3>2, <1>1
      <4>2. w[{}] = 0 /\ w[s] = Delay(Marked(t))
        BY <3>2, <4>1
      <4>3. Delay(Marked(pick(s))) = Delay(Marked(t))
        BY <4>1
      <4> HIDE DEF w
      <4> QED
        BY <3>2, <4>1, <4>2, <4>3
    <3> QED
      BY <3>1, <3>2
  <2>2. w = [s \in SUBSET {t} |-> w[s]]
    OBVIOUS
  <2> HIDE DEF w
  <2>3. w = Body(w)
    BY <2>1, <2>2
  <2> QED
    BY <2>3
<1>3. iter = Body(iter)
  <2> HIDE DEF Body
  <2> QED
    BY <1>2
<1>4. iter[{t}] = Delay(Marked(pick({t}))) + iter[{t} \ {pick({t})}]
  <2> HIDE DEF iter
  <2> QED
    BY <1>3
<1>5. iter[{}] = 0
  <2> HIDE DEF iter
  <2> QED
    BY <1>3
<1>6. pick({t}) = t /\ {t} \ {pick({t})} = {}
  BY <1>1
<1>7. TotalDelay({t}) = iter[{t}]
  BY Zenon DEF TotalDelay, MapThenSumSet, MapThenFoldSet
<1>8. Delay(Marked(pick({t}))) = Delay(Marked(t))
  BY <1>6
<1> HIDE DEF iter
<1> QED
  BY <1>4, <1>5, <1>6, <1>7, <1>8

\* What one station says stays true while it and its place in the loop stay the same.
LEMMA SameStation ==
    ASSUME NEW j \in Station, StationOK(j),
           UNCHANGED <<slot, prev_state, st[j], station[j], acts[j], down[j], up[j]>>,
           Unaccepted(j)' <=> Unaccepted(j), Between(j)' <=> Between(j),
           Told(j)' <=> Told(j), Heard(j)' <=> Heard(j), Stopped(j)' <=> Stopped(j),
           pc' = "stop" => pc = "stop"
    PROVE  StationOK(j)'
BY DEF StationOK, AbsentOK, BetweenOK, ToldOK, HeardOK, StoppedOK, Ticked, Answered,
       Silent, AnswerOK, AttemptOK, Pending, Gone, TickMsg, ConfigMsg

\* The loops of channel_serve: on to the next station, or to the next part.
LEMMA LoopCases ==
    ASSUME turn \in Station, NEW part, NextTurn(part)
    PROVE  /\ turn' \in Station
           /\ \/ turn < n_stations - 1 /\ turn' = turn + 1 /\ pc' = pc
              \/ turn = n_stations - 1 /\ turn' = 0 /\ pc' = part
BY StationsAssumption DEF NextTurn, Station

InLoop ==
    \/ pc = "accept" /\ NextTurn("tick")
    \/ pc = "tick" /\ NextTurn("listen")
    \/ pc = "listen" /\ NextTurn("resolve")
    \/ pc = "stop" /\ NextTurn("returned")

\* A step of a loop takes the station it is at to the next phase,
LEMMA PhaseOfTurn ==
    ASSUME turn \in Station, NEW j \in Station, j = turn, InLoop
    PROVE  /\ pc = "accept" => Unaccepted(j) /\ pc' # "stop"
           /\ pc \in {"tick", "stop"} => Between(j)
           /\ pc = "listen" => Told(j)
           /\ ~ Unaccepted(j)'
           /\ Between(j)' <=> pc = "accept"
           /\ Told(j)' <=> pc = "tick"
           /\ Heard(j)' <=> pc = "listen"
           /\ Stopped(j)' <=> pc = "stop"
<1>1. j \in Nat /\ turn \in Nat /\ j <= n_stations - 1 /\ n_stations \in Nat
  BY StationsAssumption DEF Station
<1>2. CASE turn < n_stations - 1 /\ turn' = turn + 1 /\ pc' = pc
  <2>1. j >= turn /\ j < turn' /\ ~ (j >= turn')
    BY <1>1, <1>2
  <2> QED
    BY <1>2, <2>1 DEF InLoop, Unaccepted, Between, Told, Heard, Stopped
<1>3. CASE turn = n_stations - 1 /\ turn' = 0
  <2>1. j >= turn' /\ ~ (j < turn') /\ j >= turn
    BY <1>1, <1>3
  <2>2. pc' = CASE pc = "accept" -> "tick" [] pc = "tick" -> "listen"
                [] pc = "listen" -> "resolve" [] OTHER -> "returned"
    BY <1>3, <1>1 DEF NextTurn, InLoop
  <2> QED
    BY <2>1, <2>2 DEF InLoop, Unaccepted, Between, Told, Heard, Stopped
<1> QED
  BY <1>2, <1>3, LoopCases DEF InLoop

\* ... and leaves the others where they are.
LEMMA PhaseOfOthers ==
    ASSUME turn \in Station, NEW j \in Station, j # turn, InLoop
    PROVE  /\ Unaccepted(j)' <=> Unaccepted(j)
           /\ Between(j)' <=> Between(j)
           /\ Told(j)' <=> Told(j)
           /\ Heard(j)' <=> Heard(j)
           /\ Stopped(j)' <=> Stopped(j)
           /\ pc' = "stop" => pc = "stop"
<1>1. j \in Nat /\ turn \in Nat /\ j <= n_stations - 1 /\ n_stations \in Nat
  BY StationsAssumption DEF Station
<1>2. CASE turn < n_stations - 1 /\ turn' = turn + 1 /\ pc' = pc
  <2>1. (j >= turn' <=> j >= turn) /\ (j < turn' <=> j < turn)
    BY <1>1, <1>2
  <2> QED
    BY <1>2, <2>1 DEF Unaccepted, Between, Told, Heard, Stopped
<1>3. CASE turn = n_stations - 1 /\ turn' = 0
  <2>1. j >= turn' /\ ~ (j < turn') /\ j < turn /\ ~ (j >= turn)
    BY <1>1, <1>3
  <2>2. pc' = CASE pc = "accept" -> "tick" [] pc = "tick" -> "listen"
                [] pc = "listen" -> "resolve" [] OTHER -> "returned"
    BY <1>3, <1>1 DEF NextTurn, InLoop
  <2> QED
    BY <2>1, <2>2 DEF Unaccepted, Between, Told, Heard, Stopped, InLoop
<1> QED
  BY <1>2, <1>3, LoopCases DEF InLoop

\* So a step of a loop says nothing new of the stations it is not at.
LEMMA OthersInLoop ==
    ASSUME turn \in Station, InLoop, NEW j \in Station, j # turn, StationOK(j),
           UNCHANGED <<slot, prev_state, st[j], station[j], acts[j], down[j], up[j]>>
    PROVE  StationOK(j)'
BY PhaseOfOthers, SameStation


-----------------------------------------------------------------------------
(* Initially.                                                              *)

\* Before the first station is accepted.
LEMMA InitInv == ASSUME Init PROVE IInv
<1>1. 0 \in Station /\ n_stations \in Nat /\ max_slots \in Nat /\ max_slots > 0
  BY StationsAssumption, SlotsAssumption DEF Station
<1>2. TypeOK
  <2>1. << >> \in Seq(Config \cup Tick) /\ << >> \in Seq(ActionMsg)
    OBVIOUS
  <2>2. metrics \in [DOMAIN NoMetrics -> Nat]
    BY DEF Init, NoMetrics
  <2>3. st \in [Station -> chan_station_t] /\ acts \in [Station -> ActionMsg]
    BY DEF Init, chan_station_t, Result, ActionMsg, Action
  <2>4. station \in [Station -> [at : {"connected", "running", "gone"},
                                 sending : BOOLEAN, wait_for_idle : BOOLEAN]]
    BY DEF Init
  <2> QED
    BY <1>1, <2>1, <2>2, <2>3, <2>4 DEF Init, TypeOK, MediumState
<1>3. Active = {} /\ \A i \in Station : ~ OnAir(st[i])
  BY DEF Init, Active, OnAir
<1>4. LoopOK /\ MediumOK /\ PoliteStationsStartTogether
  <2>1. \A i \in Station : ~ (i < 0)
    BY DEF Station
  <2>2. pc = "accept" /\ turn = 0 /\ slot = 0 /\ n_connected = n_stations
    BY DEF Init
  <2> QED
    BY <1>1, <1>3, <2>1, <2>2 DEF LoopOK, MediumOK, PoliteStationsStartTogether
<1>5. ASSUME NEW i \in Station PROVE TicksOK(i) /\ StationOK(i)
  <2>1. turn = 0 /\ i >= turn /\ pc = "accept"
    BY DEF Init, Station
  <2>2. /\ station[i].at = "connected" /\ ~ station[i].sending
        /\ down[i] = << >> /\ up[i] = << >> /\ acts[i].action = "DONE"
        /\ ~ st[i].connected /\ ~ st[i].active /\ st[i].pending_result = "NONE"
    BY DEF Init
  <2> QED
    BY <2>1, <2>2 DEF TicksOK, StationOK, AbsentOK, Pending, Unaccepted
<1>6. MetricsAddUp /\ ThroughputAndDelayAreBounded
  <2>1. /\ Cardinality(Active) = 0 /\ {i \in Active : st[i].collided} = {}
        /\ {i \in Active : ~ st[i].collided} = {}
    BY <1>3, FS_EmptySet
  <2>2. /\ slot = 0 /\ metrics.total_slots = 0 /\ metrics.idle_slots = 0
        /\ metrics.busy_slots = 0 /\ metrics.collision_slots = 0
        /\ metrics.collision_events = 0 /\ metrics.collided_attempts = 0
        /\ metrics.attempts = 0 /\ metrics.frames_delivered = 0
        /\ metrics.fcs_failures = 0 /\ metrics.sum_delay_slots = 0
    BY DEF Init, NoMetrics
  <2>3. MetricsAddUp
    BY <2>1, <2>2 DEF MetricsAddUp
  <2>4. TotalAge(slot, st, {i \in Active : ~ st[i].collided}) = 0
    BY <2>1, AgeOfNone
  <2>5. ThroughputAndDelayAreBounded
    BY <2>2, <2>4, FrameLenAssumption DEF ThroughputAndDelayAreBounded
  <2> QED
    BY <2>3, <2>5
<1> QED
  BY <1>2, <1>4, <1>5, <1>6 DEF IInv


-----------------------------------------------------------------------------
(* The steps between two ends of slots.                                    *)

MediumPart ==
    /\ MediumOK
    /\ PoliteStationsStartTogether
    /\ MetricsAddUp
    /\ ThroughputAndDelayAreBounded

Clean == {i \in Active : ~ st[i].collided}

\* At most one transmission on the air is clean.
LEMMA CleanAge ==
    ASSUME TypeOK, MediumOK
    PROVE  \/ Clean = {} /\ TotalAge(slot, st, Clean) = 0
           \/ \E t \in Active : Clean = {t} /\ TotalAge(slot, st, Clean) = slot - st[t].start_slot
<1>1. CASE Clean = {}
  BY <1>1, AgeOfNone
<1>2. ASSUME NEW t \in Clean
      PROVE  t \in Active /\ Clean = {t} /\ TotalAge(slot, st, Clean) = slot - st[t].start_slot
  <2>1. t \in Active /\ t \in Station /\ Clean = {t}
    BY <1>2 DEF MediumOK, Clean, Active
  <2>2. slot - st[t].start_slot \in Int
    BY <2>1 DEF TypeOK, chan_station_t
  <2> QED
    BY <2>1, <2>2, AgeOfOne
<1> QED
  BY <1>1, <1>2

\* The medium and the metrics change at the end of a slot only.
LEMMA SameMedium ==
    ASSUME TypeOK, MediumPart,
           UNCHANGED <<slot, prev_state, metrics>>,
           \A i \in Station :
              /\ (st'[i].connected /\ st'[i].active) <=> OnAir(st[i])
              /\ st'[i].start_slot = st[i].start_slot
              /\ st'[i].collided = st[i].collided
              /\ st'[i].enqueue_slot = st[i].enqueue_slot
              /\ station'[i].wait_for_idle = station[i].wait_for_idle
    PROVE  MediumPart'
<1>1. Active' = Active /\ Active \subseteq Station
  BY DEF Active, OnAir
<1>2. Clean' = Clean
  BY <1>1 DEF Clean
<1>3. MediumOK' /\ PoliteStationsStartTogether'
  BY <1>1 DEF MediumPart, MediumOK, PoliteStationsStartTogether
<1>4. {i \in Active : st[i].collided}' = {i \in Active : st[i].collided}
  BY <1>1
<1>5. MetricsAddUp'
  BY <1>1, <1>4 DEF MediumPart, MetricsAddUp
<1>6. TotalAge(slot, st', Clean) = TotalAge(slot, st, Clean)
  <2>1. CASE Clean = {}
    BY <2>1, AgeOfNone
  <2>2. ASSUME NEW t \in Active, Clean = {t},
               TotalAge(slot, st, Clean) = slot - st[t].start_slot
        PROVE  TotalAge(slot, st', Clean) = TotalAge(slot, st, Clean)
    <3>1. slot - st'[t].start_slot = slot - st[t].start_slot /\ slot - st[t].start_slot \in Int
      BY <1>1 DEF TypeOK, chan_station_t
    <3> QED
      BY <2>2, <3>1, AgeOfOne
  <2> QED
    BY <2>1, <2>2, CleanAge DEF MediumPart
<1>7. ThroughputAndDelayAreBounded'
  BY <1>2, <1>6 DEF MediumPart, ThroughputAndDelayAreBounded, Clean
<1> QED
  BY <1>3, <1>5, <1>7 DEF MediumPart

\* The station at turn is accepted and configured.
LEMMA AcceptInv == ASSUME IInv, Accept PROVE IInv'
<1>1. /\ pc = "accept" /\ turn \in Station /\ NextTurn("tick") /\ InLoop /\ Running
      /\ SendDown(turn, ConfigMsg)
      /\ st' = [st EXCEPT ![turn].connected = TRUE, ![turn].active = FALSE,
                          ![turn].pending_result = "NONE"]
      /\ UNCHANGED <<slot, prev_state, n_connected, metrics, acts, up, station>>
  BY DEF Accept, InLoop, IInv, TypeOK, Running, ConfigMsg
<1>2. turn' \in Station /\ pc' \in {"accept", "tick"}
  BY <1>1, LoopCases
<1>3. /\ ~ st[turn].connected /\ ~ st[turn].active /\ st[turn] \in chan_station_t
      /\ down[turn] = << >> /\ up[turn] = << >>
      /\ station[turn].at # "running" /\ ~ station[turn].sending
  BY <1>1 DEF IInv, TypeOK, Station, StationOK, AbsentOK, Unaccepted
<1>4. /\ \A j \in Station : j # turn => st'[j] = st[j] /\ down'[j] = down[j]
      /\ st'[turn] = [st[turn] EXCEPT !.connected = TRUE, !.active = FALSE,
                                      !.pending_result = "NONE"]
      /\ down'[turn] = IF Gone(turn) THEN << >> ELSE <<ConfigMsg>>
  BY <1>1, <1>3, Queues DEF SendDown, IInv, TypeOK
<1>5. TypeOK'
  <2>1. ConfigMsg \in Config \cup Tick
    BY DEF ConfigMsg, Config
  <2>2. down' \in [Station -> Seq(Config \cup Tick)]
    BY <1>1, <2>1, QueueTypes DEF SendDown, IInv, TypeOK
  <2>3. st' \in [Station -> chan_station_t]
    BY <1>1, <1>3 DEF IInv, TypeOK, chan_station_t, Result
  <2> QED
    BY <1>1, <1>2, <2>2, <2>3 DEF IInv, TypeOK
<1>6. ASSUME NEW j \in Station PROVE StationOK(j)' /\ TicksOK(j)'
  <2>1. CASE j # turn
    BY <1>1, <1>4, <2>1, OthersInLoop DEF IInv, TicksOK
  <2>2. CASE j = turn
    <3>1. Between(j)' /\ ~ Unaccepted(j)' /\ ~ Told(j)' /\ ~ Heard(j)' /\ ~ Stopped(j)'
          /\ pc' # "stop"
      BY <1>1, <2>2, PhaseOfTurn
    <3>2. /\ st'[j].connected /\ ~ st'[j].active /\ st'[j].pending_result = "NONE"
      BY <1>3, <1>4, <2>2 DEF chan_station_t
    <3>3. BetweenOK(j)'
      BY <1>1, <1>3, <1>4, <2>2, <3>1, <3>2
      DEF BetweenOK, AttemptOK, Pending, Gone, IInv, TypeOK, ConfigMsg
    <3>4. TicksOK(j)'
      <4>1. Tail(<<ConfigMsg>>) = << >> /\ << >> \in Seq(Tick)
        BY Queues
      <4> QED
        BY <1>1, <1>3, <1>4, <2>2, <4>1 DEF TicksOK, Gone
    <3> QED
      BY <3>1, <3>2, <3>3, <3>4 DEF StationOK
  <2> QED
    BY <2>1, <2>2
<1>7. LoopOK'
  <2>1. \A i \in Station : i < turn => st[i].connected
    BY <1>1 DEF IInv, LoopOK
  <2>2. CASE pc' = "accept"
    <3>1. turn' = turn + 1
      BY <1>1, <2>2, LoopCases
    <3>2. \A i \in Station : i < turn' => i < turn \/ i = turn
      BY <1>1, <3>1 DEF Station
    <3> QED
      BY <1>1, <1>4, <2>1, <2>2, <3>2 DEF IInv, LoopOK, TypeOK, chan_station_t
  <2>3. CASE pc' = "tick"
    <3>1. turn = n_stations - 1
      BY <1>1, <2>3, LoopCases
    <3>2. \A i \in Station : i < turn \/ i = turn
      BY <1>1, <3>1, StationsAssumption DEF Station
    <3>3. {i \in Station : st'[i].connected} = Station
      BY <1>1, <1>4, <2>1, <3>2 DEF IInv, TypeOK, chan_station_t
    <3> QED
      BY <1>1, <2>3, <3>3, StationsFinite DEF IInv, LoopOK
  <2> QED
    BY <1>2, <2>2, <2>3
<1>8. MediumPart'
  <2>1. \A i \in Station :
              /\ (st'[i].connected /\ st'[i].active) <=> OnAir(st[i])
              /\ st'[i].start_slot = st[i].start_slot
              /\ st'[i].collided = st[i].collided
              /\ st'[i].enqueue_slot = st[i].enqueue_slot
    BY <1>1, <1>3, <1>4 DEF OnAir, chan_station_t, IInv, TypeOK
  <2> QED
    BY <1>1, <2>1, SameMedium DEF IInv, MediumPart
<1> QED
  BY <1>1, <1>5, <1>6, <1>7, <1>8 DEF IInv, MediumPart


\* A tick is typed.
LEMMA TickTyped ==
    ASSUME TypeOK, NEW result \in Result, NEW stop \in BOOLEAN
    PROVE  TickMsg(result, stop) \in Tick
<1>1. slot \in Nat
  BY SlotsAssumption DEF TypeOK
<1> QED
  BY <1>1 DEF TypeOK, TickMsg, Tick

\* The station at turn is told of the last slot, and of its result.
LEMMA SendTickInv == ASSUME IInv, SendTick PROVE IInv'
<1>1. /\ pc = "tick" /\ turn \in Station /\ NextTurn("listen") /\ InLoop /\ Running
      /\ UNCHANGED <<slot, prev_state, n_connected, metrics, acts, up, station>>
  BY DEF SendTick, InLoop, IInv, TypeOK, Running
<1>2. turn' \in Station /\ pc' \in {"tick", "listen"}
  BY <1>1, LoopCases
<1>3. st[turn] \in chan_station_t
  BY <1>1 DEF IInv, TypeOK
<1>4. PICK r \in Result : r = st[turn].pending_result
  BY <1>3 DEF chan_station_t
<1>5. StationOK(turn) /\ Between(turn)
  BY <1>1, PhaseOfTurn DEF IInv
<1>6. CASE ~ st[turn].connected
  <2>1. UNCHANGED <<down, st>>
    BY <1>1, <1>6 DEF SendTick
  <2>2. TypeOK'
    BY <1>1, <1>2, <2>1 DEF IInv, TypeOK
  <2>3. ASSUME NEW j \in Station PROVE StationOK(j)' /\ TicksOK(j)'
    <3>1. CASE j # turn
      BY <1>1, <2>1, <3>1, OthersInLoop DEF IInv, TicksOK
    <3>2. CASE j = turn
      <4>1. ~ Unaccepted(j)' /\ ~ Unaccepted(j)
        BY <1>1, <3>2, PhaseOfTurn DEF Unaccepted
      <4>2. AbsentOK(j)
        BY <1>5, <1>6, <3>2 DEF StationOK
      <4>3. AbsentOK(j)'
        BY <1>1, <2>1, <4>1, <4>2 DEF AbsentOK, Pending, Gone
      <4> QED
        BY <1>1, <1>6, <2>1, <3>2, <4>3 DEF StationOK, IInv, TicksOK
    <3> QED
      BY <3>1, <3>2
  <2>4. LoopOK'
    BY <1>1, <1>2, <2>1 DEF IInv, LoopOK
  <2>5. MediumPart'
    BY <1>1, <2>1, SameMedium DEF IInv, MediumPart, OnAir
  <2> QED
    BY <1>1, <2>2, <2>3, <2>4, <2>5 DEF IInv, MediumPart
<1>7. CASE st[turn].connected
  <2> DEFINE tick == TickMsg(r, FALSE)
  <2>1. /\ st' = [st EXCEPT ![turn] = [@ EXCEPT !.pending_result = "NONE"]]
        /\ SendDown(turn, tick)
    BY <1>1, <1>4, <1>7 DEF SendTick, ResultSent, TickMsg
  <2>2. tick \in Tick
    BY TickTyped DEF IInv
  <2> HIDE DEF tick
  <2>3. /\ \A j \in Station : j # turn => st'[j] = st[j] /\ down'[j] = down[j]
        /\ st'[turn] = [st[turn] EXCEPT !.pending_result = "NONE"]
        /\ down'[turn] = IF Gone(turn) THEN down[turn] ELSE Append(down[turn], tick)
    BY <1>1, <2>1 DEF SendDown, IInv, TypeOK
  <2>4. TypeOK'
    <3>1. down' \in [Station -> Seq(Config \cup Tick)]
      <4>1. down[turn] \in Seq(Config \cup Tick)
        BY <1>1 DEF IInv, TypeOK
      <4>2. Append(down[turn], tick) \in Seq(Config \cup Tick)
        BY <2>2, <4>1, QueueTypes
      <4> QED
        BY <1>1, <2>1, <4>2 DEF SendDown, IInv, TypeOK
    <3>2. [st[turn] EXCEPT !.pending_result = "NONE"] \in chan_station_t
      BY <1>3 DEF chan_station_t, Result
    <3>3. st' \in [Station -> chan_station_t]
      BY <1>1, <2>1, <3>2 DEF IInv, TypeOK
    <3> QED
      BY <1>1, <1>2, <3>1, <3>3 DEF IInv, TypeOK
  <2>5. /\ st'[turn].connected = st[turn].connected
        /\ st'[turn].active = st[turn].active
        /\ st'[turn].start_slot = st[turn].start_slot
        /\ st'[turn].collided = st[turn].collided
        /\ st'[turn].enqueue_slot = st[turn].enqueue_slot
        /\ st'[turn].pending_result = "NONE"
    BY <1>3, <2>3 DEF chan_station_t
  <2>6. ASSUME NEW j \in Station, j = turn PROVE StationOK(j)' /\ TicksOK(j)'
    <3>1. /\ Told(j)' /\ ~ Unaccepted(j)' /\ ~ Between(j)' /\ ~ Heard(j)' /\ ~ Stopped(j)'
      BY <1>1, <2>6, PhaseOfTurn
    <3>2. /\ st'[j].connected /\ st'[j].active = st[j].active
          /\ st'[j].pending_result = "NONE" /\ st[j].pending_result = r
          /\ up'[j] = up[j] /\ station'[j] = station[j]
      BY <1>1, <1>4, <1>7, <2>5, <2>6
    <3>3. BetweenOK(j)
      BY <1>5, <1>7, <2>6 DEF StationOK
    <3>4. station[j].at \in {"connected", "running", "gone"}
      BY DEF IInv, TypeOK
    <3>5. /\ Gone(j) => down'[j] = << >>
          /\ station[j].at = "running" => down'[j] = <<tick>>
          /\ station[j].at = "connected" => down'[j] = <<ConfigMsg, tick>>
      <4>1. Append(<< >>, tick) = <<tick>> /\ Append(<<ConfigMsg>>, tick) = <<ConfigMsg, tick>>
        BY Queues
      <4> QED
        BY <2>3, <2>6, <3>3, <4>1 DEF Gone, BetweenOK
    <3>6. tick = TickMsg(r, FALSE)'
      BY <1>1 DEF tick, TickMsg
    <3>7. ASSUME Gone(j) PROVE StationOK(j)'
      <4>1. ToldOK(j)'
        BY <3>2, <3>3, <3>5, <3>7
        DEF ToldOK, Ticked, Answered, Silent, Pending, Gone, BetweenOK
      <4> QED
        BY <3>1, <3>2, <4>1 DEF StationOK
    <3>8. ASSUME ~ Gone(j) PROVE StationOK(j)'
      <4>1. Ticked(j, r)'
        BY <3>2, <3>3, <3>4, <3>5, <3>6, <3>8
        DEF Ticked, ConfigMsg, Gone, AttemptOK, Pending, BetweenOK
      <4>2. ToldOK(j)'
        BY <4>1, <3>2 DEF ToldOK, Ticked, Answered, Silent, Pending
      <4> QED
        BY <3>1, <3>2, <4>2 DEF StationOK
    <3>9. TicksOK(j)'
      <4>1. <<tick>> \in Seq(Tick) /\ << >> \in Seq(Tick)
        BY <2>2
      <4>2. Tail(<<ConfigMsg, tick>>) = <<tick>>
        BY Queues
      <4> QED
        BY <3>2, <3>5, <4>1, <4>2 DEF TicksOK
    <3> QED
      BY <3>7, <3>8, <3>9
  <2>7. ASSUME NEW j \in Station, j # turn PROVE StationOK(j)' /\ TicksOK(j)'
    BY <1>1, <2>3, <2>7, OthersInLoop DEF IInv, TicksOK
  <2>8. LoopOK'
    <3>1. {i \in Station : st'[i].connected} = {i \in Station : st[i].connected}
      BY <2>3, <2>5
    <3> QED
      BY <1>1, <1>2, <3>1 DEF IInv, LoopOK
  <2>9. MediumPart'
    BY <1>1, <2>3, <2>5, SameMedium DEF IInv, MediumPart, OnAir
  <2> QED
    BY <1>1, <2>4, <2>6, <2>7, <2>8, <2>9 DEF IInv, MediumPart
<1> QED
  BY <1>6, <1>7

\* A step of the channel that changes no station and not the medium.
LEMMA QuietMedium ==
    ASSUME IInv, UNCHANGED <<slot, prev_state, n_connected, metrics, st>>,
           \A i \in Station : station'[i].wait_for_idle = station[i].wait_for_idle
    PROVE  MediumPart'
BY SameMedium DEF IInv, MediumPart, OnAir

\* A failed experiment changes nothing that counts.
LEMMA FailureInv ==
    ASSUME IInv, pc' \in {"failed", "killed"},
           UNCHANGED <<turn, slot, prev_state, n_connected, metrics, st, acts, down, station>>,
           \A i \in Station : up'[i] \in Seq(ActionMsg), up' = [i \in Station |-> up'[i]]
    PROVE  IInv'
<1>1. TypeOK'
  <2>1. up' \in [Station -> Seq(ActionMsg)]
    OBVIOUS
  <2> QED
    BY <2>1 DEF IInv, TypeOK
<1>2. LoopOK' /\ ~ Running'
  BY DEF LoopOK, Running
<1>3. \A i \in Station : TicksOK(i)'
  BY DEF IInv, TicksOK
<1>4. MediumPart'
  BY QuietMedium
<1> QED
  BY <1>1, <1>2, <1>3, <1>4 DEF IInv, MediumPart

\* The ways to fail that leave the stations as they are: the signal,
LEMMA BrokenPipeInv == ASSUME IInv, BrokenPipe PROVE IInv'
BY FailureInv DEF BrokenPipe, IInv, TypeOK

\* ... the error of a write,
LEMMA WriteFailsInv == ASSUME IInv, WriteFails PROVE IInv'
BY FailureInv DEF WriteFails, Fail, IInv, TypeOK

\* ... and the end of a connection.
LEMMA ListenEofInv == ASSUME IInv, ListenEof PROVE IInv'
BY FailureInv DEF ListenEof, Fail, IInv, TypeOK


\* The station at turn is heard, or its answer is for another slot.
LEMMA ListenInv == ASSUME IInv, Listen PROVE IInv'
<1>1. /\ pc = "listen" /\ turn \in Station /\ Running /\ StationOK(turn)
      /\ UNCHANGED <<slot, prev_state, n_connected, metrics, st, down, station>>
  BY DEF Listen, IInv, TypeOK, Running
<1>2. MediumPart'
  BY <1>1, QuietMedium
<1>3. CASE ~ st[turn].connected
  <2>1. NextTurn("resolve") /\ InLoop /\ UNCHANGED <<acts, up>>
    BY <1>1, <1>3 DEF Listen, InLoop
  <2>2. turn' \in Station /\ pc' \in {"listen", "resolve"} /\ (pc' = "resolve" => turn' = 0)
    BY <1>1, <2>1, LoopCases
  <2>3. TypeOK' /\ LoopOK'
    BY <1>1, <2>1, <2>2 DEF IInv, TypeOK, LoopOK, Running
  <2>4. ASSUME NEW j \in Station PROVE StationOK(j)' /\ TicksOK(j)'
    <3>1. CASE j # turn
      BY <1>1, <2>1, <3>1, OthersInLoop DEF IInv, TicksOK
    <3>2. CASE j = turn
      <4>1. ~ Unaccepted(j)' /\ ~ Unaccepted(j)
        BY <1>1, <2>1, <3>2, PhaseOfTurn DEF Unaccepted
      <4>2. AbsentOK(j)
        BY <1>1, <1>3, <3>2 DEF StationOK
      <4>3. AbsentOK(j)'
        BY <1>1, <2>1, <4>1, <4>2 DEF AbsentOK, Pending, Gone
      <4> QED
        BY <1>1, <1>3, <2>1, <3>2, <4>3 DEF StationOK, IInv, TicksOK
    <3> QED
      BY <3>1, <3>2
  <2> QED
    BY <1>1, <1>2, <2>3, <2>4 DEF IInv, MediumPart
<1>4. CASE st[turn].connected
  <2>1. up[turn] # << >> /\ up' = [up EXCEPT ![turn] = Tail(@)]
    BY <1>1, <1>4 DEF Listen
  <2>2. up[turn] \in Seq(ActionMsg)
    BY <1>1 DEF IInv, TypeOK
  <2>3. Head(up[turn]) \in ActionMsg /\ Tail(up[turn]) \in Seq(ActionMsg)
    BY <2>1, <2>2, HeadOfQueue
  <2>4. /\ \A i \in Station : up'[i] \in Seq(ActionMsg)
        /\ up' = [i \in Station |-> up'[i]]
        /\ \A i \in Station : i # turn => up'[i] = up[i]
        /\ up'[turn] = Tail(up[turn])
    BY <1>1, <2>1, <2>3 DEF IInv, TypeOK
  <2>5. CASE ~ InStep(Head(up[turn]))
    <3>1. Fail
      BY <1>1, <1>4, <2>5 DEF Listen
    <3> QED
      BY <1>1, <2>4, <3>1, FailureInv DEF Fail
  <2>6. CASE InStep(Head(up[turn]))
    <3> DEFINE msg == Head(up[turn])
    <3>1. /\ NextTurn("resolve") /\ InLoop
          /\ acts' = [acts EXCEPT ![turn] = msg]
      BY <1>1, <1>4, <2>6 DEF Listen, InLoop
    <3>2. /\ turn' \in Station /\ pc' \in {"listen", "resolve"}
          /\ (pc' = "resolve" => turn' = 0)
      BY <1>1, <3>1, LoopCases
    <3>3. TypeOK'
      BY <1>1, <2>3, <2>4, <3>1, <3>2 DEF IInv, TypeOK
    <3>4. LoopOK'
      BY <1>1, <3>2 DEF IInv, LoopOK, Running
    <3>5. \A j \in Station : TicksOK(j)'
      BY <1>1 DEF IInv, TicksOK
    <3>6. ASSUME NEW j \in Station, j # turn PROVE StationOK(j)'
      <4>1. acts'[j] = acts[j]
        BY <1>1, <3>1, <3>6 DEF IInv, TypeOK
      <4> QED
        BY <1>1, <2>4, <3>1, <3>6, <4>1, OthersInLoop DEF IInv
    <3>7. ASSUME NEW j \in Station, j = turn PROVE StationOK(j)'
      <4>1. /\ Heard(j)' /\ ~ Unaccepted(j)' /\ ~ Between(j)' /\ ~ Told(j)' /\ ~ Stopped(j)'
            /\ Told(j)
        BY <1>1, <3>1, <3>7, PhaseOfTurn
      <4>2. ToldOK(j)
        BY <1>1, <1>4, <3>7, <4>1 DEF StationOK
      <4>3. Answered(j) /\ ~ Pending(j)
        BY <2>1, <3>7, <4>2 DEF ToldOK, Ticked, Silent
      <4>4. acts'[j] = Head(up[j]) /\ AnswerOK(j, Head(up[j])) /\ down[j] = << >>
        BY <1>1, <3>1, <3>7, <4>3 DEF Answered, IInv, TypeOK
      <4>5. up'[j] = << >>
        <5>1. up[j] = <<Head(up[j])>>
          BY <4>3 DEF Answered
        <5>2. Tail(<<Head(up[j])>>) = << >>
          BY Queues
        <5> QED
          BY <2>4, <3>7, <5>1, <5>2
      <4>6. HeardOK(j)'
        BY <1>1, <4>3, <4>4, <4>5 DEF HeardOK, AnswerOK, AttemptOK, Pending, Gone
      <4> QED
        BY <1>1, <1>4, <3>7, <4>1, <4>6 DEF StationOK
    <3> QED
      BY <1>1, <1>2, <3>3, <3>4, <3>5, <3>6, <3>7 DEF IInv, MediumPart
  <2> QED
    BY <2>5, <2>6
<1> QED
  BY <1>3, <1>4

\* The station at turn is told to stop.
LEMMA SendStopInv == ASSUME IInv, SendStop PROVE IInv'
<1> DEFINE tick == TickMsg("NONE", TRUE)
<1>1. /\ pc = "stop" /\ turn \in Station /\ NextTurn("returned") /\ InLoop /\ Running
      /\ StationOK(turn)
      /\ UNCHANGED <<slot, prev_state, n_connected, metrics, st, acts, up, station>>
  BY DEF SendStop, InLoop, IInv, TypeOK, Running
<1>2. turn' \in Station /\ pc' \in {"stop", "returned"}
  BY <1>1, LoopCases
<1>3. MediumPart'
  BY <1>1, QuietMedium
<1>4. LoopOK'
  BY <1>1, <1>2 DEF IInv, LoopOK, Running
<1>5. tick \in Tick
  BY TickTyped DEF IInv, Result
<1>6. tick = tick'
  BY <1>1 DEF TickMsg
<1> HIDE DEF tick
<1>7. \/ ~ st[turn].connected /\ UNCHANGED down
      \/ st[turn].connected /\ SendDown(turn, tick)
  BY <1>1 DEF SendStop, ToldToStop, TickMsg, tick
<1>8. TypeOK'
  <2>1. down[turn] \in Seq(Config \cup Tick)
    BY <1>1 DEF IInv, TypeOK
  <2>2. Append(down[turn], tick) \in Seq(Config \cup Tick)
    BY <1>5, <2>1, QueueTypes
  <2>3. down' \in [Station -> Seq(Config \cup Tick)]
    BY <1>1, <1>7, <2>2 DEF SendDown, IInv, TypeOK
  <2> QED
    BY <1>1, <1>2, <2>3 DEF IInv, TypeOK
<1>9. ASSUME NEW j \in Station, j # turn PROVE StationOK(j)' /\ TicksOK(j)'
  <2>1. down'[j] = down[j]
    BY <1>1, <1>7, <1>9 DEF SendDown, IInv, TypeOK
  <2> QED
    BY <1>1, <1>9, <2>1, OthersInLoop DEF IInv, TicksOK
<1>10. ASSUME NEW j \in Station, j = turn PROVE StationOK(j)' /\ TicksOK(j)'
  <2>1. CASE ~ st[j].connected
    <3>1. ~ Unaccepted(j)' /\ ~ Unaccepted(j)
      BY <1>1, <1>10, PhaseOfTurn DEF Unaccepted
    <3>2. AbsentOK(j) /\ UNCHANGED down
      BY <1>1, <1>7, <1>10, <2>1 DEF StationOK
    <3>3. AbsentOK(j)'
      BY <1>1, <3>1, <3>2 DEF AbsentOK, Pending, Gone
    <3> QED
      BY <1>1, <2>1, <3>2, <3>3 DEF StationOK, IInv, TicksOK
  <2>2. CASE st[j].connected
    <3>1. /\ Stopped(j)' /\ ~ Unaccepted(j)' /\ ~ Between(j)' /\ ~ Told(j)' /\ ~ Heard(j)'
          /\ Between(j)
      BY <1>1, <1>10, PhaseOfTurn
    <3>2. BetweenOK(j)
      BY <1>1, <1>10, <2>2, <3>1 DEF StationOK
    <3>3. station[j].at \in {"running", "gone"} /\ down[j] = << >>
      BY <1>1, <3>2 DEF BetweenOK, IInv, TypeOK
    <3>4. down'[j] = IF Gone(j) THEN << >> ELSE <<tick>>
      <4>1. Append(<< >>, tick) = <<tick>>
        BY Queues
      <4> QED
        BY <1>1, <1>7, <1>10, <2>2, <3>3, <4>1 DEF SendDown, IInv, TypeOK
    <3>5. StoppedOK(j)'
      BY <1>1, <1>6, <3>2, <3>3, <3>4 DEF StoppedOK, BetweenOK, AttemptOK, Pending, Gone, tick
    <3>6. TicksOK(j)'
      <4>1. <<tick>> \in Seq(Tick) /\ << >> \in Seq(Tick)
        BY <1>5
      <4> QED
        BY <1>1, <3>3, <3>4, <4>1 DEF TicksOK
    <3> QED
      BY <1>1, <2>2, <3>1, <3>5, <3>6 DEF StationOK
  <2> QED
    BY <2>1, <2>2
<1> QED
  BY <1>1, <1>3, <1>4, <1>8, <1>9, <1>10 DEF IInv, MediumPart


\* A step of a station changes its own state and its connection only.
LEMMA OtherStations ==
    ASSUME UNCHANGED channelVars, NEW j \in Station, StationOK(j),
           UNCHANGED <<station[j], down[j], up[j]>>
    PROVE  StationOK(j)'
<1>1. /\ UNCHANGED <<pc, turn, slot, prev_state, st, acts>>
  BY DEF channelVars
<1>2. /\ UNCHANGED <<st[j], acts[j]>>
      /\ Unaccepted(j)' <=> Unaccepted(j)
      /\ Between(j)' <=> Between(j)
      /\ Told(j)' <=> Told(j)
      /\ Heard(j)' <=> Heard(j)
      /\ Stopped(j)' <=> Stopped(j)
  BY <1>1 DEF Unaccepted, Between, Told, Heard, Stopped
<1> QED
  BY <1>1, <1>2, SameStation

\* What is left to show of such a step.
LEMMA StationStepInv ==
    ASSUME IInv, UNCHANGED channelVars, NEW i \in Station,
           NEW d \in Seq(Config \cup Tick), down' = [down EXCEPT ![i] = d],
           NEW u \in Seq(ActionMsg), up' = [up EXCEPT ![i] = u],
           NEW p \in [at : {"connected", "running", "gone"}, sending : BOOLEAN,
                      wait_for_idle : BOOLEAN],
           station' = [station EXCEPT ![i] = p],
           p.wait_for_idle = station[i].wait_for_idle,
           TicksOK(i)', Running => StationOK(i)'
    PROVE  IInv'
<1>1. UNCHANGED <<pc, turn, slot, prev_state, n_connected, metrics, st, acts>>
  BY DEF channelVars
<1>2. TypeOK'
  BY <1>1 DEF IInv, TypeOK
<1>3. LoopOK' /\ (Running' <=> Running)
  BY <1>1 DEF IInv, LoopOK, Running
<1>4. ASSUME NEW j \in Station PROVE TicksOK(j)' /\ (Running => StationOK(j)')
  <2>1. CASE j = i
    BY <2>1
  <2>2. CASE j # i
    <3>1. UNCHANGED <<station[j], down[j], up[j]>>
      BY <2>2 DEF IInv, TypeOK
    <3> QED
      BY <3>1, OtherStations DEF IInv, TicksOK
  <2> QED
    BY <2>1, <2>2
<1>5. MediumPart'
  <2>1. \A j \in Station : station'[j].wait_for_idle = station[j].wait_for_idle
    BY DEF IInv, TypeOK
  <2> QED
    BY <1>1, <2>1, QuietMedium
<1> QED
  BY <1>2, <1>3, <1>4, <1>5 DEF IInv, MediumPart

\* A station may leave, or crash, at any time.
LEMMA LeaveInv ==
    ASSUME IInv, NEW i \in Station, Leave(i), UNCHANGED <<channelVars, up>>
    PROVE  IInv'
<1> DEFINE p == [station[i] EXCEPT !.at = "gone"]
<1>1. /\ station' = [station EXCEPT ![i] = p]
      /\ p \in [at : {"connected", "running", "gone"}, sending : BOOLEAN,
                wait_for_idle : BOOLEAN]
      /\ p.wait_for_idle = station[i].wait_for_idle
      /\ station'[i].at = "gone" /\ station'[i].sending = station[i].sending
      /\ station'[i].wait_for_idle = station[i].wait_for_idle
  BY DEF Leave, IInv, TypeOK
<1>2. /\ down' = [down EXCEPT ![i] = << >>] /\ << >> \in Seq(Config \cup Tick)
      /\ down'[i] = << >>
  BY DEF Leave, IInv, TypeOK
<1>3. up' = [up EXCEPT ![i] = up[i]] /\ up[i] \in Seq(ActionMsg) /\ up'[i] = up[i]
  BY DEF IInv, TypeOK
<1>4. TicksOK(i)'
  BY <1>1 DEF TicksOK
<1>5. ASSUME Running PROVE StationOK(i)'
  <2>1. /\ StationOK(i) /\ station[i].at \in {"connected", "running", "gone"}
        /\ UNCHANGED <<pc, turn, slot, prev_state, st, acts>>
    BY <1>5 DEF IInv, TypeOK, channelVars
  <2>2. AbsentOK(i) => AbsentOK(i)'
    BY <1>1, <1>2, <1>3, <2>1 DEF AbsentOK, Pending, Gone, Unaccepted
  <2>3. BetweenOK(i) => BetweenOK(i)'
    BY <1>1, <1>2, <1>3, <2>1 DEF BetweenOK, AttemptOK, Pending, Gone
  <2>4. ToldOK(i) => ToldOK(i)'
    BY <1>1, <1>2, <1>3, <2>1
    DEF ToldOK, Ticked, Answered, Silent, AnswerOK, AttemptOK, Pending, Gone
  <2>5. HeardOK(i) => HeardOK(i)'
    BY <1>1, <1>2, <1>3, <2>1 DEF HeardOK, AnswerOK, AttemptOK, Pending, Gone
  <2>6. StoppedOK(i) => StoppedOK(i)'
    BY <1>1, <1>2, <1>3, <2>1 DEF StoppedOK, AttemptOK, Pending, Gone
  <2>7. /\ Unaccepted(i)' <=> Unaccepted(i)
        /\ Between(i)' <=> Between(i)
        /\ Told(i)' <=> Told(i)
        /\ Heard(i)' <=> Heard(i)
        /\ Stopped(i)' <=> Stopped(i)
    BY <2>1 DEF Unaccepted, Between, Told, Heard, Stopped
  <2> QED
    BY <2>1, <2>2, <2>3, <2>4, <2>5, <2>6, <2>7 DEF StationOK
<1> HIDE DEF p
<1> QED
  BY <1>1, <1>2, <1>3, <1>4, <1>5, StationStepInv

\* A station reads its configuration.
LEMMA ReadConfigInv ==
    ASSUME IInv, NEW i \in Station, ReadConfig(i)
    PROVE  IInv'
<1> DEFINE p == [station[i] EXCEPT !.at = "running"]
           d == Tail(down[i])
<1>1. /\ station[i].at = "connected" /\ down[i] # << >>
      /\ UNCHANGED channelVars /\ UNCHANGED up
      /\ UNCHANGED <<pc, turn, slot, prev_state, st, acts>>
  BY DEF ReadConfig, channelVars
<1>2. /\ station' = [station EXCEPT ![i] = p]
      /\ p \in [at : {"connected", "running", "gone"}, sending : BOOLEAN,
                wait_for_idle : BOOLEAN]
      /\ p.wait_for_idle = station[i].wait_for_idle
      /\ station'[i].at = "running" /\ station'[i].sending = station[i].sending
  BY DEF ReadConfig, IInv, TypeOK
<1>3. /\ down' = [down EXCEPT ![i] = d] /\ d \in Seq(Config \cup Tick)
      /\ down'[i] = d
  <2>1. down[i] \in Seq(Config \cup Tick)
    BY DEF IInv, TypeOK
  <2> QED
    BY <1>1, <2>1, HeadOfQueue DEF ReadConfig, IInv, TypeOK
<1>4. up' = [up EXCEPT ![i] = up[i]] /\ up[i] \in Seq(ActionMsg) /\ up'[i] = up[i]
  BY <1>1 DEF IInv, TypeOK
<1>5. TicksOK(i)'
  <2>1. TicksOK(i)
    BY DEF IInv
  <2> QED
    BY <1>1, <1>2, <1>3, <2>1 DEF TicksOK
<1>6. ASSUME Running PROVE StationOK(i)'
  <2>1. /\ StationOK(i) /\ st[i].connected
        /\ ~ Heard(i) /\ ~ Stopped(i) /\ ~ Unaccepted(i)
    BY <1>1, <1>6 DEF IInv, StationOK, AbsentOK, Gone, HeardOK, AnswerOK, StoppedOK
  <2>2. /\ Unaccepted(i)' <=> Unaccepted(i)
        /\ Between(i)' <=> Between(i)
        /\ Told(i)' <=> Told(i)
        /\ Heard(i)' <=> Heard(i)
        /\ Stopped(i)' <=> Stopped(i)
    BY <1>1 DEF Unaccepted, Between, Told, Heard, Stopped
  <2>3. ASSUME Between(i) PROVE BetweenOK(i)'
    <3>1. BetweenOK(i) /\ down[i] = <<ConfigMsg>>
      BY <1>1, <2>1, <2>3 DEF StationOK, BetweenOK
    <3>2. d = << >>
      BY <3>1, Queues
    <3> QED
      BY <1>1, <1>2, <1>3, <1>4, <3>1, <3>2 DEF BetweenOK, AttemptOK, Pending, Gone
  <2>4. ASSUME Told(i) PROVE ToldOK(i)'
    <3>1. ToldOK(i) /\ ~ Answered(i) /\ ~ Silent(i)
      BY <1>1, <2>1, <2>4 DEF StationOK, Answered, AnswerOK, Silent, Gone
    <3>2. PICK r \in Result : Ticked(i, r)
      BY <3>1 DEF ToldOK
    <3>3. ~ Pending(i) /\ down[i] = <<ConfigMsg, TickMsg(r, FALSE)>>
      BY <1>1, <3>1, <3>2 DEF ToldOK, Ticked
    <3>4. d = <<TickMsg(r, FALSE)>>
      <4>1. Tail(<<ConfigMsg, TickMsg(r, FALSE)>>) = <<TickMsg(r, FALSE)>>
        BY Queues
      <4> QED
        BY <3>3, <4>1
    <3>5. Ticked(i, r)'
      BY <1>1, <1>2, <1>3, <1>4, <3>2, <3>4 DEF Ticked, AttemptOK, Gone, TickMsg
    <3> QED
      BY <1>1, <3>3, <3>5 DEF ToldOK, Ticked, Answered, Silent, Pending
  <2> QED
    BY <1>1, <2>1, <2>2, <2>3, <2>4 DEF StationOK
<1> HIDE DEF p, d
<1> QED
  BY <1>1, <1>2, <1>3, <1>4, <1>5, <1>6, StationStepInv


\* The slots in an answer.
LEMMA AnswerNumbers ==
    \A s \in Nat : \A n, e : (n = s \/ n = s + 1) /\ (e = 0 \/ e = s) =>
        n \in Nat /\ e \in Nat /\ e <= s
OBVIOUS

\* A station reads a tick and answers.
LEMMA AnswerInv ==
    ASSUME IInv, NEW i \in Station, Answer(i)
    PROVE  IInv'
<1> DEFINE sending(tick) == station[i].sending /\ tick.result = "NONE"
           reply(tick, number, action, intact) ==
             [slot |-> number, action |-> action,
              enqueue_slot |-> Enqueued(i, tick, action), intact |-> intact]
           d == Tail(down[i])
<1>1. /\ station[i].at = "running" /\ down[i] # << >> /\ ~ Head(down[i]).should_stop
      /\ down' = [down EXCEPT ![i] = d] /\ UNCHANGED channelVars
      /\ UNCHANGED <<pc, turn, slot, prev_state, st, acts>>
  BY DEF Answer, channelVars
<1>2. PICK tick \in Tick : tick = Head(down[i])
  <2>1. down[i] \in Seq(Tick)
    BY <1>1 DEF IInv, TicksOK
  <2> QED
    BY <1>1, <2>1, HeadOfQueue
<1>3. d \in Seq(Config \cup Tick) /\ d \in Seq(Tick) /\ down'[i] = d
  <2>1. down[i] \in Seq(Tick) /\ down[i] \in Seq(Config \cup Tick)
    BY <1>1 DEF IInv, TicksOK, TypeOK
  <2> QED
    BY <1>1, <2>1, HeadOfQueue DEF IInv, TypeOK
<1>4. PICK action \in Answers(i, tick, sending(tick)),
           number \in {tick.slot} \cup
                      (IF May(i, "wrong slot") THEN {tick.slot + 1} ELSE {}) :
        \E intact \in IF action = "START" THEN BOOLEAN ELSE {FALSE} :
            /\ up' = [up EXCEPT ![i] = Append(@, reply(tick, number, action, intact))]
            /\ station' = [station EXCEPT
                              ![i].sending = sending(tick) \/ action = "START",
                              ![i].at = IF action = "DONE" THEN "gone" ELSE @]
  <2>1. \E action \in Answers(i, Head(down[i]), sending(Head(down[i]))),
           number \in {Head(down[i]).slot} \cup
                      (IF May(i, "wrong slot") THEN {Head(down[i]).slot + 1} ELSE {}) :
        \E intact \in IF action = "START" THEN BOOLEAN ELSE {FALSE} :
            /\ up' = [up EXCEPT ![i] = Append(@, reply(Head(down[i]), number, action, intact))]
            /\ station' = [station EXCEPT
                              ![i].sending = sending(Head(down[i])) \/ action = "START",
                              ![i].at = IF action = "DONE" THEN "gone" ELSE @]
    BY Zenon DEF Answer
  <2> HIDE DEF sending, reply
  <2> QED
    BY <1>2, <2>1, Zenon
<1>5. PICK intact \in BOOLEAN :
            /\ up' = [up EXCEPT ![i] = Append(@, reply(tick, number, action, intact))]
            /\ station' = [station EXCEPT
                              ![i].sending = sending(tick) \/ action = "START",
                              ![i].at = IF action = "DONE" THEN "gone" ELSE @]
  BY <1>4
<1>6. PICK msg : msg = reply(tick, number, action, intact)
  OBVIOUS
<1>7. /\ action \in Action
      /\ sending(tick) => action \in {"TRANSMIT", "JAM", "DONE"}
      /\ ~ sending(tick) => action \in {"IDLE", "START", "DONE"}
      /\ ~ sending(tick) /\ action = "START" /\ station[i].wait_for_idle => tick.medium = "IDLE"
  BY <1>4 DEF Answers, Action
<1>8. number \in Nat /\ tick.slot \in Nat /\ Enqueued(i, tick, action) \in Nat
      /\ Enqueued(i, tick, action) <= tick.slot
  <2>1. tick.slot \in Nat
    BY <1>2 DEF Tick
  <2>2. number = tick.slot \/ number = tick.slot + 1
    BY <1>4
  <2>3. Enqueued(i, tick, action) = 0 \/ Enqueued(i, tick, action) = tick.slot
    BY DEF Enqueued
  <2> QED
    BY <2>1, <2>2, <2>3, AnswerNumbers, Zenon
<1>9. /\ msg \in ActionMsg /\ msg.action = action /\ msg.enqueue_slot <= tick.slot
  BY <1>6, <1>7, <1>8 DEF ActionMsg
<1>10. /\ Append(up[i], msg) \in Seq(ActionMsg) /\ up' = [up EXCEPT ![i] = Append(up[i], msg)]
       /\ up'[i] = Append(up[i], msg)
  <2>1. up[i] \in Seq(ActionMsg)
    BY DEF IInv, TypeOK
  <2> QED
    BY <1>5, <1>6, <1>9, <2>1, QueueTypes DEF IInv, TypeOK
<1>11. PICK p \in [at : {"connected", "running", "gone"}, sending : BOOLEAN,
                   wait_for_idle : BOOLEAN] :
         /\ station' = [station EXCEPT ![i] = p]
         /\ p.wait_for_idle = station[i].wait_for_idle
         /\ p.sending <=> sending(tick) \/ action = "START"
         /\ p.at = IF action = "DONE" THEN "gone" ELSE "running"
  <2> DEFINE q == [station[i] EXCEPT !.sending = sending(tick) \/ action = "START",
                                     !.at = IF action = "DONE" THEN "gone" ELSE @]
  <2>1. station[i] \in [at : {"connected", "running", "gone"}, sending : BOOLEAN,
                        wait_for_idle : BOOLEAN]
    BY DEF IInv, TypeOK
  <2>2. station' = [station EXCEPT ![i] = q]
    BY <1>5 DEF IInv, TypeOK
  <2>3. /\ q \in [at : {"connected", "running", "gone"}, sending : BOOLEAN,
                   wait_for_idle : BOOLEAN]
        /\ q.wait_for_idle = station[i].wait_for_idle
        /\ q.sending <=> sending(tick) \/ action = "START"
        /\ q.at = IF action = "DONE" THEN "gone" ELSE "running"
    BY <1>1, <2>1
  <2> QED
    BY <2>2, <2>3
<1>12. station'[i] = p
  BY <1>11 DEF IInv, TypeOK
<1>13. TicksOK(i)'
  BY <1>3, <1>11, <1>12 DEF TicksOK
<1>14. ASSUME Running PROVE StationOK(i)'
  <2>1. /\ StationOK(i) /\ st[i].connected
        /\ ~ Between(i) /\ ~ Heard(i) /\ ~ Stopped(i) /\ ~ Unaccepted(i)
    <3>1. StationOK(i) /\ ~ Gone(i)
      BY <1>1, <1>14 DEF IInv, Gone
    <3>2. st[i].connected /\ ~ Unaccepted(i)
      BY <1>1, <3>1 DEF StationOK, AbsentOK
    <3>3. ~ Between(i) /\ ~ Heard(i)
      BY <1>1, <3>1, <3>2 DEF StationOK, BetweenOK, HeardOK
    <3>4. ~ Stopped(i)
      <4>1. ASSUME Stopped(i) PROVE FALSE
        <5>1. down[i] = <<TickMsg("NONE", TRUE)>>
          BY <3>1, <3>2, <4>1 DEF StationOK, StoppedOK
        <5>2. Head(<<TickMsg("NONE", TRUE)>>) = TickMsg("NONE", TRUE)
          BY Queues
        <5>3. TickMsg("NONE", TRUE).should_stop
          BY DEF TickMsg
        <5> QED
          BY <1>1, <5>1, <5>2, <5>3
      <4> QED
        BY <4>1
    <3> QED
      BY <3>1, <3>2, <3>3, <3>4
  <2>2. /\ Unaccepted(i)' <=> Unaccepted(i)
        /\ Between(i)' <=> Between(i)
        /\ Told(i)' <=> Told(i)
        /\ Heard(i)' <=> Heard(i)
        /\ Stopped(i)' <=> Stopped(i)
    BY <1>1 DEF Unaccepted, Between, Told, Heard, Stopped
  <2>3. ASSUME Told(i) PROVE ToldOK(i)'
    <3>1. ToldOK(i) /\ ~ Answered(i) /\ ~ Silent(i) /\ ~ Gone(i)
      BY <1>1, <2>1, <2>3 DEF StationOK, Answered, Silent, Gone
    <3>2. PICK r \in Result : Ticked(i, r)
      BY <3>1 DEF ToldOK
    <3>3. /\ ~ Pending(i) /\ down[i] = <<TickMsg(r, FALSE)>> /\ up[i] = << >>
          /\ AttemptOK(i, r # "NONE")
      BY <1>1, <3>1, <3>2 DEF ToldOK, Ticked
    <3>4. tick = TickMsg(r, FALSE) /\ d = << >>
      <4>1. /\ Tail(<<TickMsg(r, FALSE)>>) = << >>
            /\ Head(<<TickMsg(r, FALSE)>>) = TickMsg(r, FALSE)
        BY Queues
      <4> QED
        BY <1>2, <3>3, <4>1
    <3>5. tick.result = r /\ tick.slot = slot /\ tick.medium = prev_state
      BY <3>4 DEF TickMsg
    <3>6. up'[i] = <<msg>> /\ Head(<<msg>>) = msg /\ <<msg>> # << >>
      BY <1>10, <3>3, Queues
    <3>7. sending(tick) <=> st[i].active
      BY <3>1, <3>3, <3>5 DEF AttemptOK, IInv, TypeOK, chan_station_t
    <3>8. AnswerOK(i, msg)'
      BY <1>1, <1>7, <1>9, <1>11, <1>12, <3>5, <3>7
      DEF AnswerOK, AttemptOK, Gone
    <3>9. Answered(i)'
      BY <1>3, <3>4, <3>6, <3>8 DEF Answered
    <3> QED
      BY <1>1, <3>3, <3>9 DEF ToldOK, Ticked, Answered, Silent, Pending
  <2> QED
    BY <1>1, <2>1, <2>2, <2>3 DEF StationOK
<1> HIDE DEF d
<1> QED
  BY <1>1, <1>3, <1>10, <1>11, <1>13, <1>14, StationStepInv


-----------------------------------------------------------------------------
(* The end of a slot: what becomes of every station.                       *)

\* The slot is resolved, and nobody has left in the middle of a transmission.
Resolved == IInv /\ pc = "resolve" /\ ~ \E i \in Leaving : st[i].active

\* When the transmission of station i began, whether it has met another one, and
\* whether it ends now.
Began(i)  == IF i \in Did("START") THEN slot ELSE st[i].start_slot
Spoilt(i) == State = "COLLISION" \/ (i \notin Did("START") /\ st[i].collided)
Ends(i)   == i \in Did("JAM") \/ Began(i) + slot_frame_len <= slot + 1

\* The transmitters are the stations on the air and those that begin, and they are
\* all served.
LEMMA WhoTransmits ==
    ASSUME Resolved
    PROVE  /\ Transmitters = Active \cup Did("START") /\ Active \cap Did("START") = {}
           /\ Did("JAM") \subseteq Active
           /\ Transmitters \subseteq Station /\ Transmitters \cap Did("DONE") = {}
           /\ \A i \in Station :
                 /\ i \in Transmitters => st[i].connected
                 /\ st[i].active <=> i \in Active
                 /\ ~ Pending(i)
                 /\ st[i].connected => HeardOK(i)
                 /\ ~ st[i].connected => acts[i].action = "DONE" /\ AbsentOK(i)
<1>1. ASSUME NEW i \in Station
      PROVE  /\ st[i].active <=> i \in Active
             /\ ~ Pending(i)
             /\ st[i].connected => HeardOK(i)
             /\ ~ st[i].connected => acts[i].action = "DONE" /\ AbsentOK(i)
             /\ i \in Active => acts[i].action \in {"TRANSMIT", "JAM"}
             /\ i \notin Active => acts[i].action \in {"IDLE", "START", "DONE"}
  <2>1. StationOK(i) /\ Heard(i) /\ st[i] \in chan_station_t
    BY DEF Resolved, IInv, Running, Heard, TypeOK
  <2>2. CASE ~ st[i].connected
    BY <2>1, <2>2 DEF StationOK, AbsentOK, Active, OnAir
  <2>3. CASE st[i].connected
    <3>1. HeardOK(i)
      BY <2>1, <2>3 DEF StationOK
    <3>2. acts[i].action \in IF st[i].active THEN {"TRANSMIT", "JAM", "DONE"}
                                            ELSE {"IDLE", "START", "DONE"}
      BY <3>1 DEF HeardOK, AnswerOK
    <3>3. st[i].active <=> i \in Active
      BY <2>1, <2>3 DEF Active, OnAir, chan_station_t
    <3>4. st[i].active => acts[i].action # "DONE"
      BY <2>3 DEF Resolved, Leaving, Did
    <3> QED
      BY <2>3, <3>1, <3>2, <3>3, <3>4 DEF HeardOK
  <2> QED
    BY <2>2, <2>3
<1> QED
  BY <1>1 DEF Transmitters, Did, Active, OnAir

\* How many transmit.
LEMMA HowMany ==
    ASSUME Resolved
    PROVE  /\ Cardinality(Transmitters) \in Nat
           /\ State \in MediumState
           /\ State = "IDLE" <=> Transmitters = {}
           /\ State # "COLLISION" => \A i, j \in Transmitters : i = j
           /\ State = "COLLISION" => Cardinality(Transmitters) >= 2
<1>1. IsFiniteSet(Transmitters) /\ Cardinality(Transmitters) \in Nat
  BY WhoTransmits, StationsFinite
<1>2. Cardinality(Transmitters) = 0 <=> Transmitters = {}
  BY <1>1, FS_EmptySet
<1>3. Cardinality(Transmitters) = 1 => \A i, j \in Transmitters : i = j
  BY <1>1, FS_Singleton
<1> QED
  BY <1>1, <1>2, <1>3 DEF State, medium_from_txcount, MediumState

\* The entry of a station once collisions have been marked, field by field.
LEMMA MarkedEntry ==
    ASSUME Resolved, NEW i \in Station
    PROVE  /\ Marked(i) \in chan_station_t
           /\ Marked(i).connected <=> st[i].connected /\ acts[i].action # "DONE"
           /\ Marked(i).active <=> i \in Transmitters
           /\ Marked(i).pending_result = "NONE"
           /\ i \in Transmitters =>
                 /\ Marked(i).connected
                 /\ Marked(i).start_slot = Began(i) /\ Began(i) \in Nat
                 /\ Marked(i).collided <=> Spoilt(i)
                 /\ Marked(i).enqueue_slot <= Began(i)
<1>1. st[i] \in chan_station_t /\ acts[i] \in ActionMsg /\ slot \in Nat
  BY SlotsAssumption DEF Resolved, IInv, TypeOK
<1>2. /\ i \in Transmitters => st[i].connected
      /\ i \in Transmitters <=> i \in Active \/ acts[i].action = "START"
      /\ st[i].active <=> i \in Active
      /\ i \in Transmitters => acts[i].action # "DONE"
      /\ acts[i].action = "START" => i \notin Active
      /\ st[i].pending_result = "NONE"
  BY WhoTransmits DEF Did, Pending
<1>3. i \in Active => st[i].enqueue_slot <= st[i].start_slot
  BY DEF Resolved, IInv, MediumOK
<1>4. st[i].connected => acts[i].enqueue_slot <= slot
  BY WhoTransmits DEF HeardOK, AnswerOK
<1>5. /\ Parsed(i) \in chan_station_t
      /\ Parsed(i).connected <=> st[i].connected /\ acts[i].action # "DONE"
      /\ Parsed(i).active <=> i \in Transmitters
      /\ Parsed(i).pending_result = "NONE"
      /\ i \in Transmitters =>
            /\ Parsed(i).connected
            /\ Parsed(i).start_slot = Began(i)
            /\ Parsed(i).collided <=> acts[i].action # "START" /\ st[i].collided
            /\ Parsed(i).enqueue_slot <= Began(i)
  <2>1. CASE ~ st[i].connected
    BY <1>1, <1>2, <2>1 DEF Parsed
  <2>2. CASE st[i].connected /\ acts[i].action = "START"
    <3>1. Parsed(i) = [st[i] EXCEPT !.active = TRUE, !.start_slot = slot,
                                !.collided = FALSE,
                                !.enqueue_slot = acts[i].enqueue_slot,
                                !.intact = acts[i].intact]
      BY <2>2 DEF Parsed
    <3>2. Began(i) = slot
      BY <2>2 DEF Began, Did
    <3> QED
      BY <1>1, <1>2, <1>4, <2>2, <3>1, <3>2 DEF chan_station_t, ActionMsg
  <2>3. CASE st[i].connected /\ acts[i].action = "DONE"
    <3>1. Parsed(i) = [st[i] EXCEPT !.connected = FALSE]
      BY <2>3 DEF Parsed
    <3> QED
      BY <1>1, <1>2, <2>3, <3>1 DEF chan_station_t
  <2>4. CASE st[i].connected /\ acts[i].action \notin {"START", "DONE"}
    <3>1. Parsed(i) = st[i]
      BY <2>4 DEF Parsed
    <3>2. Began(i) = st[i].start_slot
      BY <2>4 DEF Began, Did
    <3> QED
      BY <1>1, <1>2, <1>3, <2>4, <3>1, <3>2 DEF chan_station_t
  <2> QED
    BY <2>1, <2>2, <2>3, <2>4
<1>6. Began(i) \in Nat
  BY <1>1 DEF Began, chan_station_t
<1>7. OnAir(Parsed(i)) <=> i \in Transmitters
  BY <1>5 DEF OnAir
<1>8. CASE State = "COLLISION" /\ i \in Transmitters
  <2>1. Marked(i) = [Parsed(i) EXCEPT !.collided = TRUE]
    BY <1>7, <1>8 DEF Marked
  <2> QED
    BY <1>5, <1>6, <1>8, <2>1 DEF chan_station_t, Spoilt
<1>9. CASE ~ (State = "COLLISION" /\ i \in Transmitters)
  <2>1. Marked(i) = Parsed(i)
    BY <1>9 DEF Marked
  <2> QED
    BY <1>5, <1>6, <1>9, <2>1 DEF Spoilt, Did
<1> QED
  BY <1>8, <1>9

\* ... and once the transmissions that end have been settled.
LEMMA SettledEntry ==
    ASSUME Resolved, NEW i \in Station
    PROVE  /\ Settled(i) \in chan_station_t
           /\ Settled(i).connected <=> st[i].connected /\ acts[i].action # "DONE"
           /\ Settled(i).active <=> i \in Transmitters /\ ~ Ends(i)
           /\ Settled(i).pending_result # "NONE" <=> i \in Transmitters /\ Ends(i)
           /\ i \in Transmitters =>
                 /\ Settled(i).connected
                 /\ Settled(i).start_slot = Began(i) /\ Began(i) \in Nat
                 /\ Settled(i).collided <=> Spoilt(i)
                 /\ Settled(i).enqueue_slot <= Began(i)
           /\ Verdict(i) \in {"none", "collided", "delivered", "bad FCS"}
           /\ Verdict(i) # "none" <=> i \in Transmitters /\ Ends(i)
           /\ Verdict(i) \in {"delivered", "bad FCS"} => ~ Spoilt(i)
           /\ Spoilt(i) /\ i \in Transmitters /\ Ends(i) => Verdict(i) = "collided"
           /\ Verdict(i) # "none" /\ ~ Spoilt(i) /\ i \notin Did("JAM") =>
                 Verdict(i) = IF Marked(i).intact THEN "delivered" ELSE "bad FCS"
           /\ i \in Did("JAM") => Verdict(i) = "collided"
<1>1. slot \in Nat /\ slot_frame_len \in Nat
  BY FrameLenAssumption, SlotsAssumption DEF Resolved, IInv, TypeOK
<1>2. OnAir(Marked(i)) <=> i \in Transmitters
  BY MarkedEntry DEF OnAir
<1>3. i \in Transmitters => (Complete(Marked(i)) <=> Began(i) + slot_frame_len <= slot + 1)
  <2>1. ASSUME i \in Transmitters
        PROVE  Complete(Marked(i)) <=> Began(i) + slot_frame_len <= slot + 1
    <3>1. \A a, b, c \in Nat : (a - b) + 1 >= c <=> b + c <= a + 1
      OBVIOUS
    <3> QED
      BY <1>1, <2>1, <3>1, MarkedEntry DEF Complete
  <2> QED
    BY <2>1
<1>4. i \in Did("JAM") => i \in Transmitters
  BY DEF Transmitters
<1>5. /\ Verdict(i) \in {"none", "collided", "delivered", "bad FCS"}
      /\ Verdict(i) # "none" <=> i \in Transmitters /\ Ends(i)
      /\ Verdict(i) \in {"delivered", "bad FCS"} => ~ Marked(i).collided /\ i \in Transmitters
      /\ Marked(i).collided /\ i \in Transmitters /\ Ends(i) => Verdict(i) = "collided"
      /\ Verdict(i) # "none" /\ ~ Marked(i).collided /\ i \notin Did("JAM") =>
            Verdict(i) = IF Marked(i).intact THEN "delivered" ELSE "bad FCS"
      /\ i \in Did("JAM") => Verdict(i) = "collided"
  BY <1>2, <1>3, <1>4 DEF Verdict, Ends
<1>6. i \in Transmitters => (Marked(i).collided <=> Spoilt(i))
  BY MarkedEntry
<1>7. CASE Verdict(i) = "none"
  <2>1. Settled(i) = Marked(i)
    BY <1>7 DEF Settled
  <2> QED
    BY <1>5, <1>6, <1>7, <2>1, MarkedEntry
<1>8. CASE Verdict(i) # "none"
  <2>1. PICK r \in {"SUCCESS", "COLLISION"} :
           Settled(i) = [Marked(i) EXCEPT !.active = FALSE, !.pending_result = r]
    BY <1>8 DEF Settled
  <2>2. Marked(i) \in chan_station_t
    BY MarkedEntry
  <2>3. /\ Settled(i) \in chan_station_t
        /\ Settled(i).connected = Marked(i).connected /\ ~ Settled(i).active
        /\ Settled(i).start_slot = Marked(i).start_slot
        /\ Settled(i).collided = Marked(i).collided
        /\ Settled(i).enqueue_slot = Marked(i).enqueue_slot
        /\ Settled(i).pending_result # "NONE"
    BY <2>1, <2>2 DEF chan_station_t, Result
  <2> QED
    BY <1>5, <1>6, <1>8, <2>3, MarkedEntry
<1> QED
  BY <1>7, <1>8


\* The transmitters that go on, and those whose transmission ends.
GoOn == {i \in Transmitters : ~ Ends(i)}

\* The size of a disjoint union.
LEMMA DisjointUnion ==
    ASSUME NEW S, NEW T, IsFiniteSet(S), IsFiniteSet(T), S \cap T = {}
    PROVE  /\ IsFiniteSet(S \cup T)
           /\ Cardinality(S \cup T) = Cardinality(S) + Cardinality(T)
<1>1. /\ IsFiniteSet(S \cup T)
      /\ Cardinality(S \cup T) = Cardinality(S) + Cardinality(T) - Cardinality(S \cap T)
  BY FS_Union
<1>2. Cardinality(S \cap T) = 0
  BY FS_EmptySet
<1>3. Cardinality(S) \in Nat /\ Cardinality(T) \in Nat
  BY FS_CardinalityType
<1> QED
  BY <1>1, <1>2, <1>3

\* Every transmission goes on, collides, is delivered, or fails its check.
LEMMA FourWays ==
    ASSUME Resolved
    PROVE  /\ GoOn \subseteq Station /\ GoOn \subseteq Transmitters
           /\ \A v \in {"collided", "delivered", "bad FCS"} :
                 /\ With(v) \subseteq Transmitters /\ With(v) \in SUBSET Station
                 /\ Cardinality(With(v)) \in Nat
           /\ Cardinality(GoOn) \in Nat
           /\ Cardinality(Active) + Cardinality(Did("START"))
                 = Cardinality(GoOn) + Cardinality(With("collided"))
                     + Cardinality(With("delivered")) + Cardinality(With("bad FCS"))
           /\ Cardinality(Active) \in Nat /\ Cardinality(Did("START")) \in Nat
<1> DEFINE C == With("collided")
           D == With("delivered")
           F == With("bad FCS")
<1>1. /\ GoOn \subseteq Station /\ GoOn \subseteq Transmitters
      /\ C \subseteq Station /\ D \subseteq Station /\ F \subseteq Station
      /\ C \subseteq Transmitters /\ D \subseteq Transmitters /\ F \subseteq Transmitters
      /\ Transmitters = ((GoOn \cup C) \cup D) \cup F
      /\ GoOn \cap C = {} /\ (GoOn \cup C) \cap D = {} /\ ((GoOn \cup C) \cup D) \cap F = {}
  BY WhoTransmits, SettledEntry DEF GoOn, With
<1>2. /\ Active \subseteq Station /\ Did("START") \subseteq Station
      /\ Transmitters = Active \cup Did("START") /\ Active \cap Did("START") = {}
  BY WhoTransmits DEF Active, Did
<1> HIDE DEF C, D, F
<1>3. Cardinality(Transmitters) = Cardinality(Active) + Cardinality(Did("START"))
  BY <1>2, StationsFinite, DisjointUnion
<1>4. /\ IsFiniteSet(GoOn \cup C)
      /\ Cardinality(GoOn \cup C) = Cardinality(GoOn) + Cardinality(C)
  BY <1>1, StationsFinite, DisjointUnion
<1>5. /\ IsFiniteSet((GoOn \cup C) \cup D)
      /\ Cardinality((GoOn \cup C) \cup D) = Cardinality(GoOn) + Cardinality(C) + Cardinality(D)
  BY <1>1, <1>4, StationsFinite, DisjointUnion
<1>6. Cardinality(Transmitters)
        = Cardinality(GoOn) + Cardinality(C) + Cardinality(D) + Cardinality(F)
  BY <1>1, <1>5, StationsFinite, DisjointUnion
<1>7. /\ Cardinality(GoOn) \in Nat /\ Cardinality(C) \in Nat /\ Cardinality(D) \in Nat
      /\ Cardinality(F) \in Nat /\ Cardinality(Active) \in Nat
      /\ Cardinality(Did("START")) \in Nat
  BY <1>1, <1>2, StationsFinite
<1> QED
  BY <1>1, <1>3, <1>6, <1>7 DEF C, D, F

\* The transmissions that have collided, before and after: none is lost, and a new
\* event is borne by one that was not among them.
LEMMA CollidedOnes ==
    ASSUME Resolved
    PROVE  LET before == Cardinality({i \in Active : st[i].collided})
               after  == Cardinality(With("collided")) + Cardinality({i \in GoOn : Spoilt(i)})
           IN  /\ before \in Nat /\ after \in Nat /\ before <= after
               /\ NewCollisionEvent(State) => before < after /\ 2 <= after
<1> DEFINE X == {i \in Active : st[i].collided}
           Y == {i \in GoOn : Spoilt(i)}
           C == With("collided")
<1>1. /\ X \subseteq Station /\ Y \subseteq Station /\ C \subseteq Station
      /\ C \cap Y = {} /\ X \subseteq C \cup Y /\ C \cup Y \subseteq Transmitters
      /\ State = "COLLISION" => C \cup Y = Transmitters
  <2>1. X \subseteq Station /\ Y \subseteq Station /\ C \subseteq Station
    BY FourWays DEF Active, With
  <2>2. C \cap Y = {}
    BY SettledEntry, FourWays DEF GoOn, With
  <2>3. X \subseteq Transmitters /\ \A i \in X : Spoilt(i)
    BY WhoTransmits DEF Spoilt
  <2>4. \A i \in Transmitters : Spoilt(i) => i \in C \cup Y
    BY SettledEntry, WhoTransmits DEF GoOn, With
  <2>5. State = "COLLISION" => \A i \in Transmitters : Spoilt(i)
    BY DEF Spoilt
  <2>6. C \cup Y \subseteq Transmitters
    BY FourWays
  <2> QED
    BY <2>1, <2>2, <2>3, <2>4, <2>5, <2>6
<1> HIDE DEF X, Y, C
<1>2. /\ IsFiniteSet(C \cup Y) /\ Cardinality(X) \in Nat /\ Cardinality(C) \in Nat
      /\ Cardinality(Y) \in Nat
      /\ Cardinality(C \cup Y) = Cardinality(C) + Cardinality(Y)
  BY <1>1, StationsFinite, DisjointUnion
<1>3. Cardinality(X) <= Cardinality(C \cup Y)
  BY <1>1, <1>2, FS_Subset
<1>4. ASSUME NewCollisionEvent(State)
      PROVE  Cardinality(X) < Cardinality(C \cup Y) /\ 2 <= Cardinality(C \cup Y)
  <2>1. State = "COLLISION" /\ prev_state # "COLLISION"
    BY <1>4 DEF NewCollisionEvent
  <2>2. C \cup Y = Transmitters /\ Cardinality(Transmitters) >= 2
    BY <1>1, <2>1, HowMany
  <2>3. \A i, j \in Active : i = j
    BY <2>1 DEF Resolved, IInv, MediumOK
  <2>4. Active # Transmitters
    <3>1. ASSUME Active = Transmitters PROVE FALSE
      <4>1. PICK t : t \in Transmitters
        BY <1>2, <2>2, FS_EmptySet
      <4>2. Transmitters = {t}
        BY <2>3, <3>1, <4>1
      <4> QED
        BY <2>2, <4>2, FS_Singleton
    <3> QED
      BY <3>1
  <2>5. X # Transmitters /\ X \subseteq Transmitters
    BY <2>4, <1>1, WhoTransmits DEF X
  <2>6. Cardinality(X) # Cardinality(Transmitters)
    BY <1>2, <2>2, <2>5, FS_Subset
  <2> QED
    BY <1>2, <1>3, <2>2, <2>6
<1> QED
  BY <1>2, <1>3, <1>4 DEF X, Y, C


\* The frames that arrived, with a good check or a bad one, and the slots that the clean
\* transmissions have lasted, are paid for by the busy slots.
CleanOn == {i \in GoOn : ~ Spoilt(i)}

\* What a slot adds to the ages of the clean transmissions and to the busy slots.
LEMMA SlotTime ==
    ASSUME Resolved,
           NEW entries,
           \A i \in Transmitters : entries[i].start_slot = Began(i)
    PROVE  LET arrived == Cardinality(With("delivered")) + Cardinality(With("bad FCS"))
               before  == TotalAge(slot, st, Clean)
               after   == TotalAge(slot + 1, entries, CleanOn)
           IN  /\ before \in Nat /\ after \in Nat
               /\ \/ arrived = 0 /\ after <= before + One(State = "BUSY")
                  \/ arrived = 1 /\ slot_frame_len + after <= before + One(State = "BUSY")
<1> DEFINE D == With("delivered")
           F == With("bad FCS")
           before == TotalAge(slot, st, Clean)
           after  == TotalAge(slot + 1, entries, CleanOn)
<1>1. slot \in Nat /\ slot_frame_len \in Nat
  BY FrameLenAssumption, SlotsAssumption DEF Resolved, IInv, TypeOK
<1>2. TypeOK /\ MediumOK
  BY DEF Resolved, IInv
<1>3. before \in Nat
  <2>1. ASSUME NEW t \in Active, TotalAge(slot, st, Clean) = slot - st[t].start_slot
        PROVE  before \in Nat
    <3>1. st[t].start_slot \in Nat /\ st[t].start_slot < slot
      BY <1>2 DEF TypeOK, MediumOK, Active, chan_station_t
    <3> QED
      BY <1>1, <2>1, <3>1
  <2> QED
    BY <1>2, <2>1, CleanAge
<1>4. /\ D \subseteq Transmitters /\ F \subseteq Transmitters /\ CleanOn \subseteq Transmitters
      /\ \A i \in D \cup F \cup CleanOn : ~ Spoilt(i)
      /\ D \cap F = {} /\ (D \cup F) \cap CleanOn = {}
      /\ Cardinality({}) = 0
  BY FourWays, SettledEntry, FS_EmptySet DEF With, CleanOn, GoOn
<1> HIDE DEF D, F, before, after
<1>5. CASE D \cup F \cup CleanOn = {}
  <2>1. D = {} /\ F = {} /\ CleanOn = {}
    BY <1>5
  <2>2. after = 0
    BY <2>1, AgeOfNone DEF after
  <2>3. One(State = "BUSY") \in Nat
    BY DEF One
  <2>4. after <= before + One(State = "BUSY") /\ after \in Nat
    BY <1>3, <2>2, <2>3
  <2>5. Cardinality(D) + Cardinality(F) = 0
    BY <1>4, <2>1
  <2>6. /\ after \in Nat /\ Cardinality(D) + Cardinality(F) = 0
        /\ after <= before + One(State = "BUSY")
    BY <2>4, <2>5
  <2> QED
    BY <1>3, <2>6 DEF before, after, D, F
<1>6. ASSUME NEW t \in Transmitters, t \in D \cup F \cup CleanOn
      PROVE  /\ after \in Nat
             /\ \/ Cardinality(D) + Cardinality(F) = 0 /\ after <= before + One(State = "BUSY")
                \/ /\ Cardinality(D) + Cardinality(F) = 1
                   /\ slot_frame_len + after <= before + One(State = "BUSY")
  <2>1. ~ Spoilt(t) /\ State # "COLLISION" /\ State # "IDLE"
    BY <1>4, <1>6, HowMany DEF Spoilt
  <2>2. Transmitters = {t} /\ One(State = "BUSY") = 1
    BY <2>1, HowMany DEF MediumState, One
  <2>3. t \in Station /\ Began(t) \in Nat
    BY WhoTransmits, MarkedEntry
  <2>4. before = slot - Began(t) /\ Began(t) <= slot
    <3>1. CASE t \in Active
      <4>1. Clean = {t} /\ Began(t) = st[t].start_slot /\ st[t].start_slot < slot
        BY <2>1, <2>2, <3>1, <1>2, WhoTransmits DEF Clean, Spoilt, Began, MediumOK
      <4>2. slot - st[t].start_slot \in Int
        BY <4>1, <2>3, <1>1
      <4>3. TotalAge(slot, st, {t}) = slot - st[t].start_slot
        BY <4>2, AgeOfOne
      <4>4. before = slot - st[t].start_slot
        BY <4>1, <4>3, Zenon DEF before
      <4> QED
        BY <4>1, <4>4, <2>3, <1>1
    <3>2. CASE t \notin Active
      <4>1. Clean = {} /\ Began(t) = slot
        BY <2>2, <3>2, WhoTransmits DEF Clean, Began
      <4> QED
        BY <4>1, <1>1, AgeOfNone DEF before
    <3> QED
      BY <3>1, <3>2
  <2>5. CASE t \in CleanOn
    <3>1. CleanOn = {t} /\ D = {} /\ F = {}
      BY <1>4, <2>2, <2>5
    <3>2. entries[t].start_slot = Began(t) /\ (slot + 1) - entries[t].start_slot \in Int
      BY <1>1, <2>3
    <3>3. after = (slot + 1) - Began(t)
      <4>1. TotalAge(slot + 1, entries, {t}) = (slot + 1) - entries[t].start_slot
        BY <3>2, AgeOfOne, Zenon
      <4> QED
        BY <3>1, <3>2, <4>1, Zenon DEF after
    <3>4. Cardinality(D) + Cardinality(F) = 0
      BY <1>4, <3>1
    <3> QED
      BY <1>1, <2>2, <2>3, <2>4, <3>3, <3>4
  <2>6. CASE t \in D \cup F
    <3>1. CleanOn = {}
      BY <1>4, <2>2, <2>6
    <3>2. after = 0 /\ Cardinality({t}) = 1
      BY <3>1, AgeOfNone, FS_Singleton DEF after
    <3>3. Cardinality(D) + Cardinality(F) = 1
      <4>1. CASE t \in D
        <5>1. D = {t} /\ F = {}
          BY <1>4, <2>2, <4>1
        <5> QED
          BY <1>4, <3>2, <5>1
      <4>2. CASE t \in F
        <5>1. F = {t} /\ D = {}
          BY <1>4, <2>2, <4>2
        <5> QED
          BY <1>4, <3>2, <5>1
      <4> QED
        BY <2>6, <4>1, <4>2
    <3>4. Began(t) + slot_frame_len <= slot + 1
      BY <2>3, <2>6, SettledEntry DEF With, Ends, D, F
    <3> QED
      BY <1>1, <2>2, <2>3, <2>4, <3>2, <3>3, <3>4
  <2> QED
    BY <1>6, <2>5, <2>6
<1>7. CASE D \cup F \cup CleanOn # {}
  BY <1>3, <1>4, <1>6, <1>7 DEF D, F, before, after
<1> QED
  BY <1>5, <1>7 DEF D, F, before, after

\* The delays that a slot adds.
LEMMA SlotDelay ==
    ASSUME Resolved
    PROVE  LET n == Cardinality(With("delivered"))
               d == TotalDelay(With("delivered"))
           IN  \/ n = 0 /\ d = 0
               \/ n = 1 /\ d \in Nat /\ slot_frame_len <= d /\ d <= slot + 1
<1> DEFINE D == With("delivered")
<1>1. slot \in Nat /\ slot_frame_len \in Nat
  BY FrameLenAssumption, SlotsAssumption DEF Resolved, IInv, TypeOK
<1>2. CASE D = {}
  BY <1>2, DelayOfNone, FS_EmptySet
<1>3. ASSUME NEW t \in D
      PROVE  /\ Cardinality(D) = 1 /\ TotalDelay(D) \in Nat
             /\ slot_frame_len <= TotalDelay(D) /\ TotalDelay(D) <= slot + 1
  <2>1. t \in Transmitters /\ t \in Station /\ ~ Spoilt(t) /\ Verdict(t) # "none"
    BY FourWays, SettledEntry DEF With
  <2>2. D = {t} /\ Cardinality(D) = 1
    <3>1. \A j \in Transmitters : j = t
      BY <2>1, HowMany DEF Spoilt
    <3>2. D = {t}
      BY <1>3, <3>1, FourWays
    <3> QED
      BY <3>2, FS_Singleton
  <2>3. /\ Marked(t).start_slot = Began(t) /\ Began(t) \in Nat
        /\ Marked(t).enqueue_slot \in Nat /\ Marked(t).enqueue_slot <= Began(t)
    BY <2>1, MarkedEntry DEF chan_station_t
  <2>4. Began(t) + slot_frame_len <= slot + 1
    <3>1. t \notin Did("JAM") /\ Ends(t)
      BY <1>3, <2>1, SettledEntry DEF With
    <3> QED
      BY <3>1 DEF Ends
  <2>5. /\ Delay(Marked(t)) \in Nat /\ slot_frame_len <= Delay(Marked(t))
        /\ Delay(Marked(t)) <= slot + 1
    BY <1>1, <2>3, <2>4 DEF Delay
  <2>6. TotalDelay(D) = Delay(Marked(t))
    BY <2>2, <2>5, DelayOfOne
  <2> QED
    BY <2>2, <2>5, <2>6
<1> HIDE DEF D
<1> QED
  BY <1>2, <1>3 DEF D


-----------------------------------------------------------------------------
(* The end of a slot: the invariant.                                       *)

\* A slot that is resolved, as far as the medium and the stations are concerned.
SlotEnds ==
    /\ Resolved
    /\ metrics' = Counted
    /\ st' = [i \in Station |-> Settled(i)]
    /\ n_connected' = n_connected - Cardinality(Leaving)
    /\ prev_state' = State
    /\ slot' = slot + 1
    /\ pc' = IF slot' < max_slots /\ n_connected' > 0 THEN "tick" ELSE "stop"
    /\ UNCHANGED <<turn, acts, down, up, station>>

\* The new entries, in one place.
LEMMA NewEntries ==
    ASSUME SlotEnds
    PROVE  /\ Active' = GoOn /\ slot \in Nat
           /\ st' \in [Station -> chan_station_t]
           /\ \A i \in Station :
                 /\ st'[i].connected <=> st[i].connected /\ acts[i].action # "DONE"
                 /\ st'[i].active <=> i \in GoOn
                 /\ st'[i].pending_result # "NONE" <=> i \in Transmitters /\ Ends(i)
                 /\ i \in Transmitters =>
                       /\ st'[i].connected
                       /\ st'[i].start_slot = Began(i) /\ Began(i) \in Nat
                       /\ st'[i].collided <=> Spoilt(i)
                       /\ st'[i].enqueue_slot <= Began(i)
<1>1. \A i \in Station : st'[i] = Settled(i)
  BY DEF SlotEnds
<1>2. \A i \in Station :
         /\ st'[i].connected <=> st[i].connected /\ acts[i].action # "DONE"
         /\ st'[i].active <=> i \in GoOn
         /\ st'[i].pending_result # "NONE" <=> i \in Transmitters /\ Ends(i)
         /\ i \in Transmitters =>
               /\ st'[i].connected
               /\ st'[i].start_slot = Began(i) /\ Began(i) \in Nat
               /\ st'[i].collided <=> Spoilt(i)
               /\ st'[i].enqueue_slot <= Began(i)
  BY <1>1, SettledEntry DEF SlotEnds, GoOn
<1>3. Active' = GoOn
  <2>1. GoOn \subseteq Transmitters /\ GoOn \subseteq Station
    BY FourWays DEF SlotEnds
  <2> QED
    BY <1>2, <2>1 DEF Active, OnAir
<1>4. st' \in [Station -> chan_station_t]
  BY SettledEntry DEF SlotEnds
<1>5. slot \in Nat
  BY SlotsAssumption DEF SlotEnds, Resolved, IInv, TypeOK
<1> QED
  BY <1>2, <1>3, <1>4, <1>5

\* The transmissions after the slot.
LEMMA SlotMedium == ASSUME SlotEnds PROVE MediumOK' /\ PoliteStationsStartTogether'
<1>1. /\ GoOn \subseteq Transmitters /\ Transmitters \subseteq Station
      /\ Transmitters = Active \cup Did("START")
  BY FourWays, WhoTransmits DEF SlotEnds
<1>2. slot_frame_len \in Nat
  BY FrameLenAssumption
<1>3. ASSUME NEW i \in GoOn
      PROVE  /\ st'[i].start_slot < slot' /\ slot' < st'[i].start_slot + slot_frame_len
             /\ st'[i].enqueue_slot <= st'[i].start_slot
  <2>1. ~ (Began(i) + slot_frame_len <= slot + 1)
    BY DEF GoOn, Ends
  <2>2. Began(i) <= slot
    <3>1. CASE i \in Did("START")
      BY <3>1, NewEntries DEF Began
    <3>2. CASE i \notin Did("START")
      <4>1. i \in Active /\ Began(i) = st[i].start_slot
        BY <1>1, <3>2 DEF Began
      <4>2. st[i].start_slot < slot /\ st[i].start_slot \in Nat
        BY <4>1 DEF SlotEnds, Resolved, IInv, MediumOK, TypeOK, Active, chan_station_t
      <4> QED
        BY <4>1, <4>2, NewEntries
    <3> QED
      BY <3>1, <3>2
  <2>3. /\ st'[i].start_slot = Began(i) /\ Began(i) \in Nat
        /\ st'[i].enqueue_slot <= Began(i) /\ slot' = slot + 1 /\ slot \in Nat
    BY <1>1, NewEntries DEF SlotEnds
  <2> QED
    BY <1>2, <2>1, <2>2, <2>3
<1>4. \A i, j \in GoOn : State # "COLLISION" => i = j
  BY <1>1, HowMany DEF SlotEnds
<1>5. \A i \in GoOn : ~ st'[i].collided => State # "COLLISION"
  BY <1>1, NewEntries DEF Spoilt
<1>6. State = "IDLE" => GoOn = {}
  BY <1>1, HowMany DEF SlotEnds
<1>7. MediumOK'
  BY <1>3, <1>4, <1>5, <1>6, NewEntries DEF MediumOK, SlotEnds
<1>8. ASSUME NEW i \in GoOn, NEW j \in GoOn,
             station[i].wait_for_idle, station[j].wait_for_idle
      PROVE  Began(i) = Began(j)
  <2>1. ASSUME NEW k \in Station, k \in Did("START"), station[k].wait_for_idle
        PROVE  Active = {}
    <3>1. st[k].connected /\ HeardOK(k) /\ acts[k].action = "START"
      BY <1>1, <2>1, WhoTransmits DEF SlotEnds, Did
    <3>2. prev_state = "IDLE"
      BY <2>1, <3>1 DEF HeardOK, AnswerOK
    <3> QED
      BY <3>2 DEF SlotEnds, Resolved, IInv, MediumOK
  <2>2. CASE i \in Did("START") \/ j \in Did("START")
    <3>1. Active = {}
      BY <1>1, <1>8, <2>1, <2>2
    <3> QED
      BY <1>1, <3>1 DEF Began
  <2>3. CASE i \notin Did("START") /\ j \notin Did("START")
    <3>1. i \in Active /\ j \in Active
      BY <1>1, <2>3
    <3> QED
      BY <1>8, <2>3, <3>1
      DEF Began, SlotEnds, Resolved, IInv, PoliteStationsStartTogether
  <2> QED
    BY <2>2, <2>3
<1>9. PoliteStationsStartTogether'
  BY <1>1, <1>8, NewEntries DEF PoliteStationsStartTogether, SlotEnds
<1> QED
  BY <1>7, <1>9

\* The stations after the slot.
LEMMA SlotStations ==
    ASSUME SlotEnds, NEW i \in Station
    PROVE  StationOK(i)' /\ TicksOK(i)'
<1>1. /\ Resolved /\ pc' \in {"tick", "stop"} /\ turn' = 0 /\ i >= turn'
      /\ UNCHANGED <<acts, down, up, station>>
  BY DEF SlotEnds, Resolved, IInv, LoopOK, Station
<1>2. /\ Between(i)' /\ ~ Unaccepted(i)' /\ ~ Told(i)' /\ ~ Heard(i)' /\ ~ Stopped(i)'
  <2>1. i \in Nat
    BY DEF Station
  <2>2. ~ (i < turn')
    BY <1>1, <2>1
  <2> QED
    BY <1>1, <2>2 DEF Between, Unaccepted, Told, Heard, Stopped
<1>3. TicksOK(i)'
  BY <1>1 DEF TicksOK, Resolved, IInv
<1>4. CASE st'[i].connected
  <2>1. st[i].connected /\ HeardOK(i) /\ acts[i].action # "DONE"
    BY <1>1, <1>4, NewEntries, WhoTransmits
  <2>2. /\ down[i] = << >> /\ up[i] = << >> /\ station[i].at # "connected"
        /\ ~ Gone(i) => (station[i].sending <=> st[i].active \/ acts[i].action = "START")
    BY <2>1 DEF HeardOK, AnswerOK, AttemptOK
  <2>3. i \in Transmitters <=> st[i].active \/ acts[i].action = "START"
    BY <1>1, WhoTransmits DEF Did
  <2>4. BetweenOK(i)'
    BY <1>1, <2>2, <2>3, NewEntries DEF BetweenOK, AttemptOK, Pending, Gone, GoOn
  <2> QED
    BY <1>2, <1>3, <1>4, <2>4 DEF StationOK
<1>5. CASE ~ st'[i].connected
  <2>1. i \notin Transmitters /\ ~ st'[i].active /\ st'[i].pending_result = "NONE"
    BY <1>5, NewEntries DEF GoOn
  <2>2. /\ down[i] = << >> /\ up[i] = << >> /\ acts[i].action = "DONE" /\ Gone(i)
    <3>1. CASE st[i].connected
      <4>1. HeardOK(i) /\ acts[i].action = "DONE"
        BY <1>1, <1>5, <3>1, NewEntries, WhoTransmits
      <4> QED
        BY <4>1 DEF HeardOK, AnswerOK
    <3>2. CASE ~ st[i].connected
      <4>1. AbsentOK(i) /\ ~ Unaccepted(i)
        BY <1>1, <3>2, WhoTransmits DEF Resolved, Unaccepted
      <4> QED
        BY <4>1 DEF AbsentOK
    <3> QED
      BY <3>1, <3>2
  <2>3. AbsentOK(i)'
    BY <1>1, <1>2, <2>1, <2>2 DEF AbsentOK, Pending, Gone
  <2> QED
    BY <1>3, <1>5, <2>3 DEF StationOK
<1> QED
  BY <1>4, <1>5


\* The metrics, field by field.
LEMMA MetricsFields ==
    ASSUME TypeOK
    PROVE  /\ metrics.total_slots \in Nat /\ metrics.idle_slots \in Nat
           /\ metrics.busy_slots \in Nat /\ metrics.collision_slots \in Nat
           /\ metrics.collision_events \in Nat /\ metrics.collided_attempts \in Nat
           /\ metrics.attempts \in Nat /\ metrics.frames_delivered \in Nat
           /\ metrics.fcs_failures \in Nat /\ metrics.sum_delay_slots \in Nat
BY DEF TypeOK, NoMetrics

\* ... and what a slot adds to them.
LEMMA CountedFields ==
    ASSUME SlotEnds
    PROVE  /\ metrics'.total_slots = metrics.total_slots + 1
           /\ metrics'.idle_slots = metrics.idle_slots + One(State = "IDLE")
           /\ metrics'.busy_slots = metrics.busy_slots + One(State = "BUSY")
           /\ metrics'.collision_slots = metrics.collision_slots + One(State = "COLLISION")
           /\ metrics'.collision_events
                = metrics.collision_events + One(NewCollisionEvent(State))
           /\ metrics'.attempts = metrics.attempts + Cardinality(Did("START"))
           /\ metrics'.collided_attempts
                = metrics.collided_attempts + Cardinality(With("collided"))
           /\ metrics'.frames_delivered
                = metrics.frames_delivered + Cardinality(With("delivered"))
           /\ metrics'.fcs_failures = metrics.fcs_failures + Cardinality(With("bad FCS"))
           /\ metrics'.sum_delay_slots
                = metrics.sum_delay_slots + TotalDelay(With("delivered"))
<1>1. {i \in Did("START") : st[i].connected} = Did("START")
  BY WhoTransmits DEF SlotEnds, Did
<1>2. metrics' = Counted
  BY DEF SlotEnds
<1> QED
  BY <1>1, <1>2 DEF Counted

\* The counters still agree after the slot.
LEMMA SlotCounts ==
    ASSUME SlotEnds
    PROVE  MetricsAddUp' /\ metrics' \in [DOMAIN NoMetrics -> Nat]
<1> DEFINE a  == Cardinality(Active)
           b  == Cardinality(Did("START"))
           g  == Cardinality(GoOn)
           c  == Cardinality(With("collided"))
           d  == Cardinality(With("delivered"))
           f  == Cardinality(With("bad FCS"))
           x  == Cardinality({i \in Active : st[i].collided})
           y  == Cardinality({i \in GoOn : Spoilt(i)})
           td == TotalDelay(With("delivered"))
           oi == One(State = "IDLE")
           ob == One(State = "BUSY")
           oc == One(State = "COLLISION")
           oe == One(NewCollisionEvent(State))
<1>1. /\ a \in Nat /\ b \in Nat /\ g \in Nat /\ c \in Nat /\ d \in Nat /\ f \in Nat
      /\ a + b = g + c + d + f
  BY FourWays DEF SlotEnds
<1>2. /\ x \in Nat /\ y \in Nat /\ x <= c + y
      /\ NewCollisionEvent(State) => x < c + y /\ 2 <= c + y
  <2>1. y \in Nat
    BY FourWays, StationsFinite DEF SlotEnds
  <2> QED
    BY <2>1, CollidedOnes DEF SlotEnds
<1>3. td \in Nat
  BY SlotDelay DEF SlotEnds
<1>4. /\ oi \in Nat /\ ob \in Nat /\ oc \in Nat /\ oi + ob + oc = 1
      /\ (oe = 1 /\ NewCollisionEvent(State)) \/ oe = 0
  BY HowMany DEF One, MediumState, SlotEnds
<1>5. Active' = GoOn /\ {i \in Active : st[i].collided}' = {i \in GoOn : Spoilt(i)}
  <2>1. \A i \in GoOn : i \in Station /\ (st'[i].collided <=> Spoilt(i))
    BY NewEntries, FourWays DEF SlotEnds
  <2> QED
    BY <2>1, NewEntries
<1>6. TypeOK /\ MetricsAddUp /\ slot' = slot + 1
  BY DEF SlotEnds, Resolved, IInv
<1> HIDE DEF a, b, c, d, f, g, x, y, td, oi, ob, oc, oe
<1>7. /\ metrics.total_slots \in Nat /\ metrics.idle_slots \in Nat
      /\ metrics.busy_slots \in Nat /\ metrics.collision_slots \in Nat
      /\ metrics.collision_events \in Nat /\ metrics.collided_attempts \in Nat
      /\ metrics.attempts \in Nat /\ metrics.frames_delivered \in Nat
      /\ metrics.fcs_failures \in Nat /\ metrics.sum_delay_slots \in Nat
  BY <1>6, MetricsFields
<1>8. /\ metrics'.total_slots = metrics.total_slots + 1
      /\ metrics'.idle_slots = metrics.idle_slots + oi
      /\ metrics'.busy_slots = metrics.busy_slots + ob
      /\ metrics'.collision_slots = metrics.collision_slots + oc
      /\ metrics'.collision_events = metrics.collision_events + oe
      /\ metrics'.attempts = metrics.attempts + b
      /\ metrics'.collided_attempts = metrics.collided_attempts + c
      /\ metrics'.frames_delivered = metrics.frames_delivered + d
      /\ metrics'.fcs_failures = metrics.fcs_failures + f
      /\ metrics'.sum_delay_slots = metrics.sum_delay_slots + td
  BY CountedFields DEF b, c, d, f, td, oi, ob, oc, oe
<1>9. /\ metrics.attempts = metrics.frames_delivered + metrics.collided_attempts
                               + metrics.fcs_failures + a
      /\ metrics.total_slots = slot
      /\ slot = metrics.idle_slots + metrics.busy_slots + metrics.collision_slots
      /\ metrics.collision_events > 0 =>
            metrics.collision_events < metrics.collided_attempts + x
  BY <1>6 DEF MetricsAddUp, a, x
<1>10. /\ metrics'.attempts = metrics'.frames_delivered + metrics'.collided_attempts
                                 + metrics'.fcs_failures + g
       /\ metrics'.total_slots = slot'
       /\ slot' = metrics'.idle_slots + metrics'.busy_slots + metrics'.collision_slots
  <2>1. \A p, q, r, s, t, u, v, w, z \in Nat :
           s + t = z + u + v + w => (p + q + r + s) + t = (p + v) + (q + u) + (r + w) + z
    OBVIOUS
  <2>2. \A p, q, r, u, v, w \in Nat :
           u + v + w = 1 => (p + q + r) + 1 = (p + u) + (q + v) + (r + w)
    OBVIOUS
  <2>3. metrics'.attempts = metrics'.frames_delivered + metrics'.collided_attempts
                               + metrics'.fcs_failures + g
    <3>1. (metrics.frames_delivered + metrics.collided_attempts + metrics.fcs_failures + a)
              + b
            = (metrics.frames_delivered + d) + (metrics.collided_attempts + c)
                + (metrics.fcs_failures + f) + g
      BY <1>1, <1>7, <2>1
    <3> QED
      BY <1>8, <1>9, <3>1
  <2>4. slot' = metrics'.idle_slots + metrics'.busy_slots + metrics'.collision_slots
    BY <1>4, <1>6, <1>7, <1>8, <1>9, <2>2
  <2> QED
    BY <1>6, <1>8, <1>9, <2>3, <2>4
<1>11. metrics'.collision_events > 0 =>
         metrics'.collision_events < metrics'.collided_attempts + y
  <2>1. CASE oe = 0
    BY <1>1, <1>2, <1>7, <1>8, <1>9, <2>1
  <2>2. CASE oe = 1 /\ NewCollisionEvent(State)
    BY <1>1, <1>2, <1>7, <1>8, <1>9, <2>2
  <2> QED
    BY <1>4, <2>1, <2>2
<1>12. MetricsAddUp'
  BY <1>5, <1>10, <1>11 DEF MetricsAddUp, g, y
<1>13. metrics' \in [DOMAIN NoMetrics -> Nat]
  <2>1. /\ metrics'.total_slots \in Nat /\ metrics'.idle_slots \in Nat
        /\ metrics'.busy_slots \in Nat /\ metrics'.collision_slots \in Nat
        /\ metrics'.collision_events \in Nat /\ metrics'.collided_attempts \in Nat
        /\ metrics'.attempts \in Nat /\ metrics'.frames_delivered \in Nat
        /\ metrics'.fcs_failures \in Nat /\ metrics'.sum_delay_slots \in Nat
    BY <1>1, <1>3, <1>4, <1>7, <1>8
  <2>2. metrics' = Counted
    BY DEF SlotEnds
  <2>3. DOMAIN metrics' = DOMAIN NoMetrics /\ metrics' = [k \in DOMAIN metrics' |-> metrics'[k]]
    BY <2>2 DEF Counted, NoMetrics
  <2> QED
    BY <2>1, <2>3 DEF NoMetrics
<1> QED
  BY <1>12, <1>13

\* ... and the throughput and the delay are still bounded.
LEMMA SlotBounds == ASSUME SlotEnds PROVE ThroughputAndDelayAreBounded'
<1> DEFINE n      == Cardinality(With("delivered"))
           f      == Cardinality(With("bad FCS"))
           before == TotalAge(slot, st, Clean)
           after  == TotalAge(slot + 1, st', CleanOn)
           td     == TotalDelay(With("delivered"))
           ob     == One(State = "BUSY")
<1>1. /\ before \in Nat /\ after \in Nat
      /\ \/ n + f = 0 /\ after <= before + ob
         \/ n + f = 1 /\ slot_frame_len + after <= before + ob
  BY SlotTime, NewEntries, WhoTransmits DEF SlotEnds
<1>2. \/ n = 0 /\ td = 0
      \/ n = 1 /\ td \in Nat /\ slot_frame_len <= td /\ td <= slot + 1
  BY SlotDelay DEF SlotEnds
<1>3. n \in Nat /\ f \in Nat /\ ob \in Nat /\ slot \in Nat /\ slot_frame_len \in Nat
  BY FourWays, NewEntries, FrameLenAssumption DEF One, SlotEnds
<1>4. Clean' = CleanOn
  <2>1. \A i \in GoOn : i \in Station /\ (st'[i].collided <=> Spoilt(i))
    BY NewEntries, FourWays DEF SlotEnds
  <2> QED
    BY <2>1, NewEntries DEF Clean, CleanOn
<1>5. TypeOK /\ ThroughputAndDelayAreBounded /\ slot' = slot + 1
  BY DEF SlotEnds, Resolved, IInv
<1> HIDE DEF n, f, before, after, td, ob
<1>6. /\ metrics.frames_delivered \in Nat /\ metrics.fcs_failures \in Nat
      /\ metrics.sum_delay_slots \in Nat /\ metrics.busy_slots \in Nat
  BY <1>5, MetricsFields
<1>7. /\ metrics'.frames_delivered = metrics.frames_delivered + n
      /\ metrics'.fcs_failures = metrics.fcs_failures + f
      /\ metrics'.sum_delay_slots = metrics.sum_delay_slots + td
      /\ metrics'.busy_slots = metrics.busy_slots + ob
  BY CountedFields DEF n, f, td, ob
<1>8. /\ (metrics.frames_delivered + metrics.fcs_failures) * slot_frame_len + before
            <= metrics.busy_slots
      /\ metrics.frames_delivered * slot_frame_len <= metrics.sum_delay_slots
      /\ metrics.sum_delay_slots <= metrics.frames_delivered * slot
  BY <1>5 DEF ThroughputAndDelayAreBounded, Clean, before
<1>9. (metrics'.frames_delivered + metrics'.fcs_failures) * slot_frame_len + after
         <= metrics'.busy_slots
  <2>1. \A p, q, L, u, v, w, o \in Nat :
          /\ (p + q) * L + u <= w /\ v <= u + o => (p + q) * L + v <= w + o
          /\ (p + q) * L + u <= w /\ L + v <= u + o => (p + q + 1) * L + v <= w + o
    OBVIOUS
  <2> QED
    BY <1>1, <1>3, <1>6, <1>7, <1>8, <2>1
<1>10. /\ metrics'.frames_delivered * slot_frame_len <= metrics'.sum_delay_slots
       /\ metrics'.sum_delay_slots <= metrics'.frames_delivered * slot'
  <2>1. \A p, L, u, s, e \in Nat :
          /\ p * L <= u => (p + 0) * L <= u + 0
          /\ u <= p * s => u + 0 <= (p + 0) * (s + 1)
          /\ p * L <= u /\ L <= e => (p + 1) * L <= u + e
          /\ u <= p * s /\ e <= s + 1 => u + e <= (p + 1) * (s + 1)
    OBVIOUS
  <2>2. CASE n = 0 /\ td = 0
    BY <1>3, <1>5, <1>6, <1>7, <1>8, <2>1, <2>2
  <2>3. CASE n = 1 /\ td \in Nat /\ slot_frame_len <= td /\ td <= slot + 1
    BY <1>3, <1>5, <1>6, <1>7, <1>8, <2>1, <2>3
  <2> QED
    BY <1>2, <2>2, <2>3
<1>11. TotalAge(slot', st', Clean') = after
  BY <1>4, <1>5 DEF after
<1> QED
  BY <1>9, <1>10, <1>11 DEF ThroughputAndDelayAreBounded, Clean


\* The types of what a slot changes, and the count of the stations still there.
LEMMA SlotTypes == ASSUME SlotEnds PROVE TypeOK' /\ LoopOK'
<1>1. /\ TypeOK /\ LoopOK /\ pc = "resolve" /\ turn = 0 /\ slot < max_slots
      /\ slot' = slot + 1 /\ prev_state' = State /\ turn' = turn
      /\ UNCHANGED <<acts, down, up, station>>
  BY DEF SlotEnds, Resolved, IInv, LoopOK
<1>2. slot \in Nat /\ max_slots \in Nat /\ slot' \in 0 .. max_slots
  BY <1>1, SlotsAssumption DEF TypeOK
<1>3. pc' \in {"tick", "stop"} /\ (pc' = "tick" => slot' < max_slots)
  BY DEF SlotEnds
<1> DEFINE Here  == {i \in Station : st[i].connected}
           After == {i \in Station : st'[i].connected}
<1>4. n_connected = Cardinality(Here)
  BY <1>1 DEF LoopOK, Running
<1>5. IsFiniteSet(Here) /\ IsFiniteSet(After)
  BY StationsFinite
<1>6. Leaving \subseteq Here /\ After = Here \ Leaving
  BY NewEntries DEF Leaving, Did
<1>7. /\ Cardinality(After) = Cardinality(Here) - Cardinality(Leaving)
      /\ Cardinality(Here) \in Nat /\ Cardinality(Leaving) \in Nat
      /\ Cardinality(After) \in Nat
  <2>1. Here \cap Leaving = Leaving /\ IsFiniteSet(Leaving)
    BY <1>5, <1>6, FS_Subset
  <2> QED
    BY <1>5, <1>6, <2>1, FS_Difference, FS_CardinalityType
<1>8. n_connected' = Cardinality(After)
  BY <1>4, <1>7 DEF SlotEnds
<1>9. n_connected' \in 0 .. n_stations
  BY <1>1, <1>4, <1>7, <1>8, StationsAssumption DEF TypeOK
<1>10. prev_state' \in MediumState
  BY <1>1, HowMany DEF SlotEnds, MediumState
<1>11. st' \in [Station -> chan_station_t]
  BY NewEntries
<1>12. metrics' \in [DOMAIN NoMetrics -> Nat]
  BY SlotCounts
<1>13. TypeOK'
  BY <1>1, <1>2, <1>3, <1>9, <1>10, <1>11, <1>12 DEF TypeOK
<1>14. LoopOK'
  BY <1>3, <1>8 DEF LoopOK, Running
<1> QED
  BY <1>13, <1>14

\* A slot ends well, or with a station that leaves in the middle of a transmission.
LEMMA EndSlotInv == ASSUME IInv, EndSlot PROVE IInv'
<1>1. CASE \E i \in Leaving : st[i].active
  BY <1>1, FailureInv DEF EndSlot, Fail, IInv, TypeOK
<1>2. CASE ~ \E i \in Leaving : st[i].active
  <2>1. SlotEnds
    BY <1>2 DEF EndSlot, SlotEnds, Resolved
  <2> QED
    BY <2>1, SlotTypes, SlotStations, SlotMedium, SlotCounts, SlotBounds DEF IInv
<1> QED
  BY <1>1, <1>2

-----------------------------------------------------------------------------
(* The theorems.                                                           *)

\* Every step keeps the invariant.
LEMMA StepInv == ASSUME IInv, [Next]_vars PROVE IInv'
<1>1. CASE Channel
  BY <1>1, AcceptInv, SendTickInv, BrokenPipeInv, WriteFailsInv, ListenInv, ListenEofInv,
     EndSlotInv, SendStopInv
  DEF Channel
<1>2. ASSUME NEW i \in Station, ReadConfig(i)
      PROVE  IInv'
  BY <1>2, ReadConfigInv
<1>3. ASSUME NEW i \in Station, Answer(i)
      PROVE  IInv'
  BY <1>3, AnswerInv
<1>4. ASSUME NEW i \in Station, Stop(i) \/ Eof(i) \/ Crash(i)
      PROVE  IInv'
  BY <1>4, LeaveInv DEF Stop, Eof, Crash
<1>5. CASE UNCHANGED vars
  <2>1. UNCHANGED <<pc, turn, slot, prev_state, n_connected, metrics, st, acts, down, up,
                    station>>
    BY <1>5 DEF vars, channelVars
  <2>2. TypeOK' /\ LoopOK' /\ (Running' <=> Running)
    BY <2>1 DEF IInv, TypeOK, LoopOK, Running
  <2>3. \A i \in Station : TicksOK(i)'
    BY <2>1 DEF IInv, TicksOK
  <2>4. ASSUME NEW i \in Station, Running PROVE StationOK(i)'
    <3>1. StationOK(i)
      BY <2>4 DEF IInv
    <3> QED
      BY <2>1, <3>1
      DEF StationOK, AbsentOK, BetweenOK, ToldOK, HeardOK, StoppedOK, Ticked, Answered,
          Silent, AnswerOK, AttemptOK, Pending, Gone, TickMsg, Unaccepted, Between, Told,
          Heard, Stopped
  <2>5. MediumPart'
    BY <2>1, QuietMedium
  <2> QED
    BY <2>2, <2>3, <2>4, <2>5 DEF IInv, MediumPart
<1>6. CASE Wait
  BY <1>5, <1>6 DEF Wait
<1> QED
  BY <1>1, <1>2, <1>3, <1>4, <1>5, <1>6 DEF Next, StationStep

\* The inductive invariant holds in every reachable state.
THEOREM Invariance == Spec => []IInv
<1>1. Init => IInv
  BY InitInv
<1>2. IInv /\ [Next]_vars => IInv'
  BY StepInv
<1> QED
  BY <1>1, <1>2, PTL DEF Spec

\* The locals of channel_serve, its station entries and all messages keep their types,
\* and the experiment never runs past max_slots.
THEOREM TypeCorrect == Spec => []TypeOK
<1>1. IInv => TypeOK
  BY DEF IInv
<1> QED
  BY <1>1, Invariance, PTL

\* The counters that channel_serve prints at the end agree: no attempt is counted twice
\* or forgotten, and there are fewer collision events than transmissions that collided.
THEOREM MetricsSafe == Spec => []MetricsAddUp
<1>1. IInv => MetricsAddUp
  BY DEF IInv
<1> QED
  BY <1>1, Invariance, PTL

\* The throughput of channel_serve is never above one, and the average delay lies
\* between the length of a frame and that of the experiment.
THEOREM BoundsSafe == Spec => []ThroughputAndDelayAreBounded
<1>1. IInv => ThroughputAndDelayAreBounded
  BY DEF IInv
<1> QED
  BY <1>1, Invariance, PTL

\* Two stations that wait for idle are on the air together only if they began together.
THEOREM PoliteSafe == Spec => []PoliteStationsStartTogether
<1>1. IInv => PoliteStationsStartTogether
  BY DEF IInv
<1> QED
  BY <1>1, Invariance, PTL

-----------------------------------------------------------------------------
(* One result per attempt.                                                 *)

\* An attempt on its way up, and its result on its way down.
Requested(i) ==
    \/ up[i] # << >> /\ Head(up[i]).action = "START"
    \/ (pc = "resolve" \/ (pc = "listen" /\ i < turn)) /\ acts[i].action = "START"

Replied(i) ==
    \E k \in DOMAIN down[i] : down[i][k].kind = "tick" /\ down[i][k].result # "NONE"

\* At most one of the four places, and the station knows.
OnePlace(i) ==
    /\ ~ (Requested(i) /\ (st[i].active \/ Pending(i) \/ Replied(i)))
    /\ ~ (st[i].active /\ (Pending(i) \/ Replied(i)))
    /\ ~ (Pending(i) /\ Replied(i))
    /\ station[i].sending <=> Requested(i) \/ st[i].active \/ Pending(i) \/ Replied(i)

\* The places of an attempt can be counted.
LEMMA CountPlaces ==
    ASSUME NEW i \in Station, OnePlace(i)
    PROVE  Cardinality(Whereabouts(i)) = One(station[i].sending)
<1>1. /\ Whereabouts(i) \subseteq {"request", "medium", "pending", "reply"}
      /\ "request" \in Whereabouts(i) <=> Requested(i)
      /\ "medium" \in Whereabouts(i) <=> st[i].active
      /\ "pending" \in Whereabouts(i) <=> Pending(i)
      /\ "reply" \in Whereabouts(i) <=> Replied(i)
  BY DEF Whereabouts, Requested, Pending, Replied
<1>2. CASE station[i].sending
  <2>1. PICK place : Whereabouts(i) = {place}
    <3>1. CASE Requested(i)
      <4>1. Whereabouts(i) = {"request"}
        BY <1>1, <3>1 DEF OnePlace
      <4> QED
        BY <4>1
    <3>2. CASE st[i].active
      <4>1. Whereabouts(i) = {"medium"}
        BY <1>1, <3>2 DEF OnePlace
      <4> QED
        BY <4>1
    <3>3. CASE Pending(i)
      <4>1. Whereabouts(i) = {"pending"}
        BY <1>1, <3>3 DEF OnePlace
      <4> QED
        BY <4>1
    <3>4. CASE Replied(i)
      <4>1. Whereabouts(i) = {"reply"}
        BY <1>1, <3>4 DEF OnePlace
      <4> QED
        BY <4>1
    <3> QED
      BY <1>2, <3>1, <3>2, <3>3, <3>4 DEF OnePlace
  <2> QED
    BY <1>2, <2>1, FS_Singleton DEF One
<1>3. CASE ~ station[i].sending
  <2>1. Whereabouts(i) = {}
    BY <1>1, <1>3 DEF OnePlace
  <2> QED
    BY <1>3, <2>1, FS_EmptySet DEF One
<1> QED
  BY <1>2, <1>3

\* What the lock-step says of a station gives its place in every phase.
LEMMA PlaceOfAttempt ==
    ASSUME IInv, Running, NEW i \in Station, ~ Gone(i)
    PROVE  OnePlace(i)
<1>1. StationOK(i) /\ turn \in Station
  BY DEF IInv, TypeOK
<1>2. (i < turn \/ i >= turn) /\ ~ (i < turn /\ i >= turn)
  BY <1>1 DEF Station
<1>3. /\ ~ Unaccepted(i) => Between(i) \/ Told(i) \/ Heard(i) \/ Stopped(i)
      /\ ~ Heard(i) => ~ (pc = "resolve" \/ (pc = "listen" /\ i < turn))
  BY <1>2 DEF Unaccepted, Between, Told, Heard, Stopped, Running, IInv, TypeOK
<1>4. down[i] = << >> => ~ Replied(i)
  BY DEF Replied
<1>5. CASE ~ st[i].connected
  BY <1>1, <1>4, <1>5 DEF StationOK, AbsentOK, OnePlace, Requested
<1>6. CASE st[i].connected /\ Between(i)
  <2>1. BetweenOK(i) /\ ~ Heard(i)
    BY <1>1, <1>2, <1>6 DEF StationOK, Between, Heard
  <2>2. down[i] = <<ConfigMsg>> => ~ Replied(i)
    BY DEF Replied, ConfigMsg
  <2> QED
    BY <1>3, <1>4, <2>1, <2>2 DEF BetweenOK, AttemptOK, OnePlace, Requested
<1>7. CASE st[i].connected /\ Told(i)
  <2>1. ToldOK(i) /\ ~ Heard(i)
    BY <1>1, <1>2, <1>7 DEF StationOK, Told, Heard
  <2>2. ASSUME NEW result \in Result, Ticked(i, result)
        PROVE  OnePlace(i)
    <3>1. CASE station[i].at = "connected"
      <4>1. down[i] = <<ConfigMsg, TickMsg(result, FALSE)>>
        BY <2>2, <3>1 DEF Ticked
      <4>2. Replied(i) <=> result # "NONE"
        BY <4>1 DEF Replied, TickMsg, ConfigMsg
      <4> QED
        BY <1>3, <2>1, <2>2, <4>2 DEF ToldOK, Ticked, AttemptOK, OnePlace, Requested
    <3>2. CASE station[i].at # "connected"
      <4>1. down[i] = <<TickMsg(result, FALSE)>>
        BY <2>2, <3>2 DEF Ticked
      <4>2. Replied(i) <=> result # "NONE"
        BY <4>1 DEF Replied, TickMsg
      <4> QED
        BY <1>3, <2>1, <2>2, <4>2 DEF ToldOK, Ticked, AttemptOK, OnePlace, Requested
    <3> QED
      BY <3>1, <3>2
  <2>3. CASE Answered(i)
    BY <1>3, <1>4, <2>1, <2>3 DEF ToldOK, Answered, AnswerOK, AttemptOK, OnePlace, Requested
  <2> QED
    BY <2>1, <2>2, <2>3 DEF ToldOK, Silent
<1>8. CASE st[i].connected /\ Heard(i)
  <2>1. HeardOK(i) /\ (pc = "resolve" \/ (pc = "listen" /\ i < turn))
    BY <1>1, <1>8 DEF StationOK, Heard
  <2> QED
    BY <1>4, <2>1 DEF HeardOK, AnswerOK, AttemptOK, OnePlace, Requested
<1>9. CASE st[i].connected /\ Stopped(i)
  <2>1. StoppedOK(i) /\ ~ Heard(i)
    BY <1>1, <1>9 DEF StationOK, Stopped, Heard
  <2>2. down[i] = <<TickMsg("NONE", TRUE)>>
    BY <2>1 DEF StoppedOK
  <2>3. ~ Replied(i)
    BY <2>2 DEF Replied, TickMsg
  <2> QED
    BY <1>3, <2>1, <2>3 DEF StoppedOK, AttemptOK, OnePlace, Requested
<1> QED
  BY <1>1, <1>3, <1>5, <1>6, <1>7, <1>8, <1>9 DEF StationOK

\* While nothing has failed, a station that waits for the result of its attempt has that
\* attempt in exactly one place: asked for, on the medium, pending in its entry, or
\* reported in a tick that is on its way.
THEOREM OneResult == Spec => []OneResultPerAttempt
<1>1. IInv => OneResultPerAttempt
  BY PlaceOfAttempt, CountPlaces DEF OneResultPerAttempt, Running
<1> QED
  BY <1>1, Invariance, PTL

-----------------------------------------------------------------------------
(* The channel implements the slotted medium.                              *)

\* The refinement mapping, entry by entry.
AgeOf(i)   == IF OnAir(st[i]) THEN slot - st[i].start_slot ELSE 0
CleanOf(i) == OnAir(st[i]) /\ ~ st[i].collided

\* The stations on the air are those whose transmission has an age.
LEMMA MappedOnAir ==
    ASSUME TypeOK, MediumOK
    PROVE  /\ Medium!OnAir = Active
           /\ \A i \in Active : AgeOf(i) = slot - st[i].start_slot /\ AgeOf(i) > 0
           /\ \A i \in Station \ Active : AgeOf(i) = 0 /\ ~ CleanOf(i)
<1>1. ASSUME NEW i \in Active
      PROVE  AgeOf(i) = slot - st[i].start_slot /\ AgeOf(i) > 0
  <2>1. /\ i \in Station /\ OnAir(st[i]) /\ st[i].start_slot \in Nat /\ slot \in Nat
        /\ st[i].start_slot < slot
    BY SlotsAssumption DEF TypeOK, MediumOK, Active, chan_station_t
  <2> QED
    BY <2>1 DEF AgeOf
<1>2. \A i \in Station \ Active : AgeOf(i) = 0 /\ ~ CleanOf(i)
  BY DEF AgeOf, CleanOf, Active
<1>3. Medium!OnAir = {i \in Station : AgeOf(i) > 0}
  BY DEF Medium!OnAir, AgeOf
<1>4. Medium!OnAir = Active
  <2>1. Active \subseteq Station /\ ~ (0 > 0)
    BY DEF Active
  <2> QED
    BY <1>1, <1>2, <1>3, <2>1
<1> QED
  BY <1>1, <1>2, <1>4

\* Steps that leave the transmissions and the metrics alone are not seen.
LEMMA MediumStutters ==
    ASSUME UNCHANGED <<slot, metrics>>,
           \A i \in Station :
              /\ OnAir(st[i])' <=> OnAir(st[i])
              /\ st'[i].start_slot = st[i].start_slot
              /\ st'[i].collided = st[i].collided
    PROVE  UNCHANGED Medium!vars
BY DEF Medium!vars

Garbled == {i \in Station : ~ Marked(i).intact}

\* The cardinality of the abstract module is that of this one.
LEMMA SameCardinality == \A S : Medium!Cardinality(S) = Cardinality(S)
BY Zenon DEF Medium!Cardinality, Cardinality

\* The slot that channel_serve resolves is a slot of the medium.
LEMMA SlotIsSlot ==
    ASSUME SlotEnds,
           NEW CONSTANT S, NEW CONSTANT J, NEW CONSTANT G,
           S = Did("START"), J = Did("JAM"), G = Garbled
    PROVE  Medium!Slot(S, J, G)
<1> DEFINE starters == Did("START")
           jammers  == Did("JAM")
           age(i)   == AgeOf(i)
           pure(i)  == Cardinality(Transmitters) = 1 /\ (i \in starters \/ CleanOf(i))
           complete == {i \in Transmitters \ jammers : age(i) + 1 = slot_frame_len}
           good     == {i \in complete \ Garbled : pure(i)}
           ended    == complete \cup jammers
<1>1. /\ TypeOK /\ MediumOK /\ slot \in Nat /\ slot' = slot + 1
      /\ slot_frame_len \in Nat /\ slot_frame_len >= 2
  BY FrameLenAssumption, SlotsAssumption DEF SlotEnds, Resolved, IInv, TypeOK
<1>2. /\ Transmitters = Medium!OnAir \cup starters /\ Transmitters = Active \cup starters
      /\ Active \cap starters = {} /\ jammers \subseteq Active
      /\ Transmitters \subseteq Station
  BY <1>1, MappedOnAir, WhoTransmits DEF SlotEnds
<1>3. ASSUME NEW i \in Transmitters
      PROVE  /\ pure(i) <=> ~ Spoilt(i)
             /\ i \in ended <=> Ends(i)
             /\ ~ Ends(i) => slot' - Began(i) = age(i) + 1
  <2>1. Cardinality(Transmitters) \in Nat /\ (Cardinality(Transmitters) = 1 <=> State # "COLLISION")
    BY <1>3, HowMany, FS_EmptySet, <1>2, StationsFinite
    DEF SlotEnds, State, medium_from_txcount
  <2>2. CASE i \in starters
    <3>1. i \notin Active /\ i \notin jammers /\ i \in Station
      BY <1>2, <2>2
    <3>2. age(i) = 0 /\ Began(i) = slot
      BY <1>1, <2>2, <3>1, MappedOnAir DEF Began
    <3>3. ~ (0 + 1 = slot_frame_len) /\ ~ (slot + slot_frame_len <= slot + 1)
          /\ slot' - slot = 0 + 1
      BY <1>1
    <3> QED
      BY <1>3, <2>1, <2>2, <3>1, <3>2, <3>3 DEF Spoilt, Ends
  <2>3. CASE i \notin starters
    <3>1. i \in Active /\ i \in Station /\ Began(i) = st[i].start_slot
      BY <1>2, <1>3, <2>3 DEF Began
    <3>2. /\ st[i].start_slot \in Nat /\ slot < st[i].start_slot + slot_frame_len
          /\ CleanOf(i) <=> ~ st[i].collided
      BY <1>1, <3>1 DEF TypeOK, MediumOK, Active, chan_station_t, CleanOf
    <3>3. age(i) = slot - st[i].start_slot
      BY <1>1, <3>1, MappedOnAir
    <3>4. /\ age(i) + 1 = slot_frame_len <=> Began(i) + slot_frame_len <= slot + 1
          /\ slot' - Began(i) = age(i) + 1
      BY <1>1, <3>1, <3>2, <3>3
    <3> QED
      BY <1>3, <2>1, <2>3, <3>2, <3>4 DEF Spoilt, Ends
  <2> QED
    BY <2>2, <2>3
<1>4. Transmitters \ ended = GoOn
  BY <1>3 DEF GoOn
<1>5. good = With("delivered")
  <2>1. ASSUME NEW i \in Transmitters
        PROVE  i \in good <=> Verdict(i) = "delivered"
    <3>1. i \in complete <=> i \notin jammers /\ Ends(i)
      BY <1>3, <2>1, <1>2 DEF Ends
    <3>2. i \in Garbled <=> ~ Marked(i).intact
      BY <1>2, <2>1 DEF Garbled
    <3>3. i \in good <=> i \notin jammers /\ Ends(i) /\ Marked(i).intact /\ ~ Spoilt(i)
      BY <1>3, <2>1, <3>1, <3>2
    <3> QED
      BY <1>2, <2>1, <3>3, SettledEntry DEF SlotEnds
  <2>2. good \subseteq Transmitters /\ With("delivered") \subseteq Transmitters
    BY FourWays DEF SlotEnds
  <2> QED
    BY <1>2, <2>1, <2>2 DEF With
<1>6. /\ ended \ good = With("collided") \cup With("bad FCS")
      /\ With("collided") \cap With("bad FCS") = {}
  <2>1. ended \subseteq Transmitters
    BY <1>2
  <2>2. \A i \in Transmitters : i \in ended <=> Verdict(i) # "none"
    BY <1>2, <1>3, SettledEntry DEF SlotEnds
  <2>3. /\ With("collided") \subseteq Transmitters /\ With("bad FCS") \subseteq Transmitters
        /\ \A i \in Transmitters : Verdict(i) \in {"none", "collided", "delivered", "bad FCS"}
    BY <1>2, FourWays, SettledEntry DEF SlotEnds
  <2> HIDE DEF ended, good
  <2>4. ended \ good = With("collided") \cup With("bad FCS")
    BY <1>2, <1>5, <2>1, <2>2, <2>3 DEF With
  <2>5. With("collided") \cap With("bad FCS") = {}
    BY DEF With
  <2> QED
    BY <2>4, <2>5
<1>7. Cardinality(ended \ good) = Cardinality(With("collided")) + Cardinality(With("bad FCS"))
  <2>1. IsFiniteSet(With("collided")) /\ IsFiniteSet(With("bad FCS"))
    BY FourWays, StationsFinite DEF SlotEnds
  <2> QED
    BY <1>6, <2>1, DisjointUnion
<1>8. ASSUME NEW i \in Station
      PROVE  /\ AgeOf(i)' = IF i \in Transmitters \ ended THEN age(i) + 1 ELSE 0
             /\ CleanOf(i)' <=> i \in Transmitters \ ended /\ pure(i)
  <2>1. OnAir(st[i])' <=> i \in GoOn
    BY NewEntries DEF Active, OnAir
  <2>2. CASE i \in GoOn
    <3>1. /\ i \in Transmitters /\ ~ Ends(i) /\ st'[i].start_slot = Began(i)
          /\ st'[i].collided <=> Spoilt(i)
      BY <2>2, NewEntries DEF GoOn
    <3> QED
      BY <1>3, <1>4, <2>1, <2>2, <3>1 DEF AgeOf, CleanOf
  <2>3. CASE i \notin GoOn
    BY <1>4, <2>1, <2>3 DEF AgeOf, CleanOf
  <2> QED
    BY <2>2, <2>3
<1>9. /\ metrics'.frames_delivered = metrics.frames_delivered + Cardinality(good)
      /\ metrics'.collided_attempts + metrics'.fcs_failures
           = metrics.collided_attempts + metrics.fcs_failures + Cardinality(ended \ good)
  <2>2. /\ Cardinality(With("collided")) \in Nat /\ Cardinality(With("bad FCS")) \in Nat
        /\ metrics.collided_attempts \in Nat /\ metrics.fcs_failures \in Nat
    BY <1>1, FourWays, MetricsFields DEF SlotEnds
  <2>3. /\ metrics'.frames_delivered
             = metrics.frames_delivered + Cardinality(With("delivered"))
        /\ metrics'.collided_attempts + metrics'.fcs_failures
             = metrics.collided_attempts + metrics.fcs_failures
                 + (Cardinality(With("collided")) + Cardinality(With("bad FCS")))
    <3> DEFINE c == Cardinality(With("collided"))
               f == Cardinality(With("bad FCS"))
               p == metrics.collided_attempts
               q == metrics.fcs_failures
    <3>1. c \in Nat /\ f \in Nat /\ p \in Nat /\ q \in Nat
      BY <2>2
    <3>2. metrics'.collided_attempts = p + c /\ metrics'.fcs_failures = q + f
      BY CountedFields
    <3> HIDE DEF c, f, p, q
    <3>3. metrics'.collided_attempts + metrics'.fcs_failures = p + q + (c + f)
      BY <3>1, <3>2
    <3> QED
      BY <3>3, CountedFields DEF c, f, p, q
  <2> HIDE DEF good, ended
  <2> QED
    BY <1>5, <1>7, <2>3
<1>10. /\ [i \in Station |-> AgeOf(i)]'
            = [i \in Station |-> IF i \in Transmitters \ ended THEN AgeOf(i) + 1 ELSE 0]
       /\ [i \in Station |-> CleanOf(i)]'
            = [i \in Station |-> i \in Transmitters \ ended /\ pure(i)]
  <2>1. \A i \in Station : CleanOf(i)' \in BOOLEAN /\ pure(i) \in BOOLEAN
    BY DEF CleanOf
  <2> QED
    BY <1>8, <2>1, Zenon
<1> DEFINE A         == [i \in Station |->
                          IF OnAir(st[i]) THEN slot - st[i].start_slot ELSE 0]
           B         == [i \in Station |-> OnAir(st[i]) /\ ~ st[i].collided]
           sending   == Medium!OnAir \cup S
           alone     == Medium!Cardinality(sending) = 1
           purely(s) == alone /\ (s \in S \/ B[s])
           finished  == {s \in sending \ J : A[s] + 1 = slot_frame_len}
           sound     == {s \in finished \ G : purely(s)}
           done      == finished \cup J
<1>11. sending = Transmitters /\ sending \subseteq Station /\ S = starters /\ J = jammers
  BY <1>2
<1>12. /\ alone <=> Cardinality(Transmitters) = 1
       /\ \A i \in Station : A[i] = AgeOf(i) /\ B[i] = CleanOf(i)
  BY <1>11, SameCardinality DEF AgeOf, CleanOf
<1>13. \A i \in Station : purely(i) <=> pure(i)
  BY <1>11, <1>12
<1>14. finished = complete
  BY <1>11, <1>12
<1>15. sound = good /\ done = ended
  <2>1. finished \subseteq Station
    BY <1>11
  <2> QED
    BY <1>11, <1>13, <1>14, <2>1
<1>16. /\ A' = [s \in Station |-> IF s \in sending \ done THEN A[s] + 1 ELSE 0]
       /\ B' = [s \in Station |-> s \in sending \ done /\ purely(s)]
  <2>1. /\ A' = [i \in Station |-> AgeOf(i)]'
        /\ B' = [i \in Station |-> CleanOf(i)]'
    BY DEF AgeOf, CleanOf
  <2>2. /\ [i \in Station |-> IF i \in Transmitters \ ended THEN AgeOf(i) + 1 ELSE 0]
             = [s \in Station |-> IF s \in sending \ done THEN A[s] + 1 ELSE 0]
        /\ [i \in Station |-> i \in Transmitters \ ended /\ pure(i)]
             = [s \in Station |-> s \in sending \ done /\ purely(s)]
    <3> HIDE DEF A, B, purely, pure, sending, done, ended
    <3> QED
      BY <1>11, <1>12, <1>13, <1>15
  <2> QED
    BY <1>10, <2>1, <2>2
<1>17. /\ metrics'.frames_delivered = metrics.frames_delivered + Medium!Cardinality(sound)
       /\ metrics'.collided_attempts + metrics'.fcs_failures
            = metrics.collided_attempts + metrics.fcs_failures
                + Medium!Cardinality(done \ sound)
  <2> HIDE DEF sound, done, good, ended
  <2> QED
    BY <1>9, <1>15, SameCardinality
<1> QED
  BY <1>16, <1>17 DEF Medium!Slot

\* Every slot of channel_serve is a slot of the medium; nothing else is seen.
LEMMA MediumStep ==
    ASSUME IInv, [Next]_vars
    PROVE  [Medium!Next]_(Medium!vars)
<1>1. TypeOK /\ turn \in Station
  BY DEF IInv, TypeOK
<1>2. CASE Accept
  <2>1. ~ st[turn].connected /\ st[turn] \in chan_station_t
    BY <1>1, <1>2 DEF Accept, IInv, Running, StationOK, Unaccepted, TypeOK, Station
  <2>2. UNCHANGED Medium!vars
    <3>1. /\ UNCHANGED <<slot, metrics>>
          /\ st' = [st EXCEPT ![turn].connected = TRUE, ![turn].active = FALSE,
                              ![turn].pending_result = "NONE"]
      BY <1>2 DEF Accept
    <3>2. \A i \in Station :
             /\ OnAir(st[i])' <=> OnAir(st[i])
             /\ st'[i].start_slot = st[i].start_slot
             /\ st'[i].collided = st[i].collided
      BY <1>1, <2>1, <3>1 DEF TypeOK, OnAir, chan_station_t
    <3> QED
      BY <3>1, <3>2, MediumStutters
  <2> QED
    BY <2>2
<1>3. CASE SendTick
  <2>1. /\ UNCHANGED <<slot, metrics>>
        /\ st' = st \/ st' = [st EXCEPT ![turn] = [@ EXCEPT !.pending_result = "NONE"]]
    BY <1>3 DEF SendTick, ResultSent
  <2>2. \A i \in Station :
           /\ OnAir(st[i])' <=> OnAir(st[i])
           /\ st'[i].start_slot = st[i].start_slot
           /\ st'[i].collided = st[i].collided
    <3>1. CASE st' = st
      BY <3>1 DEF OnAir
    <3>2. CASE st' = [st EXCEPT ![turn] = [@ EXCEPT !.pending_result = "NONE"]]
      <4>1. /\ \A i \in Station : i # turn => st'[i] = st[i]
            /\ st'[turn] = [st[turn] EXCEPT !.pending_result = "NONE"]
            /\ st[turn] \in chan_station_t
        BY <1>1, <3>2 DEF TypeOK
      <4> QED
        BY <4>1 DEF OnAir, chan_station_t
    <3> QED
      BY <2>1, <3>1, <3>2
  <2> QED
    BY <2>1, <2>2, MediumStutters
<1>4. CASE BrokenPipe \/ WriteFails \/ Listen \/ ListenEof \/ SendStop
  BY <1>4, MediumStutters
  DEF BrokenPipe, WriteFails, Fail, Listen, ListenEof, SendStop, OnAir
<1>5. CASE EndSlot
  <2>1. CASE \E i \in Leaving : st[i].active
    BY <1>5, <2>1, MediumStutters DEF EndSlot, OnAir
  <2>2. CASE ~ \E i \in Leaving : st[i].active
    <3>1. SlotEnds
      BY <1>5, <2>2 DEF EndSlot, SlotEnds, Resolved
    <3>2. PICK S, J, G : S = Did("START") /\ J = Did("JAM") /\ G = Garbled
      OBVIOUS
    <3>3. S \in SUBSET (Station \ Medium!OnAir) /\ J \in SUBSET Medium!OnAir
          /\ G \in SUBSET Station
      BY <3>1, <3>2, MappedOnAir, WhoTransmits
      DEF SlotEnds, Resolved, IInv, Did, Garbled
    <3>4. Medium!Slot(S, J, G)
      BY <3>1, <3>2, SlotIsSlot
    <3>5. Medium!Next
      BY <3>3, <3>4 DEF Medium!Next
    <3> QED
      BY <3>5
  <2> QED
    BY <2>1, <2>2
<1>6. CASE \E i \in Station : StationStep(i) \/ Crash(i)
  BY <1>6, MediumStutters
  DEF StationStep, ReadConfig, Answer, Stop, Eof, Crash, channelVars, OnAir
<1>7. CASE Wait \/ UNCHANGED vars
  BY <1>7, MediumStutters DEF Wait, vars, channelVars, OnAir
<1> QED
  BY <1>2, <1>3, <1>4, <1>5, <1>6, <1>7 DEF Next, Channel

\* Ticks, answers and slot-by-slot bookkeeping implement the slotted medium: a frame is
\* counted as delivered only if it had the medium for itself in each of its slots, and
\* every transmission ends delivered or lost.
THEOREM Refinement == Spec => ImplementsSlottedMedium
<1>1. Init => Medium!Init
  <2>1. ASSUME Init PROVE Medium!Init
    <3>1. \A i \in Station : ~ OnAir(st[i])
      BY <2>1 DEF Init, OnAir
    <3>2. metrics.frames_delivered = 0 /\ metrics.collided_attempts + metrics.fcs_failures = 0
      BY <2>1 DEF Init, NoMetrics
    <3> QED
      BY <3>1, <3>2 DEF Medium!Init
  <2> QED
    BY <2>1
<1>2. IInv /\ [Next]_vars => [Medium!Next]_(Medium!vars)
  BY MediumStep
<1> QED
  BY <1>1, <1>2, Invariance, PTL DEF Spec, ImplementsSlottedMedium, Medium!Spec

=============================================================================
