------------------------ MODULE BoardSampling_proofs ------------------------
(***************************************************************************)
(* Proofs about BoardSampling, for any time-out, periods and radices.      *)
(***************************************************************************)
EXTENDS BoardSampling, LocalTime_proofs

----------------------------------------------------------------------------
(* The day                                                                  *)

LEMMA DayType == MicrosPerDay \in Nat \ {0}
<1>1. MicrosPerSecond \in Nat \ {0}
  BY RadixAssumption DEF MicrosPerSecond
<1>2. MicrosPerMinute \in Nat \ {0}
  BY <1>1, RadixAssumption DEF MicrosPerMinute
<1>3. MicrosPerHour \in Nat \ {0}
  BY <1>2, RadixAssumption DEF MicrosPerHour
<1> QED
  BY <1>3, RadixAssumption DEF MicrosPerDay

\* Days may be dropped before a time is added.
LEMMA DropDays ==
  ASSUME NEW b \in Nat \ {0}, NEW a \in Nat, NEW c \in Nat
  PROVE  ((a % b) + c) % b = (a + c) % b
<1> DEFINE x == (a % b) + c
           q == (a \div b) + (x \div b)
<1>1. a % b \in 0 .. b - 1 /\ a \div b \in Nat /\ a = b * (a \div b) + (a % b)
  BY DivMod
<1>2. x \in Nat
  BY <1>1
<1>3. x % b \in 0 .. b - 1 /\ x \div b \in Nat /\ x = b * (x \div b) + (x % b)
  <2> HIDE DEF x
  <2> QED BY <1>2, DivMod
<1>4. q \in Nat
  BY <1>1, <1>3
<1>5. a + c = q * b + (x % b)
  <2> DEFINE d == a \div b
             r == a % b
             e == x \div b
             s == x % b
  <2>1. d \in Nat /\ r \in Int /\ e \in Nat /\ s \in Int
    BY <1>1, <1>3
  <2>2. a = b * d + r
    BY <1>1
  <2>3. r + c = b * e + s
    BY <1>3 DEF x
  <2> HIDE DEF d, r, e, s, x
  <2>4. a + c = (d + e) * b + s
    BY <2>1, <2>2, <2>3
  <2> QED
    BY <2>4 DEF d, e, s
<1> HIDE DEF q
<1>6. (q * b + (x % b)) % b = x % b
  BY <1>3, <1>4, Unique
<1> QED
  BY <1>5, <1>6

LEMMA HostTime ==
  ASSUME NEW n \in Nat
  PROVE  /\ MicrosSinceMidnight(FromMicros(HostStart + n)) = (HostStart + n) % MicrosPerDay
         /\ (HostStart + n) % MicrosPerDay \in 0 .. MicrosPerDay - 1
<1>1. HostStart + n \in Nat
  BY SamplingAssumption
<1> QED
  BY <1>1, DaysDropped, DayType, DivMod

----------------------------------------------------------------------------
(* The clock: what the board adds its timer to is the host's time at the    *)
(* moment the SYNC in force was sent.                                       *)

ClockInv ==
  /\ clock.local <= now /\ delay <= clock.local
  /\ clock.synced => clock.base = (HostStart + (clock.local - delay)) % MicrosPerDay

CommandInv ==
  command.sent =>
    /\ command.at <= now
    /\ command.micros = (HostStart + command.at) % MicrosPerDay

RowInv ==
  row.sent => /\ row.delay <= row.at
              /\ row.T % MicrosPerDay = (HostStart + (row.at - row.delay)) % MicrosPerDay

ClockInvariant == SamplingTypeOK /\ ClockInv /\ CommandInv /\ RowInv

LEMMA ClockInit == SamplingInit => ClockInvariant
<1> SUFFICES ASSUME SamplingInit PROVE ClockInvariant
  OBVIOUS
<1>1. 0 \in 0 .. MicrosPerDay - 1
  BY DayType
<1>2. SamplingTypeOK
  BY <1>1, SamplingAssumption DEF SamplingInit, SamplingTypeOK, Nothing, NoRow
<1>3. ClockInv /\ CommandInv /\ RowInv
  BY DEF SamplingInit, ClockInv, CommandInv, RowInv, Nothing, NoRow
<1> QED
  BY <1>2, <1>3 DEF ClockInvariant

CollectorTypeSet == [LastTime : Nat, interval : Nat, WasRPM : BOOLEAN]

Late(c, timestamp)  == c.LastTime # 0 /\ timestamp - c.LastTime > Timeout
Pulse(c, level)     == level = LO /\ ~c.WasRPM
PulseInterval(c, timestamp) ==
  IF c.LastTime # 0 /\ timestamp - c.LastTime > 1 THEN timestamp - c.LastTime ELSE c.interval

\* The branches of GetRPM.
LEMMA GetRPMCases ==
  ASSUME NEW c, NEW timestamp, NEW level \in {LO, HI}, timestamp # 0
  PROVE  /\ Late(c, timestamp) =>
              GetRPM(c, timestamp, level) = [LastTime |-> 0, interval |-> 0, WasRPM |-> FALSE]
         /\ ~Late(c, timestamp) /\ Pulse(c, level) =>
              GetRPM(c, timestamp, level) =
                [LastTime |-> timestamp, interval |-> PulseInterval(c, timestamp),
                 WasRPM |-> TRUE]
         /\ ~Late(c, timestamp) /\ level = HI =>
              GetRPM(c, timestamp, level) = [c EXCEPT !.WasRPM = FALSE]
         /\ ~Late(c, timestamp) /\ level = LO /\ c.WasRPM => GetRPM(c, timestamp, level) = c
<1>1. LO # HI
  BY DEF LO, HI
<1>2. Late(c, timestamp) =>
        GetRPM(c, timestamp, level) = [LastTime |-> 0, interval |-> 0, WasRPM |-> FALSE]
  BY DEF GetRPM, Late
<1>3. ~Late(c, timestamp) /\ Pulse(c, level) =>
        GetRPM(c, timestamp, level) =
          [LastTime |-> timestamp, interval |-> PulseInterval(c, timestamp), WasRPM |-> TRUE]
  BY <1>1 DEF GetRPM, Late, Pulse, PulseInterval
<1>4. ~Late(c, timestamp) /\ level = HI =>
        GetRPM(c, timestamp, level) = [c EXCEPT !.WasRPM = FALSE]
  BY <1>1 DEF GetRPM, Late
<1>5. ~Late(c, timestamp) /\ level = LO /\ c.WasRPM => GetRPM(c, timestamp, level) = c
  BY <1>1 DEF GetRPM, Late
<1> QED
  BY <1>2, <1>3, <1>4, <1>5

LEMMA CollectorType ==
  ASSUME NEW c \in CollectorTypeSet,
         NEW timestamp \in Nat, NEW level \in {LO, HI}, timestamp # 0
  PROVE  GetRPM(c, timestamp, level) \in CollectorTypeSet
<1>1. CASE Late(c, timestamp)
  <2>1. GetRPM(c, timestamp, level) = [LastTime |-> 0, interval |-> 0, WasRPM |-> FALSE]
    BY <1>1, GetRPMCases
  <2> QED
    BY <2>1 DEF CollectorTypeSet
<1>2. CASE ~Late(c, timestamp) /\ Pulse(c, level)
  <2>1. PulseInterval(c, timestamp) \in Nat
    BY DEF PulseInterval, CollectorTypeSet
  <2>2. GetRPM(c, timestamp, level) =
          [LastTime |-> timestamp, interval |-> PulseInterval(c, timestamp), WasRPM |-> TRUE]
    BY <1>2, GetRPMCases
  <2> QED
    BY <2>1, <2>2 DEF CollectorTypeSet
<1>3. CASE ~Late(c, timestamp) /\ level = HI
  <2>1. GetRPM(c, timestamp, level) = [c EXCEPT !.WasRPM = FALSE]
    BY <1>3, GetRPMCases
  <2> QED
    BY <2>1 DEF CollectorTypeSet
<1>4. CASE ~Late(c, timestamp) /\ level = LO /\ c.WasRPM
  <2>1. GetRPM(c, timestamp, level) = c
    BY <1>4, GetRPMCases
  <2> QED
    BY <2>1
<1> QED
  BY <1>1, <1>2, <1>3, <1>4 DEF Pulse

\* The time in a row that is sent.
LEMMA RowTime ==
  ASSUME ClockInvariant, clock.synced, NEW timer \in Nat, timer >= now
  PROVE  /\ GetRealTime(clock, timer) \in Nat
         /\ GetRealTime(clock, timer) % MicrosPerDay
              = (HostStart + (timer - delay)) % MicrosPerDay
<1> DEFINE start == HostStart + (clock.local - delay)
           since == timer - clock.local
<1>1. now \in Nat /\ clock.local \in Nat /\ delay \in Nat /\ HostStart \in Nat
  BY SamplingAssumption DEF ClockInvariant, SamplingTypeOK
<1>2. clock.local <= now /\ delay <= clock.local /\ clock.base = start % MicrosPerDay
  BY DEF ClockInvariant, ClockInv
<1>3. start \in Nat /\ since \in Nat /\ start + since = HostStart + (timer - delay)
  BY <1>1, <1>2
<1>4. GetRealTime(clock, timer) = (start % MicrosPerDay) + since
  BY <1>2 DEF GetRealTime
<1> HIDE DEF start, since
<1>5. start % MicrosPerDay \in Nat
  BY <1>3, DayType, DivMod
<1>6. ((start % MicrosPerDay) + since) % MicrosPerDay = (start + since) % MicrosPerDay
  BY <1>3, DayType, DropDays
<1> QED
  BY <1>3, <1>4, <1>5, <1>6

LEMMA ClockRun ==
  ASSUME ClockInvariant,
         NEW turn \in TurnTimes, NEW level \in {LO, HI}, NEW arrived \in BOOLEAN,
         Run(turn, level, arrived)
  PROVE  ClockInvariant'
<1> DEFINE timer == now + turn
<1>1. /\ timer \in Nat /\ timer # 0 /\ timer >= now /\ now' = timer
      /\ samples' = Append(samples, <<timer, level>>)
      /\ collector' = GetRPM(collector, timer, level)
      /\ syncs' = syncs
  BY SamplingAssumption DEF Run, ClockInvariant, SamplingTypeOK
<1>2. /\ now' \in Nat /\ samples' \in Seq(Nat \X {LO, HI}) /\ syncs' \in 0 .. MaxSyncs
      /\ collector' \in [LastTime : Nat, interval : Nat, WasRPM : BOOLEAN]
  <2>1. /\ samples \in Seq(Nat \X {LO, HI}) /\ syncs \in 0 .. MaxSyncs
        /\ collector \in [LastTime : Nat, interval : Nat, WasRPM : BOOLEAN]
    BY DEF ClockInvariant, SamplingTypeOK
  <2> HIDE DEF timer
  <2>2. <<timer, level>> \in Nat \X {LO, HI}
    BY <1>1
  <2>3. samples' \in Seq(Nat \X {LO, HI})
    BY <1>1, <2>1, <2>2
  <2> QED
    BY <1>1, <2>1, <2>3, CollectorType DEF CollectorTypeSet
<1>3. /\ clock' \in [synced : BOOLEAN, base : 0 .. MicrosPerDay - 1, local : Nat]
      /\ delay' \in Nat /\ ClockInv'
  <2>1. CASE arrived
    <3>1. /\ command.sent /\ delay' = timer - command.at
          /\ clock' = [synced |-> TRUE, base |-> command.micros, local |-> timer]
      BY <2>1 DEF Run, Synced
    <3>2. /\ command.at \in Nat /\ command.at <= timer
          /\ command.micros = (HostStart + command.at) % MicrosPerDay
          /\ command.micros \in 0 .. MicrosPerDay - 1
      <4>1. command.at \in Nat /\ now \in Nat /\ command.micros \in 0 .. MicrosPerDay - 1
        BY DEF ClockInvariant, SamplingTypeOK
      <4>2. command.at <= now /\ command.micros = (HostStart + command.at) % MicrosPerDay
        BY <3>1 DEF ClockInvariant, CommandInv
      <4> QED
        BY <1>1, <4>1, <4>2
    <3>3. timer - (timer - command.at) = command.at
      BY <1>1, <3>2
    <3> HIDE DEF timer
    <3> QED
      BY <1>1, <3>1, <3>2, <3>3 DEF ClockInv
  <2>2. CASE ~arrived
    <3>1. UNCHANGED <<clock, delay>>
      BY <2>2 DEF Run
    <3>2. /\ clock \in [synced : BOOLEAN, base : 0 .. MicrosPerDay - 1, local : Nat]
          /\ delay \in Nat /\ now \in Nat /\ ClockInv
      BY DEF ClockInvariant, SamplingTypeOK
    <3> HIDE DEF timer
    <3> QED
      BY <1>1, <3>1, <3>2 DEF ClockInv
  <2> QED
    BY <2>1, <2>2
<1>4. /\ command' \in [sent : BOOLEAN, micros : 0 .. MicrosPerDay - 1, at : Nat]
      /\ CommandInv'
  <2>1. CASE arrived
    <3>1. command' = Nothing
      BY <2>1 DEF Run
    <3> QED
      BY <3>1, DayType DEF Nothing, CommandInv
  <2>2. CASE ~arrived
    <3>1. command' = command
      BY <2>2 DEF Run
    <3>2. /\ command \in [sent : BOOLEAN, micros : 0 .. MicrosPerDay - 1, at : Nat]
          /\ now \in Nat /\ CommandInv
      BY DEF ClockInvariant, SamplingTypeOK
    <3> HIDE DEF timer
    <3> QED
      BY <1>1, <3>1, <3>2 DEF CommandInv
  <2> QED
    BY <2>1, <2>2
<1>5. lastSend' \in Nat /\ row' \in [sent : BOOLEAN, T : Nat, at : Nat, delay : Nat] /\ RowInv'
  <2>1. /\ lastSend \in Nat /\ row \in [sent : BOOLEAN, T : Nat, at : Nat, delay : Nat]
        /\ RowInv /\ delay \in Nat /\ clock.local \in Nat /\ now \in Nat
        /\ clock.local <= now /\ delay <= clock.local
    BY DEF ClockInvariant, SamplingTypeOK, ClockInv
  <2>2. CASE timer - lastSend > SendPeriod /\ clock.synced
    <3>1. /\ lastSend' = timer
          /\ row' = [sent |-> TRUE, T |-> GetRealTime(clock, timer), at |-> timer, delay |-> delay]
      BY <2>2 DEF Run
    <3>2. /\ GetRealTime(clock, timer) \in Nat
          /\ GetRealTime(clock, timer) % MicrosPerDay
               = (HostStart + (timer - delay)) % MicrosPerDay
      <4> HIDE DEF timer
      <4> QED BY <1>1, <2>2, RowTime
    <3> HIDE DEF timer
    <3>3. delay <= timer
      BY <1>1, <2>1
    <3> QED
      BY <1>1, <2>1, <3>1, <3>2, <3>3 DEF RowInv
  <2>3. CASE ~(timer - lastSend > SendPeriod /\ clock.synced)
    <3>1. UNCHANGED <<row, lastSend>>
      BY <2>3 DEF Run
    <3> QED
      BY <2>1, <3>1 DEF RowInv
  <2> QED
    BY <2>2, <2>3
<1> QED
  BY <1>2, <1>3, <1>4, <1>5 DEF ClockInvariant, SamplingTypeOK

LEMMA ClockPressSyncTime ==
  ASSUME ClockInvariant, PressSyncTime PROVE ClockInvariant'
<1>1. /\ syncs' = syncs + 1 /\ syncs < MaxSyncs
      /\ command' = [sent |-> TRUE,
                     micros |-> MicrosSinceMidnight(FromMicros(HostStart + now)), at |-> now]
      /\ UNCHANGED <<now, samples, collector, clock, lastSend, delay, row>>
  BY DEF PressSyncTime
<1>2. SamplingTypeOK /\ ClockInv /\ RowInv
  BY DEF ClockInvariant
<1>3. now \in Nat
  BY <1>2 DEF SamplingTypeOK
<1>4. /\ command'.micros = (HostStart + now) % MicrosPerDay
      /\ command'.micros \in 0 .. MicrosPerDay - 1
  BY <1>1, <1>3, HostTime
<1>5. /\ command' \in [sent : BOOLEAN, micros : 0 .. MicrosPerDay - 1, at : Nat]
      /\ CommandInv'
  BY <1>1, <1>3, <1>4 DEF CommandInv
<1>6. SamplingTypeOK'
  BY <1>1, <1>2, <1>5, SamplingAssumption DEF SamplingTypeOK
<1>7. ClockInv' /\ RowInv'
  BY <1>1, <1>2 DEF ClockInv, RowInv
<1> QED
  BY <1>5, <1>6, <1>7 DEF ClockInvariant

LEMMA ClockStep == ClockInvariant /\ [SamplingNext]_samplingVars => ClockInvariant'
<1> SUFFICES ASSUME ClockInvariant, [SamplingNext]_samplingVars PROVE ClockInvariant'
  OBVIOUS
<1>1. CASE \E turn \in TurnTimes, level \in {LO, HI}, arrived \in BOOLEAN :
             Run(turn, level, arrived)
  BY <1>1, ClockRun
<1>2. CASE PressSyncTime
  BY <1>2, ClockPressSyncTime
<1>3. CASE UNCHANGED samplingVars
  BY <1>3 DEF samplingVars, ClockInvariant, SamplingTypeOK, ClockInv, CommandInv, RowInv
<1> QED
  BY <1>1, <1>2, <1>3 DEF SamplingNext, SamplingEnds

LEMMA ClockAlways == SamplingSpec => []ClockInvariant
BY ClockInit, ClockStep, PTL DEF SamplingSpec

\* The board's variables keep to the values their declarations allow.
THEOREM SamplingTypes == SamplingSpec => []SamplingTypeOK
<1>1. ClockInvariant => SamplingTypeOK
  BY DEF ClockInvariant
<1> QED
  BY <1>1, ClockAlways, PTL

\* The host reads from every row the time of day at which it was measured,
\* late by what the last SYNC took to arrive (BoardBackend::GetRealTime).
THEOREM RowTimesTrue == SamplingSpec => []RowTimeTrue
<1>1. ClockInvariant => RowTimeTrue
  <2> SUFFICES ASSUME ClockInvariant, row.sent
               PROVE  MicrosSinceMidnight(FromMicros(row.T))
                        = (HostStart + row.at - row.delay) % MicrosPerDay
    BY DEF RowTimeTrue
  <2>1. row.T \in Nat /\ row.at \in Nat /\ row.delay \in Nat /\ HostStart \in Nat
    BY SamplingAssumption DEF ClockInvariant, SamplingTypeOK
  <2>2. MicrosSinceMidnight(FromMicros(row.T)) = row.T % MicrosPerDay
    BY <2>1, DaysDropped
  <2>3. row.T % MicrosPerDay = (HostStart + (row.at - row.delay)) % MicrosPerDay
    BY DEF ClockInvariant, RowInv
  <2>4. HostStart + (row.at - row.delay) = HostStart + row.at - row.delay
    BY <2>1
  <2> QED
    BY <2>2, <2>3, <2>4
<1> QED
  BY <1>1, ClockAlways, PTL

----------------------------------------------------------------------------
(* The speed: behind it is a pulse within the time-out.                     *)

Sample == Nat \X {LO, HI}

\* What one more reading does to the readings and the falls.
LEMMA OneMoreSample ==
  ASSUME samples \in Seq(Sample), NEW timer \in Nat, NEW level \in {LO, HI},
         samples' = Append(samples, <<timer, level>>)
  PROVE  /\ Len(samples') = Len(samples) + 1
         /\ \A i \in 1 .. Len(samples) : samples'[i] = samples[i]
         /\ samples'[Len(samples) + 1] = <<timer, level>>
         /\ \A f \in Falls : f \in Falls' /\ Time(f)' = Time(f)
         /\ level = LO /\ (samples = <<>> \/ Level(Len(samples)) = HI) =>
              Len(samples) + 1 \in Falls'
<1>1. <<timer, level>> \in Sample
  BY DEF Sample
<1>2. /\ Len(samples) \in Nat /\ Len(samples') = Len(samples) + 1
      /\ \A i \in 1 .. Len(samples) : samples'[i] = samples[i]
      /\ samples'[Len(samples) + 1] = <<timer, level>>
  BY <1>1
<1>3. ASSUME NEW f \in Falls PROVE f \in Falls' /\ Time(f)' = Time(f)
  <2>1. f \in 1 .. Len(samples) /\ samples[f][2] = LO /\ (f = 1 \/ samples[f - 1][2] = HI)
    BY DEF Falls, Level
  <2>2. samples'[f] = samples[f] /\ (f # 1 => samples'[f - 1] = samples[f - 1])
    BY <1>2, <2>1
  <2> QED
    BY <1>2, <2>1, <2>2 DEF Falls, Level, Time
<1>4. ASSUME level = LO, samples = <<>> \/ Level(Len(samples)) = HI
      PROVE  Len(samples) + 1 \in Falls'
  <2>1. CASE samples = <<>>
    <3>1. Len(samples) = 0
      BY <2>1
    <3> QED
      BY <1>2, <1>4, <3>1 DEF Falls, Level
  <2>2. CASE samples # <<>> /\ Level(Len(samples)) = HI
    <3>1. Len(samples) \in 1 .. Len(samples)
      BY <1>2, <2>2
    <3>2. samples'[(Len(samples) + 1) - 1][2] = HI
      BY <1>2, <2>2, <3>1 DEF Level
    <3> QED
      BY <1>2, <1>4, <3>2 DEF Falls, Level
  <2> QED
    BY <1>4, <2>1, <2>2
<1> QED
  BY <1>2, <1>3, <1>4

\* A speed that is shown goes back to a fall, at most a time-out ago.
FreshInv ==
  collector.interval # 0 =>
    /\ collector.LastTime # 0 /\ now - collector.LastTime <= Timeout
    /\ \E j \in Falls : Time(j) = collector.LastTime

\* The next low level is a fall whenever it would count as a second pulse.
ArmedInv ==
  ~collector.WasRPM /\ collector.LastTime # 0 =>
    samples # <<>> /\ Level(Len(samples)) = HI

PulseTypes ==
  now \in Nat /\ samples \in Seq(Sample) /\ collector \in CollectorTypeSet

PulseInvariant == PulseTypes /\ FreshInv /\ ArmedInv

LEMMA PulseRun ==
  ASSUME PulseInvariant, PulseTypes',
         NEW turn \in TurnTimes, NEW level \in {LO, HI}, NEW arrived \in BOOLEAN,
         Run(turn, level, arrived)
  PROVE  FreshInv' /\ ArmedInv'
<1> DEFINE timer == now + turn
<1>1. /\ timer \in Nat /\ timer # 0 /\ now' = timer
      /\ samples' = Append(samples, <<timer, level>>)
      /\ collector' = GetRPM(collector, timer, level)
  BY SamplingAssumption DEF Run, PulseInvariant, PulseTypes
<1> HIDE DEF timer
<1>2. /\ samples \in Seq(Sample) /\ collector \in CollectorTypeSet /\ FreshInv /\ ArmedInv
  BY DEF PulseInvariant, PulseTypes
<1>3. /\ Len(samples') = Len(samples) + 1
      /\ samples'[Len(samples) + 1] = <<timer, level>>
      /\ \A f \in Falls : f \in Falls' /\ Time(f)' = Time(f)
      /\ level = LO /\ (samples = <<>> \/ Level(Len(samples)) = HI) =>
           Len(samples) + 1 \in Falls'
  BY <1>1, <1>2, OneMoreSample
<1>4. PICK n \in Nat : n = Len(samples) + 1
  BY <1>2
<1>5. Len(samples') = n /\ samples' # <<>> /\ samples'[n][1] = timer /\ samples'[n][2] = level
  BY <1>1, <1>2, <1>3, <1>4
<1>6. LO # HI
  BY DEF LO, HI
<1>7. CASE Late(collector, timer)
  <2>1. collector' = [LastTime |-> 0, interval |-> 0, WasRPM |-> FALSE]
    BY <1>1, <1>7, GetRPMCases
  <2> QED
    BY <2>1 DEF FreshInv, ArmedInv
<1>8. CASE ~Late(collector, timer) /\ Pulse(collector, level)
  <2>1. collector' = [LastTime |-> timer, interval |-> PulseInterval(collector, timer),
                      WasRPM |-> TRUE]
    BY <1>1, <1>8, GetRPMCases
  <2>2. ArmedInv'
    BY <2>1 DEF ArmedInv
  <2>3. ASSUME collector'.interval # 0 PROVE FreshInv'
    <3>1. collector.LastTime # 0
      BY <1>2, <2>1, <2>3 DEF PulseInterval, FreshInv
    <3>2. level = LO /\ samples # <<>> /\ Level(Len(samples)) = HI
      BY <1>2, <1>8, <3>1 DEF Pulse, ArmedInv
    <3>3. n \in Falls' /\ Time(n)' = timer
      BY <1>3, <1>4, <1>5, <3>2 DEF Time
    <3>4. collector'.LastTime = timer /\ now' - timer <= Timeout
      BY <1>1, <2>1, SamplingAssumption
    <3> QED
      BY <1>1, <3>3, <3>4 DEF FreshInv
  <2> QED
    BY <2>2, <2>3 DEF FreshInv
<1>9. CASE ~Late(collector, timer) /\ ~Pulse(collector, level)
  <2>1. /\ collector'.LastTime = collector.LastTime /\ collector'.interval = collector.interval
        /\ level = HI \/ collector'.WasRPM
    <3>1. CASE level = HI
      <4>1. collector' = [collector EXCEPT !.WasRPM = FALSE]
        BY <1>1, <1>9, <3>1, GetRPMCases
      <4> QED
        BY <1>2, <3>1, <4>1 DEF CollectorTypeSet
    <3>2. CASE level # HI
      <4>1. level = LO /\ collector.WasRPM
        BY <1>9, <3>2 DEF Pulse
      <4>2. collector' = collector
        BY <1>1, <1>9, <4>1, GetRPMCases
      <4> QED
        BY <4>1, <4>2
    <3> QED
      BY <3>1, <3>2
  <2>2. ArmedInv'
    BY <1>5, <2>1 DEF ArmedInv, Level
  <2>3. ASSUME collector'.interval # 0 PROVE FreshInv'
    <3>1. collector.LastTime # 0 /\ \E j \in Falls : Time(j) = collector.LastTime
      BY <1>2, <2>1, <2>3 DEF FreshInv
    <3>2. PICK j \in Falls : Time(j) = collector.LastTime
      BY <3>1
    <3>3. j \in Falls' /\ Time(j)' = collector'.LastTime
      BY <1>3, <2>1, <3>2
    <3>4. now' - collector'.LastTime <= Timeout
      BY <1>1, <1>2, <1>9, <2>1, <3>1, SamplingAssumption DEF Late, CollectorTypeSet
    <3> QED
      BY <2>1, <3>1, <3>3, <3>4 DEF FreshInv
  <2> QED
    BY <2>2, <2>3 DEF FreshInv
<1> QED
  BY <1>7, <1>8, <1>9

LEMMA TypesOfPulses == SamplingTypeOK => PulseTypes
BY DEF SamplingTypeOK, PulseTypes, Sample, CollectorTypeSet

LEMMA PulseStep ==
  SamplingTypeOK /\ SamplingTypeOK' /\ PulseInvariant /\ [SamplingNext]_samplingVars
    => PulseInvariant'
<1> SUFFICES ASSUME SamplingTypeOK', PulseInvariant, [SamplingNext]_samplingVars
             PROVE  PulseInvariant'
  OBVIOUS
<1>1. PulseTypes'
  BY DEF SamplingTypeOK, PulseTypes, Sample, CollectorTypeSet
<1>2. FreshInv' /\ ArmedInv'
  <2>1. CASE \E turn \in TurnTimes, level \in {LO, HI}, arrived \in BOOLEAN :
               Run(turn, level, arrived)
    BY <1>1, <2>1, PulseRun
  <2>2. CASE UNCHANGED <<now, samples, collector>>
    BY <2>2 DEF PulseInvariant, FreshInv, ArmedInv, Falls, Time, Level
  <2> QED
    BY <2>1, <2>2 DEF SamplingNext, PressSyncTime, SamplingEnds, samplingVars
<1> QED
  BY <1>1, <1>2 DEF PulseInvariant

\* A speed is never older than the time-out: a low level has begun since
\* (RPMCollector::GetRPM).
THEOREM SpeedsFresh == SamplingSpec => []SpeedIsFresh
<1>1. SamplingInit => PulseInvariant
  BY DEF SamplingInit, PulseInvariant, PulseTypes, CollectorTypeSet, FreshInv, ArmedInv
<1>2. PulseInvariant => SpeedIsFresh
  BY DEF PulseInvariant, FreshInv, SpeedIsFresh
<1> QED
  BY <1>1, <1>2, SamplingTypes, PulseStep, PTL DEF SamplingSpec
----------------------------------------------------------------------------
(* The history of a speed                                                   *)

\* Falls, and what SpeedOfOneTurn asks of a speed, for any readings s.
FallsIn(s) == {i \in 1 .. Len(s) : s[i][2] = LO /\ (i = 1 \/ s[i - 1][2] = HI)}

\* Reading i is where a turn may begin: a fall, or the first low reading after
\* a time-out that struck while the pin was low.
Starts(s, i) ==
  /\ i \in 1 .. Len(s) /\ s[i][2] = LO
  /\ \/ i \in FallsIn(s)
     \/ \E g \in FallsIn(s) : /\ g < i /\ s[i][1] - s[g][1] > Timeout
                              /\ \A f, h \in FallsIn(s) : g < f /\ f < h => i < h

OneTurn(s, interval) ==
  \E j \in FallsIn(s), i \in 1 .. Len(s) :
    /\ i < j /\ s[j][1] - s[i][1] = interval /\ Starts(s, i)
    /\ \A f \in FallsIn(s) : i < f /\ f <= j => f = j

Ordered(s, time) ==
  /\ \A i \in 1 .. Len(s) : s[i][1] <= time
  /\ \A i, k \in 1 .. Len(s) : i < k => s[i][1] < s[k][1]

Last(s, level) == s # <<>> /\ s[Len(s)][2] = level

\* The pulse the collector counts from is the last fall, or comes after it.
CountsFrom(s, c) ==
  c.LastTime # 0 => \E i \in 1 .. Len(s) : /\ Starts(s, i) /\ s[i][1] = c.LastTime
                                           /\ \A f \in FallsIn(s) : f <= i

\* What the next low reading will be: none when one was counted and the pin is
\* still low, a fall, or a start after a time-out.
Expects(s, c, time) ==
  /\ c.WasRPM => c.LastTime # 0 /\ Last(s, LO)
  /\ ~c.WasRPM /\ c.LastTime # 0 => Last(s, HI)
  /\ c.LastTime = 0 => \/ s = <<>> \/ Last(s, HI)
                       \/ \E g \in FallsIn(s) : /\ time - s[g][1] > Timeout
                                                /\ \A f, h \in FallsIn(s) : ~(g < f /\ f < h)

TurnInv(s, c, time) ==
  /\ Ordered(s, time) /\ CountsFrom(s, c) /\ Expects(s, c, time)
  /\ c.interval # 0 => OneTurn(s, c.interval)

\* t is s with one reading more, its n-th.
OneMore(s, t, timer, level, n) ==
  /\ n \in Nat \ {0} /\ Len(s) \in Nat /\ t \in Seq(Sample) /\ Len(t) = n
  /\ \A i \in 1 .. Len(s) : t[i] = s[i]
  /\ t[n] = <<timer, level>> /\ t # <<>>
  /\ \A i \in 1 .. Len(s) : s[i][1] \in Nat
  /\ FallsIn(s) \subseteq 1 .. Len(s)
  /\ FallsIn(s) \subseteq FallsIn(t) /\ FallsIn(t) \subseteq FallsIn(s) \cup {n}
  /\ n \in FallsIn(t) <=> level = LO /\ (s = <<>> \/ Last(s, HI))

\* Adding a reading adds at most one fall, the reading itself.
LEMMA OneReadingMore ==
  ASSUME NEW s \in Seq(Sample), NEW timer \in Nat, NEW level \in {LO, HI},
         NEW t, t = Append(s, <<timer, level>>), NEW n, n = Len(s) + 1
  PROVE  OneMore(s, t, timer, level, n)
<1>1. <<timer, level>> \in Sample
  BY DEF Sample
<1>2. /\ n \in Nat \ {0} /\ Len(s) \in Nat /\ t \in Seq(Sample) /\ Len(t) = n
      /\ \A i \in 1 .. Len(s) : t[i] = s[i]
      /\ t[n] = <<timer, level>> /\ t # <<>>
  BY <1>1
<1>3. \A i \in 1 .. Len(s) : s[i][1] \in Nat
  BY DEF Sample
<1>4. FallsIn(s) \subseteq 1 .. Len(s) /\ FallsIn(t) \subseteq 1 .. n
  BY <1>2 DEF FallsIn
<1>5. ASSUME NEW i \in 1 .. Len(s) PROVE i \in FallsIn(t) <=> i \in FallsIn(s)
  <2>1. t[i] = s[i] /\ (i # 1 => t[i - 1] = s[i - 1])
    BY <1>2
  <2> QED
    BY <1>2, <2>1 DEF FallsIn
<1>6. n \in FallsIn(t) <=> level = LO /\ (s = <<>> \/ Last(s, HI))
  <2>1. n \in FallsIn(t) <=> level = LO /\ (n = 1 \/ t[n - 1][2] = HI)
    BY <1>2 DEF FallsIn
  <2>2. CASE s = <<>>
    BY <1>2, <2>1, <2>2
  <2>3. CASE s # <<>>
    <3>1. n - 1 = Len(s) /\ n # 1 /\ Len(s) \in 1 .. Len(s)
      BY <1>2, <2>3
    <3>2. t[n - 1] = s[Len(s)]
      BY <1>2, <3>1
    <3> QED
      BY <2>1, <2>3, <3>1, <3>2 DEF Last
  <2> QED
    BY <2>2, <2>3
<1>7. \A i \in 1 .. n : i \in 1 .. Len(s) \/ i = n
  BY <1>2
<1> QED
  BY <1>2, <1>3, <1>4, <1>5, <1>6, <1>7 DEF OneMore

\* What was a start or a turn stays one.
LEMMA StartsStay ==
  ASSUME NEW s \in Seq(Sample), NEW timer \in Nat, NEW level \in {LO, HI},
         NEW t, t = Append(s, <<timer, level>>)
  PROVE  /\ \A i : Starts(s, i) => Starts(t, i)
         /\ \A v : OneTurn(s, v) => OneTurn(t, v)
<1>a. PICK n : n = Len(s) + 1
  OBVIOUS
<1>m. OneMore(s, t, timer, level, n)
  BY <1>a, OneReadingMore
<1>0. /\ n \in Nat \ {0} /\ Len(s) \in Nat /\ t \in Seq(Sample) /\ Len(t) = n
      /\ \A i \in 1 .. Len(s) : t[i] = s[i]
      /\ t[n] = <<timer, level>> /\ t # <<>>
      /\ \A i \in 1 .. Len(s) : s[i][1] \in Nat
      /\ FallsIn(s) \subseteq 1 .. Len(s)
      /\ FallsIn(s) \subseteq FallsIn(t) /\ FallsIn(t) \subseteq FallsIn(s) \cup {n}
      /\ n \in FallsIn(t) <=> level = LO /\ (s = <<>> \/ Last(s, HI))
  BY <1>m DEF OneMore
<1>1. ASSUME NEW i, Starts(s, i) PROVE Starts(t, i)
  <2>1. i \in 1 .. Len(s) /\ i \in 1 .. Len(t) /\ t[i] = s[i] /\ s[i][2] = LO
    BY <1>0, <1>1, <1>a DEF Starts
  <2>2. CASE i \in FallsIn(s)
    BY <1>0, <2>1, <2>2 DEF Starts
  <2>3. CASE i \notin FallsIn(s)
    <3>1. PICK g \in FallsIn(s) : /\ g < i /\ s[i][1] - s[g][1] > Timeout
                                  /\ \A f, h \in FallsIn(s) : g < f /\ f < h => i < h
      BY <1>1, <2>3 DEF Starts
    <3>2. g \in FallsIn(t) /\ t[g] = s[g]
      BY <1>0, <3>1
    <3>3. ASSUME NEW f \in FallsIn(t), NEW h \in FallsIn(t), g < f, f < h PROVE i < h
      <4>1. CASE h = n
        BY <1>0, <1>a, <2>1, <4>1
      <4>2. CASE h # n
        <5>1. h \in FallsIn(s) /\ h \in 1 .. Len(s)
          BY <1>0, <4>2
        <5>2. f # n
          BY <1>0, <1>a, <3>3, <5>1
        <5>3. f \in FallsIn(s)
          BY <1>0, <5>2
        <5> QED
          BY <3>1, <3>3, <5>1, <5>3
      <4> QED
        BY <4>1, <4>2
    <3> QED
      BY <2>1, <3>1, <3>2, <3>3 DEF Starts
  <2> QED
    BY <2>2, <2>3
<1>2. ASSUME NEW v, OneTurn(s, v) PROVE OneTurn(t, v)
  <2>1. PICK j \in FallsIn(s), i \in 1 .. Len(s) :
          /\ i < j /\ s[j][1] - s[i][1] = v /\ Starts(s, i)
          /\ \A f \in FallsIn(s) : i < f /\ f <= j => f = j
    BY <1>2 DEF OneTurn
  <2>2. /\ j \in FallsIn(t) /\ i \in 1 .. Len(t) /\ t[j] = s[j] /\ t[i] = s[i]
        /\ j \in 1 .. Len(s)
    <3>1. j \in FallsIn(t) /\ j \in 1 .. Len(s)
      BY <1>0
    <3>2. i \in 1 .. Len(t)
      BY <1>0, <1>a
    <3> QED
      BY <1>0, <3>1, <3>2
  <2>3. ASSUME NEW f \in FallsIn(t), i < f, f <= j PROVE f = j
    <3>1. f # n
      BY <1>0, <1>a, <2>2, <2>3
    <3> QED
      BY <1>0, <2>1, <2>3, <3>1
  <2> QED
    BY <1>1, <2>1, <2>2, <2>3 DEF OneTurn
<1> QED
  BY <1>1, <1>2

\* Readings stay in the order of their times, none later than now.
LEMMA OrderedStays ==
  ASSUME NEW s \in Seq(Sample), NEW time \in Nat, NEW timer \in Nat, timer > time,
         NEW level \in {LO, HI}, NEW t, t = Append(s, <<timer, level>>), Ordered(s, time)
  PROVE  Ordered(t, timer)
<1>a. PICK n : n = Len(s) + 1
  OBVIOUS
<1>m. OneMore(s, t, timer, level, n)
  BY <1>a, OneReadingMore
<1>0. /\ n \in Nat \ {0} /\ Len(s) \in Nat /\ t \in Seq(Sample) /\ Len(t) = n
      /\ \A i \in 1 .. Len(s) : t[i] = s[i]
      /\ t[n] = <<timer, level>> /\ t # <<>>
      /\ \A i \in 1 .. Len(s) : s[i][1] \in Nat
      /\ FallsIn(s) \subseteq 1 .. Len(s)
      /\ FallsIn(s) \subseteq FallsIn(t) /\ FallsIn(t) \subseteq FallsIn(s) \cup {n}
      /\ n \in FallsIn(t) <=> level = LO /\ (s = <<>> \/ Last(s, HI))
  BY <1>m DEF OneMore
<1>1. \A i \in 1 .. Len(s) : t[i][1] \in Nat /\ t[i][1] <= time /\ t[i][1] < timer
  BY <1>0 DEF Ordered
<1>2. t[n][1] = timer
  BY <1>0
<1>3. \A i \in 1 .. n : i \in 1 .. Len(s) \/ i = n
  BY <1>0, <1>a
<1>4. \A i \in 1 .. n : t[i][1] <= timer
  BY <1>1, <1>2, <1>3
<1>5. ASSUME NEW i \in 1 .. n, NEW k \in 1 .. n, i < k PROVE t[i][1] < t[k][1]
  <2>1. i \in 1 .. Len(s)
    BY <1>0, <1>a, <1>5
  <2>2. CASE k = n
    BY <1>1, <1>2, <2>1, <2>2
  <2>3. CASE k # n
    <3>1. k \in 1 .. Len(s)
      BY <1>3, <2>3
    <3> QED
      BY <1>0, <1>5, <2>1, <3>1 DEF Ordered
  <2> QED
    BY <2>2, <2>3
<1> QED
  BY <1>0, <1>4, <1>5 DEF Ordered

\* A time-out strikes: the last fall is further back than the time-out, so
\* that a low pin will be a start.
LEMMA TimeoutStrikes ==
  ASSUME NEW s \in Seq(Sample), NEW time \in Nat, Ordered(s, time), NEW timer \in Nat,
         NEW i \in 1 .. Len(s), Starts(s, i), timer - s[i][1] > Timeout,
         \A f \in FallsIn(s) : f <= i
  PROVE  \E g \in FallsIn(s) : timer - s[g][1] > Timeout /\ \A f \in FallsIn(s) : f <= g
<1>0. FallsIn(s) \subseteq 1 .. Len(s) /\ \A k \in 1 .. Len(s) : s[k][1] \in Nat
  BY DEF FallsIn, Sample
<1>1. ASSUME NEW g \in FallsIn(s) PROVE timer - s[g][1] > Timeout
  <2>1. g \in 1 .. Len(s) /\ g <= i
    BY <1>0
  <2>2. g = i \/ s[g][1] < s[i][1]
    BY <2>1 DEF Ordered
  <2> QED
    BY <1>0, <2>1, <2>2, SamplingAssumption
<1>2. CASE i \in FallsIn(s)
  BY <1>1, <1>2
<1>3. CASE i \notin FallsIn(s)
  <2>1. PICK g \in FallsIn(s) : \A f, h \in FallsIn(s) : g < f /\ f < h => i < h
    BY <1>3 DEF Starts
  <2>2. CASE \A f \in FallsIn(s) : f <= g
    BY <1>1, <2>1, <2>2
  <2>3. CASE \E f \in FallsIn(s) : ~(f <= g)
    <3>1. PICK f \in FallsIn(s) : g < f
      BY <1>0, <2>3
    <3>2. ASSUME NEW h \in FallsIn(s) PROVE h <= f
      <4>1. f < h => i < h
        BY <2>1, <3>1
      <4>2. h <= i
        OBVIOUS
      <4> QED
        BY <1>0, <4>1, <4>2
    <3> QED
      BY <1>1, <3>2
  <2> QED
    BY <2>2, <2>3
<1> QED
  BY <1>2, <1>3

\* A call of GetRPM keeps the invariant, whatever it reads.
LEMMA TurnStep ==
  ASSUME NEW s \in Seq(Sample), NEW time \in Nat, NEW c \in CollectorTypeSet,
         NEW timer \in Nat, timer > time, NEW level \in {LO, HI}, TurnInv(s, c, time),
         NEW t, t = Append(s, <<timer, level>>)
  PROVE  TurnInv(t, GetRPM(c, timer, level), timer)
<1>a. PICK n : n = Len(s) + 1
  OBVIOUS
<1>m. OneMore(s, t, timer, level, n)
  BY <1>a, OneReadingMore
<1>0. /\ n \in Nat \ {0} /\ Len(s) \in Nat /\ t \in Seq(Sample) /\ Len(t) = n
      /\ \A i \in 1 .. Len(s) : t[i] = s[i]
      /\ t[n] = <<timer, level>> /\ t # <<>>
      /\ \A i \in 1 .. Len(s) : s[i][1] \in Nat
      /\ FallsIn(s) \subseteq 1 .. Len(s)
      /\ FallsIn(s) \subseteq FallsIn(t) /\ FallsIn(t) \subseteq FallsIn(s) \cup {n}
      /\ n \in FallsIn(t) <=> level = LO /\ (s = <<>> \/ Last(s, HI))
  BY <1>m DEF OneMore
<1> DEFINE d == GetRPM(c, timer, level)
<1>b. /\ Ordered(s, time) /\ CountsFrom(s, c) /\ Expects(s, c, time)
      /\ c.interval # 0 => OneTurn(s, c.interval)
  BY DEF TurnInv
<1>c. Ordered(t, timer)
  BY <1>b, OrderedStays
<1>d. timer # 0 /\ LO # HI /\ Last(t, level)
  BY <1>0 DEF LO, HI, Last
<1>e. /\ \A i : Starts(s, i) => Starts(t, i)
      /\ \A v : OneTurn(s, v) => OneTurn(t, v)
  BY StartsStay
<1>f. /\ n \in 1 .. n /\ t[n][1] = timer /\ t[n][2] = level
      /\ \A i \in 1 .. Len(s) : i \in 1 .. n /\ i < n
  BY <1>0, <1>a
<1>1. CASE Late(c, timer)
  <2>1. d = [LastTime |-> 0, interval |-> 0, WasRPM |-> FALSE]
    BY <1>1, <1>d, GetRPMCases
  <2> HIDE DEF d
  <2>2. d.LastTime = 0 /\ d.interval = 0 /\ d.WasRPM = FALSE
    BY <2>1
  <2>3. CASE level = HI
    BY <1>c, <1>d, <2>2, <2>3 DEF TurnInv, CountsFrom, Expects, d
  <2>4. CASE level = LO
    <3>1. PICK i \in 1 .. Len(s) : /\ Starts(s, i) /\ s[i][1] = c.LastTime
                                   /\ \A f \in FallsIn(s) : f <= i
      BY <1>1, <1>b DEF CountsFrom, Late
    <3>2. PICK g \in FallsIn(s) : /\ timer - s[g][1] > Timeout
                                  /\ \A f \in FallsIn(s) : f <= g
      BY <1>1, <1>b, <3>1, TimeoutStrikes DEF Late
    <3>3. g \in FallsIn(t) /\ t[g] = s[g]
      BY <1>0
    <3>4. ASSUME NEW f \in FallsIn(t), NEW h \in FallsIn(t) PROVE ~(g < f /\ f < h)
      <4>1. CASE f \in FallsIn(s)
        <5>1. f <= g /\ f \in 1 .. Len(s) /\ g \in 1 .. Len(s)
          BY <1>0, <3>2, <4>1
        <5> QED
          BY <5>1
      <4>2. CASE f = n
        <5>1. h = n \/ h \in 1 .. Len(s)
          BY <1>0
        <5> QED
          BY <1>0, <1>a, <4>2, <5>1
      <4> QED
        BY <1>0, <4>1, <4>2
    <3>5. Expects(t, d, timer)
      BY <2>2, <3>2, <3>3, <3>4 DEF Expects
    <3> QED
      BY <1>c, <2>2, <3>5 DEF TurnInv, CountsFrom, d
  <2> QED
    BY <2>3, <2>4
<1>2. CASE ~Late(c, timer) /\ Pulse(c, level)
  <2>1. d = [LastTime |-> timer, interval |-> PulseInterval(c, timer), WasRPM |-> TRUE]
    BY <1>2, <1>d, GetRPMCases
  <2> HIDE DEF d
  <2>2. /\ d.LastTime = timer /\ d.interval = PulseInterval(c, timer) /\ d.WasRPM = TRUE
        /\ level = LO /\ ~c.WasRPM
    BY <1>2, <2>1 DEF Pulse
  <2>3. Starts(t, n)
    <3>1. CASE s = <<>> \/ Last(s, HI)
      BY <1>0, <1>f, <2>2, <3>1 DEF Starts
    <3>2. CASE ~(s = <<>> \/ Last(s, HI))
      <4>1. PICK g \in FallsIn(s) : /\ time - s[g][1] > Timeout
                                    /\ \A f, h \in FallsIn(s) : ~(g < f /\ f < h)
        BY <1>b, <2>2, <3>2 DEF Expects
      <4>2. g \in FallsIn(t) /\ t[g] = s[g] /\ g \in 1 .. Len(s) /\ s[g][1] \in Nat
        BY <1>0
      <4>3. FallsIn(t) = FallsIn(s)
        BY <1>0, <3>2
      <4>4. t[n][1] - t[g][1] > Timeout /\ g < n
        <5>1. timer - s[g][1] > Timeout
          BY <4>1, <4>2, SamplingAssumption
        <5>2. t[n][1] - t[g][1] = timer - s[g][1]
          BY <1>f, <4>2
        <5> QED
          BY <1>f, <4>2, <5>1, <5>2
      <4> QED
        BY <1>0, <1>f, <2>2, <4>1, <4>2, <4>3, <4>4 DEF Starts
    <3> QED
      BY <3>1, <3>2
  <2>4. ASSUME NEW f \in FallsIn(t) PROVE f <= n
    <3>1. f \in 1 .. Len(s) \/ f = n
      BY <1>0
    <3> QED
      BY <1>0, <1>a, <3>1
  <2>5. CountsFrom(t, d)
    BY <1>0, <1>f, <2>2, <2>3, <2>4 DEF CountsFrom
  <2>6. Expects(t, d, timer)
    BY <1>d, <2>2 DEF Expects
  <2>7. ASSUME d.interval # 0 PROVE OneTurn(t, d.interval)
    <3>1. CASE ~(c.LastTime # 0 /\ timer - c.LastTime > 1)
      <4>1. d.interval = c.interval
        BY <2>2, <3>1 DEF PulseInterval
      <4> QED
        BY <1>b, <1>e, <2>7, <4>1
    <3>2. CASE c.LastTime # 0 /\ timer - c.LastTime > 1
      <4>1. d.interval = timer - c.LastTime
        BY <2>2, <3>2 DEF PulseInterval
      <4>2. PICK i \in 1 .. Len(s) : /\ Starts(s, i) /\ s[i][1] = c.LastTime
                                     /\ \A f \in FallsIn(s) : f <= i
        BY <1>b, <3>2 DEF CountsFrom
      <4>3. n \in FallsIn(t)
        BY <1>0, <1>b, <2>2, <3>2 DEF Expects
      <4>4. Starts(t, i) /\ i \in 1 .. Len(t) /\ i < n /\ t[n][1] - t[i][1] = d.interval
        BY <1>0, <1>e, <1>f, <4>1, <4>2
      <4>5. ASSUME NEW f \in FallsIn(t), i < f, f <= n PROVE f = n
        <5>1. ASSUME f \in FallsIn(s) PROVE FALSE
          <6>1. f <= i /\ f \in 1 .. Len(s)
            BY <1>0, <4>2, <5>1
          <6> QED
            BY <4>5, <6>1
        <5> QED
          BY <1>0, <5>1
      <4> QED
        BY <4>3, <4>4, <4>5 DEF OneTurn
    <3> QED
      BY <3>1, <3>2
  <2> QED
    BY <1>c, <2>5, <2>6, <2>7 DEF TurnInv, d
<1>3. CASE ~Late(c, timer) /\ ~Pulse(c, level)
  <2>1. /\ d.LastTime = c.LastTime /\ d.interval = c.interval
        /\ \/ level = HI /\ d.WasRPM = FALSE
           \/ level = LO /\ c.WasRPM /\ d.WasRPM = c.WasRPM
    <3>1. CASE level = HI
      <4>1. d = [c EXCEPT !.WasRPM = FALSE]
        BY <1>3, <1>d, <3>1, GetRPMCases
      <4> HIDE DEF d
      <4> QED
        BY <3>1, <4>1 DEF CollectorTypeSet
    <3>2. CASE level # HI
      <4>1. level = LO /\ c.WasRPM
        BY <1>3, <3>2 DEF Pulse
      <4>2. d = c
        BY <1>3, <1>d, <4>1, GetRPMCases
      <4> QED
        BY <4>1, <4>2
    <3> QED
      BY <3>1, <3>2
  <2> HIDE DEF d
  <2>2. FallsIn(t) = FallsIn(s)
    <3>1. n \notin FallsIn(t)
      <4>1. CASE level = HI
        BY <1>0, <1>d, <4>1
      <4>2. CASE level = LO /\ c.WasRPM
        BY <1>0, <1>b, <1>d, <4>2 DEF Expects, Last
      <4> QED
        BY <2>1, <4>1, <4>2
    <3> QED
      BY <1>0, <3>1
  <2>3. CountsFrom(t, d)
    <3>1. ASSUME d.LastTime # 0
          PROVE  \E i \in 1 .. Len(t) : /\ Starts(t, i) /\ t[i][1] = d.LastTime
                                        /\ \A f \in FallsIn(t) : f <= i
      <4>1. PICK i \in 1 .. Len(s) : /\ Starts(s, i) /\ s[i][1] = c.LastTime
                                     /\ \A f \in FallsIn(s) : f <= i
        BY <1>b, <2>1, <3>1 DEF CountsFrom
      <4>2. i \in 1 .. Len(t) /\ t[i] = s[i] /\ Starts(t, i)
        BY <1>0, <1>e, <1>f, <4>1
      <4> QED
        BY <2>1, <2>2, <4>1, <4>2
    <3> QED
      BY <3>1 DEF CountsFrom
  <2>4. Expects(t, d, timer)
    <3>1. CASE level = HI /\ d.WasRPM = FALSE
      BY <1>d, <3>1 DEF Expects
    <3>2. CASE level = LO /\ c.WasRPM /\ d.WasRPM = c.WasRPM
      <4>1. c.LastTime # 0
        BY <1>b, <3>2 DEF Expects
      <4> QED
        BY <1>d, <2>1, <3>2, <4>1 DEF Expects
    <3> QED
      BY <2>1, <3>1, <3>2
  <2> QED
    BY <1>b, <1>c, <1>e, <2>1, <2>3, <2>4 DEF TurnInv, d
<1> QED
  BY <1>1, <1>2, <1>3

TurnsInvariant == PulseTypes /\ TurnInv(samples, collector, now)

\* So does every step of the board.
LEMMA TurnsStep ==
  SamplingTypeOK' /\ TurnsInvariant /\ [SamplingNext]_samplingVars => TurnsInvariant'
<1> SUFFICES ASSUME SamplingTypeOK', TurnsInvariant, [SamplingNext]_samplingVars
             PROVE  TurnsInvariant'
  OBVIOUS
<1>0. PulseTypes /\ TurnInv(samples, collector, now)
  BY DEF TurnsInvariant
<1>1. PulseTypes'
  BY DEF SamplingTypeOK, PulseTypes, Sample, CollectorTypeSet
<1>2. CASE \E turn \in TurnTimes, level \in {LO, HI}, arrived \in BOOLEAN :
             Run(turn, level, arrived)
  <2>1. PICK turn \in TurnTimes, level \in {LO, HI}, arrived \in BOOLEAN :
               Run(turn, level, arrived)
    BY <1>2
  <2> DEFINE timer == now + turn
  <2>2. /\ timer \in Nat /\ timer > now /\ now' = timer
        /\ samples' = Append(samples, <<timer, level>>)
        /\ collector' = GetRPM(collector, timer, level)
    BY <1>0, <2>1, SamplingAssumption DEF Run, PulseTypes
  <2> HIDE DEF timer
  <2>3. TurnInv(samples', collector', now')
    BY <1>0, <2>2, TurnStep DEF PulseTypes
  <2> QED
    BY <1>1, <2>3 DEF TurnsInvariant
<1>3. CASE UNCHANGED <<now, samples, collector>>
  <2>1. TurnInv(samples', collector', now')
    BY <1>0, <1>3
  <2> QED
    BY <1>1, <2>1 DEF TurnsInvariant
<1> QED
  BY <1>2, <1>3 DEF SamplingNext, PressSyncTime, SamplingEnds, samplingVars

\* A speed is that of one turn, from one pulse to the next: GetRPM counts no level
\* twice, but for the first of a turn after a time-out.
THEOREM SpeedsOfOneTurn == SamplingSpec => []SpeedOfOneTurn
<1>1. SamplingInit => TurnsInvariant
  <2> SUFFICES ASSUME SamplingInit PROVE TurnsInvariant
    OBVIOUS
  <2>1. samples = <<>> /\ Len(samples) = 0 /\ now = 0
        /\ collector = [LastTime |-> 0, interval |-> 0, WasRPM |-> FALSE]
    BY DEF SamplingInit
  <2>2. PulseTypes
    BY <2>1 DEF PulseTypes, CollectorTypeSet
  <2>3. TurnInv(samples, collector, now)
    BY <2>1 DEF TurnInv, Ordered, CountsFrom, Expects
  <2> QED
    BY <2>2, <2>3 DEF TurnsInvariant
<1>2. TurnsInvariant => SpeedOfOneTurn
  <2> SUFFICES ASSUME TurnsInvariant, collector.interval # 0
               PROVE  \E j \in Falls, i \in 1 .. Len(samples) :
                        /\ i < j /\ Level(i) = LO
                        /\ Time(j) - Time(i) = collector.interval
                        /\ {f \in Falls : i < f /\ f <= j} = {j}
                        /\ \/ i \in Falls
                           \/ \E g \in Falls : /\ g < i /\ Time(i) - Time(g) > Timeout
                                               /\ \A f, h \in Falls : g < f /\ f < h => i < h
    BY DEF SpeedOfOneTurn
  <2>1. Falls = FallsIn(samples) /\ \A i : Level(i) = samples[i][2] /\ Time(i) = samples[i][1]
    BY DEF Falls, FallsIn, Level, Time
  <2>2. PICK j \in FallsIn(samples), i \in 1 .. Len(samples) :
          /\ i < j /\ samples[j][1] - samples[i][1] = collector.interval /\ Starts(samples, i)
          /\ \A f \in FallsIn(samples) : i < f /\ f <= j => f = j
    BY DEF TurnsInvariant, TurnInv, OneTurn
  <2>3. {f \in Falls : i < f /\ f <= j} = {j}
    <3>1. j \in Int /\ j \in Falls /\ i < j
      BY <2>1, <2>2 DEF FallsIn
    <3>2. \A f \in Falls : i < f /\ f <= j => f = j
      BY <2>1, <2>2
    <3>3. j <= j
      BY <3>1
    <3> QED
      BY <3>1, <3>2, <3>3
  <2>4. /\ Level(i) = LO
        /\ \/ i \in Falls
           \/ \E g \in Falls : /\ g < i /\ Time(i) - Time(g) > Timeout
                               /\ \A f, h \in Falls : g < f /\ f < h => i < h
    BY <2>1, <2>2 DEF Starts
  <2> QED
    BY <2>1, <2>2, <2>3, <2>4
<1> QED
  BY <1>1, <1>2, SamplingTypes, TurnsStep, PTL DEF SamplingSpec
=============================================================================
