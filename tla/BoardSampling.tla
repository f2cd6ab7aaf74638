---------------------------- MODULE BoardSampling ----------------------------
(***************************************************************************)
(* What the board measures and when: the loop task's turns                 *)
(* (BoardBackend::Run), the RPMCollector of one sensor, the board's clock, *)
(* which the host sets with "SYNC", and the time of day the host reads     *)
(* from a row (TelemetryData::WriteData, LocalTime).                       *)
(*                                                                         *)
(* The board knows only its timer, now; the host's clock shows the time of *)
(* day of HostStart + now.  A speed is kept as the interval it is computed *)
(* from, 60000000.0 / interval, and 0 stands for the speed 0.              *)
(***************************************************************************)
EXTENDS LocalTime, Sequences

CONSTANTS Timeout,      \* 2000000: after this a wheel counts as standing
          SendPeriod,   \* 50000: time between two rows
          TurnTimes,    \* how long a turn of the loop may take
          HostStart,    \* time of day when the board was switched on
          MaxTurns, MaxSyncs    \* bounds of the model

ASSUME SamplingAssumption ==
  /\ Timeout \in Nat \ {0} /\ SendPeriod \in Nat /\ HostStart \in Nat
  /\ TurnTimes \subseteq Nat \ {0} /\ MaxTurns \in Nat /\ MaxSyncs \in Nat

LO == 0
HI == 1

VARIABLES
  now,                          \* esp_timer_get_time()
  samples,                      \* history: when the pin was read, and what it was
  collector,                    \* RPMCollector
  clock,                        \* m_IsTimeSynced, m_BaseTimeMicros, m_LocalSyncMicros
  lastSend,
  command,                      \* a "SYNC" under way: its number, when it was sent
  delay,                        \* history: how long the last one was under way
  row,                          \* the last row sent
  syncs                         \* how many "SYNC" were sent

samplingVars == <<now, samples, collector, clock, lastSend, command, delay, row, syncs>>

Nothing == [sent |-> FALSE, micros |-> 0, at |-> 0]
NoRow   == [sent |-> FALSE, T |-> 0, at |-> 0, delay |-> 0]

SamplingInit ==
  /\ now = 0 /\ samples = <<>>
  /\ collector = [LastTime |-> 0, interval |-> 0, WasRPM |-> FALSE]
  /\ clock = [synced |-> FALSE, base |-> 0, local |-> 0]
  /\ lastSend = 0 /\ command = Nothing /\ delay = 0 /\ row = NoRow /\ syncs = 0

----------------------------------------------------------------------------
(* RPMCollector::GetRPM                                                     *)

\* Slip: a low level counts as often as it is read.
GetRPM_EveryLow(c, timestamp, level) ==
  CASE c.LastTime # 0 /\ timestamp - c.LastTime > Timeout ->
         [LastTime |-> 0, interval |-> 0, WasRPM |-> FALSE]
    [] level = LO ->
         [LastTime |-> timestamp,
          interval |-> IF c.LastTime # 0 /\ timestamp - c.LastTime > 1
                       THEN timestamp - c.LastTime ELSE c.interval,
          WasRPM   |-> TRUE]
    [] OTHER -> c

\* Slip: the time-out is looked at only while the pin is low.
GetRPM_TimeoutLow(c, timestamp, level) ==
  CASE c.LastTime # 0 /\ timestamp - c.LastTime > Timeout /\ level = LO ->
         [LastTime |-> 0, interval |-> 0, WasRPM |-> FALSE]
    [] level = LO /\ ~c.WasRPM ->
         [LastTime |-> timestamp,
          interval |-> IF c.LastTime # 0 /\ timestamp - c.LastTime > 1
                       THEN timestamp - c.LastTime ELSE c.interval,
          WasRPM   |-> TRUE]
    [] level = HI -> [c EXCEPT !.WasRPM = FALSE]
    [] OTHER -> c

\* The time-out forgets the last pulse, whatever the pin is; else the first
\* low level after a high one is a pulse, and two pulses make a speed.
GetRPM(c, timestamp, level) ==
  LET timedOut == c.LastTime # 0 /\ timestamp - c.LastTime > Timeout
  IN  IF timestamp = 0 THEN c
      ELSE CASE timedOut -> [LastTime |-> 0, interval |-> 0, WasRPM |-> FALSE]
             [] ~timedOut /\ level = LO /\ ~c.WasRPM ->
                  [LastTime |-> timestamp,
                   interval |-> IF c.LastTime # 0 /\ timestamp - c.LastTime > 1
                                THEN timestamp - c.LastTime ELSE c.interval,
                   WasRPM   |-> TRUE]
             [] ~timedOut /\ level = HI -> [c EXCEPT !.WasRPM = FALSE]
             [] OTHER -> c

----------------------------------------------------------------------------
(* The board's clock and rows                                               *)

\* Slip: the time since the SYNC is left out.
GetRealTime_Frozen(c, timer) == c.base
GetRealTime(c, timer) == IF c.synced THEN c.base + (timer - c.local) ELSE 0

\* "SYNC" in ReceiveData.
Synced(timer) == [synced |-> TRUE, base |-> command.micros, local |-> timer]

\* A turn of Run: the speed, a row when one is due, then the command.
Run(turn, level, arrived) ==
  LET timer == now + turn
  IN  /\ Len(samples) < MaxTurns
      /\ now' = timer
      /\ samples' = Append(samples, <<timer, level>>)
      /\ collector' = GetRPM(collector, timer, level)
      /\ IF timer - lastSend > SendPeriod /\ clock.synced
         THEN /\ row' = [sent |-> TRUE, T |-> GetRealTime(clock, timer), at |-> timer,
                         delay |-> delay]
              /\ lastSend' = timer
         ELSE UNCHANGED <<row, lastSend>>
      /\ IF arrived
         THEN /\ command.sent
              /\ clock' = Synced(timer)
              /\ delay' = timer - command.at
              /\ command' = Nothing
         ELSE UNCHANGED <<clock, delay, command>>
      /\ UNCHANGED syncs

\* "Sync Time": the host's time of day goes out with the command.
PressSyncTime ==
  /\ ~command.sent /\ syncs < MaxSyncs /\ syncs' = syncs + 1
  /\ command' = [sent |-> TRUE, micros |-> MicrosSinceMidnight(FromMicros(HostStart + now)),
                 at |-> now]
  /\ UNCHANGED <<now, samples, collector, clock, lastSend, delay, row>>

\* The board is switched off and on again; the model looks at one life of it.
SamplingEnds == Len(samples) = MaxTurns /\ UNCHANGED samplingVars

SamplingNext ==
  \/ \E turn \in TurnTimes, level \in {LO, HI}, arrived \in BOOLEAN : Run(turn, level, arrived)
  \/ PressSyncTime
  \/ SamplingEnds

SamplingSpec == SamplingInit /\ [][SamplingNext]_samplingVars

----------------------------------------------------------------------------
(* Properties                                                               *)

\* Type invariant: every variable keeps to the values its declaration allows.
SamplingTypeOK ==
  /\ now \in Nat /\ samples \in Seq(Nat \X {LO, HI}) /\ lastSend \in Nat
  /\ collector \in [LastTime : Nat, interval : Nat, WasRPM : BOOLEAN]
  /\ clock \in [synced : BOOLEAN, base : 0 .. MicrosPerDay - 1, local : Nat]
  /\ command \in [sent : BOOLEAN, micros : 0 .. MicrosPerDay - 1, at : Nat]
  /\ delay \in Nat /\ row \in [sent : BOOLEAN, T : Nat, at : Nat, delay : Nat]
  /\ syncs \in 0 .. MaxSyncs

Time(i)  == samples[i][1]
Level(i) == samples[i][2]
\* The readings at which a low level begins.
Falls == {i \in 1 .. Len(samples) : Level(i) = LO /\ (i = 1 \/ Level(i - 1) = HI)}

\* A speed is that of one turn, the interval between two pulses of the pin (what
\* Run makes of the wheel's, halving it, is left out): it is the time between two low
\* readings with one high level between them, so the second begins a low
\* level.  The first does as well, or a time-out has struck before it.
SpeedOfOneTurn ==
  collector.interval # 0 =>
    \E j \in Falls, i \in 1 .. Len(samples) :
      /\ i < j /\ Level(i) = LO
      /\ Time(j) - Time(i) = collector.interval
      /\ {f \in Falls : i < f /\ f <= j} = {j}
      /\ \/ i \in Falls
         \/ \E g \in Falls : /\ g < i /\ Time(i) - Time(g) > Timeout
                             /\ \A f, h \in Falls : g < f /\ f < h => i < h

\* No speed outlives its pulses: a low level began within the time-out.
SpeedIsFresh ==
  collector.interval # 0 =>
    \E j \in Falls : now - Time(j) <= Timeout

\* The host reads from a row the time of day at which the speed in it was
\* measured, late by what the last SYNC took to arrive, over midnight too.
RowTimeTrue ==
  row.sent =>
    MicrosSinceMidnight(FromMicros(row.T)) = (HostStart + row.at - row.delay) % MicrosPerDay
=============================================================================
