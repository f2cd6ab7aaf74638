-------------------------- MODULE LocalTime_proofs --------------------------
(***************************************************************************)
(* Proofs about LocalTime, for all radices.                                *)
(***************************************************************************)
EXTENDS LocalTime, TLAPS

\* What \div and % are, and that they are determined by it.
LEMMA DivMod ==
  ASSUME NEW a \in Nat, NEW b \in Nat \ {0}
  PROVE  /\ a \div b \in Nat /\ a % b \in 0 .. b - 1
         /\ a = b * (a \div b) + (a % b)
OBVIOUS

LEMMA MulGap ==
  ASSUME NEW b \in Nat \ {0}, NEW p \in Int, NEW q \in Int, p < q
  PROVE  b * q >= b * p + b
<1>1. q - p - 1 \in Nat
  OBVIOUS
<1>2. b * (q - p - 1) >= 0
  BY <1>1
<1>3. b * (q - p - 1) = b * q - b * p - b
  OBVIOUS
<1> QED
  BY <1>2, <1>3

LEMMA Unique ==
  ASSUME NEW b \in Nat \ {0}, NEW q \in Nat, NEW r \in 0 .. b - 1
  PROVE  (q * b + r) \div b = q /\ (q * b + r) % b = r
<1> DEFINE a == q * b + r
<1>1. a \in Nat
  OBVIOUS
<1> HIDE DEF a
<1>2. a \div b \in Nat /\ a % b \in 0 .. b - 1 /\ a = b * (a \div b) + (a % b)
  BY <1>1, DivMod
<1>3. a = b * q + r
  BY DEF a
<1>4. ~(a \div b < q)
  BY <1>2, <1>3, MulGap
<1>5. ~(q < a \div b)
  BY <1>2, <1>3, MulGap
<1>6. a \div b = q
  BY <1>1, <1>2, <1>4, <1>5
<1> QED
  BY <1>1, <1>2, <1>3, <1>6 DEF a

\* Microseconds since midnight, by Horner's rule.
LEMMA Nested ==
  ASSUME NEW t \in TimeOfDay
  PROVE  MicrosSinceMidnight(t) =
           (((t.Hour * MinutesPerHour + t.Minute) * SecondsPerMinute + t.Second)
              * MillisPerSecond + t.Millisecond) * MicrosPerMilli + t.Microsecond
<1>1. /\ t.Hour \in Int /\ t.Minute \in Int /\ t.Second \in Int
      /\ t.Millisecond \in Int /\ t.Microsecond \in Int
  BY RadixAssumption DEF TimeOfDay
<1>2. /\ MinutesPerHour \in Int /\ SecondsPerMinute \in Int
      /\ MillisPerSecond \in Int /\ MicrosPerMilli \in Int
  BY RadixAssumption
<1> QED
  BY <1>1, <1>2 DEF MicrosSinceMidnight, MicrosPerHour, MicrosPerMinute, MicrosPerSecond

\* A time of day, written as microseconds since midnight and read back, is
\* the same time of day (tests/core/test_time.cpp checks examples).
THEOREM RoundTrip ==
  \A t \in TimeOfDay : FromMicros(MicrosSinceMidnight(t)) = t
<1> TAKE t \in TimeOfDay
<1> DEFINE hours   == t.Hour
           minutes == hours * MinutesPerHour + t.Minute
           seconds == minutes * SecondsPerMinute + t.Second
           millis  == seconds * MillisPerSecond + t.Millisecond
           micros  == millis * MicrosPerMilli + t.Microsecond
<1>1. /\ hours \in 0 .. HoursPerDay - 1 /\ t.Minute \in 0 .. MinutesPerHour - 1
      /\ t.Second \in 0 .. SecondsPerMinute - 1
      /\ t.Millisecond \in 0 .. MillisPerSecond - 1
      /\ t.Microsecond \in 0 .. MicrosPerMilli - 1
  BY DEF TimeOfDay
<1>2. minutes \in Nat
  BY <1>1, RadixAssumption
<1>3. seconds \in Nat
  <2> HIDE DEF minutes
  <2> QED BY <1>1, <1>2, RadixAssumption
<1>4. millis \in Nat
  <2> HIDE DEF seconds
  <2> QED BY <1>1, <1>3, RadixAssumption
<1>5. minutes \div MinutesPerHour = hours /\ minutes % MinutesPerHour = t.Minute
  <2>1. hours \in Nat
    BY <1>1, RadixAssumption
  <2> HIDE DEF hours
  <2> QED BY <1>1, <2>1, RadixAssumption, Unique
<1>6. seconds \div SecondsPerMinute = minutes /\ seconds % SecondsPerMinute = t.Second
  <2> HIDE DEF minutes
  <2> QED BY <1>1, <1>2, RadixAssumption, Unique
<1>7. millis \div MillisPerSecond = seconds /\ millis % MillisPerSecond = t.Millisecond
  <2> HIDE DEF seconds
  <2> QED BY <1>1, <1>3, RadixAssumption, Unique
<1>8. micros \div MicrosPerMilli = millis /\ micros % MicrosPerMilli = t.Microsecond
  <2> HIDE DEF millis
  <2> QED BY <1>1, <1>4, RadixAssumption, Unique
<1>9. hours % HoursPerDay = hours
  BY <1>1, RadixAssumption
<1>10. MicrosSinceMidnight(t) = micros
  BY Nested
<1> HIDE DEF hours, minutes, seconds, millis, micros
<1>11. FromMicros(micros) =
         [Microsecond |-> t.Microsecond, Millisecond |-> t.Millisecond,
          Second |-> t.Second, Minute |-> t.Minute, Hour |-> hours]
  BY <1>5, <1>6, <1>7, <1>8, <1>9 DEF FromMicros
<1> QED
  BY <1>10, <1>11 DEF TimeOfDay, hours

\* Whatever the board has counted, the fields of the time made of it are in
\* their ranges: hours start again at midnight.
THEOREM FieldsInRange ==
  \A micros \in Nat : FromMicros(micros) \in TimeOfDay
<1> TAKE micros \in Nat
<1> DEFINE millis  == micros \div MicrosPerMilli
           seconds == millis \div MillisPerSecond
           minutes == seconds \div SecondsPerMinute
           hours   == minutes \div MinutesPerHour
<1>1. millis \in Nat /\ micros % MicrosPerMilli \in 0 .. MicrosPerMilli - 1
  BY RadixAssumption, DivMod
<1>2. seconds \in Nat /\ millis % MillisPerSecond \in 0 .. MillisPerSecond - 1
  <2> HIDE DEF millis
  <2> QED BY <1>1, RadixAssumption, DivMod
<1>3. minutes \in Nat /\ seconds % SecondsPerMinute \in 0 .. SecondsPerMinute - 1
  <2> HIDE DEF seconds
  <2> QED BY <1>2, RadixAssumption, DivMod
<1>4. hours \in Nat /\ minutes % MinutesPerHour \in 0 .. MinutesPerHour - 1
  <2> HIDE DEF minutes
  <2> QED BY <1>3, RadixAssumption, DivMod
<1>5. hours % HoursPerDay \in 0 .. HoursPerDay - 1
  <2> HIDE DEF hours
  <2> QED BY <1>4, RadixAssumption, DivMod
<1> QED
  BY <1>1, <1>2, <1>3, <1>4, <1>5 DEF FromMicros, TimeOfDay

\* A digit below its radix keeps a number below the next.
LEMMA Bound ==
  ASSUME NEW b \in Nat \ {0}, NEW n \in Nat, NEW x \in 0 .. n - 1, NEW r \in 0 .. b - 1
  PROVE  x * b + r \in 0 .. n * b - 1
<1>1. b * n >= b * x + b
  BY MulGap
<1>2. b * x >= 0
  OBVIOUS
<1>3. b * n = n * b /\ b * x = x * b /\ n * b \in Int /\ x * b \in Int
  OBVIOUS
<1> QED
  BY <1>1, <1>2, <1>3

LEMMA BelowADay ==
  ASSUME NEW t \in TimeOfDay
  PROVE  MicrosSinceMidnight(t) \in 0 .. MicrosPerDay - 1
<1> DEFINE M == HoursPerDay * MinutesPerHour
           S == M * SecondsPerMinute
           L == S * MillisPerSecond
           minutes == t.Hour * MinutesPerHour + t.Minute
           seconds == minutes * SecondsPerMinute + t.Second
           millis  == seconds * MillisPerSecond + t.Millisecond
<1>1. /\ t.Hour \in 0 .. HoursPerDay - 1 /\ t.Minute \in 0 .. MinutesPerHour - 1
      /\ t.Second \in 0 .. SecondsPerMinute - 1
      /\ t.Millisecond \in 0 .. MillisPerSecond - 1
      /\ t.Microsecond \in 0 .. MicrosPerMilli - 1
  BY DEF TimeOfDay
<1>2. M \in Nat /\ minutes \in 0 .. M - 1
  BY <1>1, RadixAssumption, Bound
<1>3. S \in Nat /\ seconds \in 0 .. S - 1
  <2> HIDE DEF M, minutes
  <2> QED BY <1>1, <1>2, RadixAssumption, Bound
<1>4. L \in Nat /\ millis \in 0 .. L - 1
  <2> HIDE DEF S, seconds
  <2> QED BY <1>1, <1>3, RadixAssumption, Bound
<1>5. millis * MicrosPerMilli + t.Microsecond \in 0 .. L * MicrosPerMilli - 1
  <2> HIDE DEF L, millis
  <2> QED BY <1>1, <1>4, RadixAssumption, Bound
<1>6. L * MicrosPerMilli = MicrosPerDay
  BY RadixAssumption DEF MicrosPerDay, MicrosPerHour, MicrosPerMinute, MicrosPerSecond
<1> QED
  BY <1>5, <1>6, Nested

\* A count of microseconds, by Horner's rule, with its days.
LEMMA Horner ==
  ASSUME NEW d \in Int, NEW h \in Int, NEW m \in Int, NEW s \in Int,
         NEW l \in Int, NEW u \in Int
  PROVE  ((((d * HoursPerDay + h) * MinutesPerHour + m) * SecondsPerMinute + s)
            * MillisPerSecond + l) * MicrosPerMilli + u
         = d * MicrosPerDay + (h * MicrosPerHour + m * MicrosPerMinute
                                + s * MicrosPerSecond + l * MicrosPerMilli + u)
<1>1. /\ HoursPerDay \in Int /\ MinutesPerHour \in Int /\ SecondsPerMinute \in Int
      /\ MillisPerSecond \in Int /\ MicrosPerMilli \in Int
  BY RadixAssumption
<1> QED
  BY <1>1 DEF MicrosPerDay, MicrosPerHour, MicrosPerMinute, MicrosPerSecond

\* The board's clock runs on after midnight; the host reads from it the time
\* since the last midnight, nothing more being lost.
THEOREM DaysDropped ==
  \A micros \in Nat : MicrosSinceMidnight(FromMicros(micros)) = micros % MicrosPerDay
<1> TAKE micros \in Nat
<1> DEFINE t       == FromMicros(micros)
           millis  == micros \div MicrosPerMilli
           seconds == millis \div MillisPerSecond
           minutes == seconds \div SecondsPerMinute
           hours   == minutes \div MinutesPerHour
           days    == hours \div HoursPerDay
<1>1. millis \in Nat /\ micros = millis * MicrosPerMilli + t.Microsecond
  BY RadixAssumption, DivMod DEF FromMicros
<1>2. seconds \in Nat /\ millis = seconds * MillisPerSecond + t.Millisecond
  BY <1>1, RadixAssumption, DivMod DEF FromMicros
<1>3. minutes \in Nat /\ seconds = minutes * SecondsPerMinute + t.Second
  BY <1>2, RadixAssumption, DivMod DEF FromMicros
<1>4. hours \in Nat /\ minutes = hours * MinutesPerHour + t.Minute
  BY <1>3, RadixAssumption, DivMod DEF FromMicros
<1>5. days \in Nat /\ hours = days * HoursPerDay + t.Hour
  BY <1>4, RadixAssumption, DivMod DEF FromMicros
<1>6. t \in TimeOfDay
  BY FieldsInRange
<1> HIDE DEF t, millis, seconds, minutes, hours, days
<1>7. /\ t.Hour \in Int /\ t.Minute \in Int /\ t.Second \in Int
      /\ t.Millisecond \in Int /\ t.Microsecond \in Int
  BY <1>6, RadixAssumption DEF TimeOfDay
<1>8. micros = days * MicrosPerDay + MicrosSinceMidnight(t)
  <2>1. micros = ((((days * HoursPerDay + t.Hour) * MinutesPerHour + t.Minute)
                      * SecondsPerMinute + t.Second) * MillisPerSecond
                    + t.Millisecond) * MicrosPerMilli + t.Microsecond
    <3>1. minutes = (days * HoursPerDay + t.Hour) * MinutesPerHour + t.Minute
      BY <1>4, <1>5, Zenon
    <3>2. seconds = minutes * SecondsPerMinute + t.Second
      BY <1>3, Zenon
    <3>3. millis = seconds * MillisPerSecond + t.Millisecond
      BY <1>2, Zenon
    <3>4. micros = millis * MicrosPerMilli + t.Microsecond
      BY <1>1, Zenon
    <3> QED
      BY <3>1, <3>2, <3>3, <3>4, Zenon
  <2>2. ((((days * HoursPerDay + t.Hour) * MinutesPerHour + t.Minute)
            * SecondsPerMinute + t.Second) * MillisPerSecond
          + t.Millisecond) * MicrosPerMilli + t.Microsecond
        = days * MicrosPerDay + MicrosSinceMidnight(t)
    <3>1. days \in Int
      BY <1>5
    <3>2. ((((days * HoursPerDay + t.Hour) * MinutesPerHour + t.Minute)
              * SecondsPerMinute + t.Second) * MillisPerSecond
            + t.Millisecond) * MicrosPerMilli + t.Microsecond
          = days * MicrosPerDay
            + (t.Hour * MicrosPerHour + t.Minute * MicrosPerMinute
               + t.Second * MicrosPerSecond + t.Millisecond * MicrosPerMilli
               + t.Microsecond)
      <4> DEFINE h == t.Hour
                 m == t.Minute
                 s == t.Second
                 l == t.Millisecond
                 u == t.Microsecond
      <4>1. h \in Int /\ m \in Int /\ s \in Int /\ l \in Int /\ u \in Int
        BY <1>7
      <4> HIDE DEF h, m, s, l, u
      <4>2. ((((days * HoursPerDay + h) * MinutesPerHour + m) * SecondsPerMinute + s)
               * MillisPerSecond + l) * MicrosPerMilli + u
            = days * MicrosPerDay + (h * MicrosPerHour + m * MicrosPerMinute
                                     + s * MicrosPerSecond + l * MicrosPerMilli + u)
        BY <3>1, <4>1, Horner
      <4> QED
        BY <4>2, Zenon DEF h, m, s, l, u
    <3> QED
      BY <3>2, Zenon DEF MicrosSinceMidnight
  <2> QED
    BY <2>1, <2>2, Zenon
<1>9. MicrosPerDay \in Nat \ {0} /\ MicrosSinceMidnight(t) \in 0 .. MicrosPerDay - 1
  <2>1. MicrosPerDay \in Int
    BY RadixAssumption
       DEF MicrosPerDay, MicrosPerHour, MicrosPerMinute, MicrosPerSecond
  <2> QED BY <1>6, <2>1, BelowADay
<1> QED
  BY <1>5, <1>8, <1>9, Unique DEF t
=============================================================================
