------------------------------ MODULE LocalTime ------------------------------
(***************************************************************************)
(* LocalTime (core/time.cpp): a time of day as five fields, made from a    *)
(* number of microseconds or from what the user types, and read back as    *)
(* microseconds since midnight.  The radices of the fields are constants;  *)
(* the code's are 1000, 1000, 60, 60 and 24.                               *)
(***************************************************************************)
EXTENDS Integers

CONSTANTS MicrosPerMilli, MillisPerSecond, SecondsPerMinute, MinutesPerHour, HoursPerDay

ASSUME RadixAssumption ==
  /\ MicrosPerMilli \in Nat \ {0} /\ MillisPerSecond \in Nat \ {0}
  /\ SecondsPerMinute \in Nat \ {0} /\ MinutesPerHour \in Nat \ {0}
  /\ HoursPerDay \in Nat \ {0}

MicrosPerSecond == MillisPerSecond * MicrosPerMilli
MicrosPerMinute == SecondsPerMinute * MicrosPerSecond
MicrosPerHour   == MinutesPerHour * MicrosPerMinute
MicrosPerDay    == HoursPerDay * MicrosPerHour

TimeOfDay ==
  [Hour : 0 .. HoursPerDay - 1, Minute : 0 .. MinutesPerHour - 1,
   Second : 0 .. SecondsPerMinute - 1, Millisecond : 0 .. MillisPerSecond - 1,
   Microsecond : 0 .. MicrosPerMilli - 1]

\* Slip: the hours run on after midnight.
FromMicros_NoWrap(micros) ==
  LET millis  == micros \div MicrosPerMilli
      seconds == millis \div MillisPerSecond
      minutes == seconds \div SecondsPerMinute
  IN  [Microsecond |-> micros % MicrosPerMilli,
       Millisecond |-> millis % MillisPerSecond,
       Second      |-> seconds % SecondsPerMinute,
       Minute      |-> minutes % MinutesPerHour,
       Hour        |-> minutes \div MinutesPerHour]

\* LocalTime(micros): what exceeds a day is dropped.
FromMicros(micros) ==
  LET millis  == micros \div MicrosPerMilli
      seconds == millis \div MillisPerSecond
      minutes == seconds \div SecondsPerMinute
  IN  [Microsecond |-> micros % MicrosPerMilli,
       Millisecond |-> millis % MillisPerSecond,
       Second      |-> seconds % SecondsPerMinute,
       Minute      |-> minutes % MinutesPerHour,
       Hour        |-> (minutes \div MinutesPerHour) % HoursPerDay]

MicrosSinceMidnight(t) ==
  t.Hour * MicrosPerHour + t.Minute * MicrosPerMinute + t.Second * MicrosPerSecond
  + t.Millisecond * MicrosPerMilli + t.Microsecond

\* "HH:MM:SS": three numbers within their ranges and nothing after them; a
\* text is given by its numbers, any other text by the empty sequence.
Readable(text) ==
  /\ text # <<>>
  /\ text[1] \in 0 .. HoursPerDay - 1 /\ text[2] \in 0 .. MinutesPerHour - 1
  /\ text[3] \in 0 .. SecondsPerMinute - 1

FromString(text) ==
  [Hour |-> text[1], Minute |-> text[2], Second |-> text[3],
   Millisecond |-> 0, Microsecond |-> 0]
=============================================================================
