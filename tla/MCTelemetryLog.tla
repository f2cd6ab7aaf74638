--------------------------- MODULE MCTelemetryLog ---------------------------
(* TLC values for TelemetryLog: packets with a time and a wheel speed, and  *)
(* one shock column that the board of this repository never sends.  A day   *)
(* has eight seconds; the live rows pass midnight.                          *)
EXTENDS TelemetryLog

TimeAndWheel  == <<"T", "W">>
WheelAndShock == <<"W", "fr">>
WheelOnly     == <<"W">>
Fields        == {"T", "W", "RES", "SYNC", "SD_START", "SD_CLOSE", "SD_WRITE", "STATUS"}
Texts         == {<<>>, <<0, 0, 1>>, <<1, 0, 1>>, <<1, 1, 0>>, <<1, 1, 1>>, <<2, 0, 0>>}
=============================================================================
