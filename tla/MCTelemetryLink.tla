-------------------------- MODULE MCTelemetryLink --------------------------
(* TLC values for TelemetryLink: addresses as the home page hands them to   *)
(* SetIp, accepted or not by IpV4::Valid.                                   *)
EXTENDS TelemetryLink

Default == [First |-> <<1, 9, 2>>, Second |-> <<1, 6, 8>>, Third |-> <<4>>,
            Fourth |-> <<1>>, Port |-> <<8, 0>>]

Typed ==
  {Default,
   [Default EXCEPT !.Fourth = <<2, 5, 5>>, !.Port = <<6, 5, 5, 3, 5>>],
   [Default EXCEPT !.Fourth = <<2, 5, 6>>],
   [Default EXCEPT !.Third = <<>>],
   [Default EXCEPT !.Third = <<1, -1>>],
   [Default EXCEPT !.First = <<1, 3, 4, 2, 1, 7, 7, 2, 9>>],   \* 1 in a word of 2^27
   [Default EXCEPT !.Port = <<0>>],
   [Default EXCEPT !.Port = <<6, 5, 5, 3, 6>>]}
=============================================================================
