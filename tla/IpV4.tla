-------------------------------- MODULE IpV4 --------------------------------
(***************************************************************************)
(* IpV4::Valid (core/ip.cpp): which addresses the home page accepts.  An   *)
(* address has five texts; a text is a sequence of digits, any other       *)
(* character being -1.  The value of a text is kept in a word of WordSize  *)
(* values (2^64 in the code) and wraps.                                    *)
(***************************************************************************)
EXTENDS Integers, Sequences

CONSTANT WordSize

ASSUME WordAssumption == WordSize \in Nat /\ WordSize > 65535

Texts == Seq(-1 .. 9)
Typable == [First : Texts, Second : Texts, Third : Texts, Fourth : Texts, Port : Texts]

IsNumber(text) == text # <<>> /\ \A i \in 1 .. Len(text) : text[i] \in 0 .. 9

\* validate_digit
Value(text) ==
  LET upTo[i \in 0 .. Len(text)] ==
        IF i = 0 THEN 0 ELSE (upTo[i - 1] * 10 + text[i]) % WordSize
  IN  upTo[Len(text)]

IsByte(text) == IsNumber(text) /\ Value(text) < 256
PortNumbers == 1 .. 65535
\* A port that is no number counts as SIZE_MAX.
IsPort(text) == IsNumber(text) /\ Value(text) \in PortNumbers

\* Slip: the first number that is no byte is let through.
Valid_OffByOne(ip) ==
  /\ \A part \in {"First", "Second", "Third", "Fourth"} :
       IsNumber(ip[part]) /\ Value(ip[part]) <= 256
  /\ IsPort(ip.Port)
Valid(ip) ==
  /\ \A part \in {"First", "Second", "Third", "Fourth"} : IsByte(ip[part])
  /\ IsPort(ip.Port)

----------------------------------------------------------------------------
(* What a text means: the number it denotes, however long it is             *)

Number(text) ==
  LET upTo[i \in 0 .. Len(text)] == IF i = 0 THEN 0 ELSE upTo[i - 1] * 10 + text[i]
  IN  upTo[Len(text)]

\* An address: four bytes and a port, in digits.
IsAddress(ip) ==
  /\ \A part \in DOMAIN ip : IsNumber(ip[part])
  /\ \A part \in DOMAIN ip \ {"Port"} : Number(ip[part]) \in 0 .. 255
  /\ Number(ip.Port) \in PortNumbers
=============================================================================
