---------------------------- MODULE PacketGrammar ----------------------------
(***************************************************************************)
(* TelemetryBackend::ValidatePacket: which lines the host accepts.  A line *)
(* is its sequence of words; a number is "0" or "1", that is any other.    *)
(***************************************************************************)
EXTENDS Integers, Sequences

CONSTANT KnownFields    \* m_PacketFields: the words that may be keys

ASSUME GrammarAssumption == "glued" \notin KnownFields

Keys(words) == {i \in 1 .. Len(words) : i % 2 = 1}

GoodPair(words, i) ==
  /\ i < Len(words) /\ words[i] \in KnownFields
  /\ words[i] = "T" => words[i + 1] = "1"

\* Slip: reading stops at the first bad pair and keeps the good ones.
ValidatePacket_KeepGood(words) ==
  \E i \in Keys(words) : GoodPair(words, i) /\ words[i] \in {"T", "RES"}

\* Every key has a value and is known, a time is a number that is not zero,
\* and there is a time or a result; a line with both passes for the first.
ValidatePacket(words) ==
  /\ \A i \in Keys(words) : GoodPair(words, i)
  /\ \E i \in Keys(words) : words[i] \in {"T", "RES"}

\* Two pieces without a newline between them: the last word of the first and
\* the first word of the second become one, which is no field's name.
Glued(words, more) == SubSeq(words, 1, Len(words) - 1) \o <<"glued">> \o Tail(more)

\* The words of pieces[1] .. pieces[n], n > 0, run together.
RunTogether(pieces) ==
  LET upTo[i \in 1 .. Len(pieces)] ==
        IF i = 1 THEN pieces[1] ELSE Glued(upTo[i - 1], pieces[i])
  IN  upTo[Len(pieces)]
=============================================================================
