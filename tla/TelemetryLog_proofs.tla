------------------------- MODULE TelemetryLog_proofs -------------------------
(***************************************************************************)
(* Proofs about TelemetryLog and PacketGrammar, for any packet of the      *)
(* board, any columns and files, and any radices of the time of day.       *)
(***************************************************************************)
EXTENDS TelemetryLog, LocalTime_proofs, NatFacts, SequenceTheorems

N == Len(PacketFields)
M == Len(ColumnOrder)

LEMMA FieldFacts ==
  /\ PacketFields \in Seq(Columns \cup {"T"}) /\ N \in Nat \ {0}
  /\ PacketFields[1] = "T" /\ "T" \notin Columns
  /\ \A i \in 2 .. N : PacketFields[i] \in Columns
  /\ \A i, j \in 1 .. N : PacketFields[i] = PacketFields[j] => i = j
  /\ FileLen \in Nat /\ MaxPackets \in Nat /\ MaxResponses \in Nat
BY LogAssumption DEF N

\* The vectors in the order of the clear: the time after every column.
LEMMA OrderFacts ==
  /\ M \in Nat /\ Len(ClearOrder) = M + 3
  /\ ClearOrder[1] = "raw" /\ ClearOrder[M + 2] = "time" /\ ClearOrder[M + 3] = "micros"
  /\ \A k \in 2 .. M + 1 : ClearOrder[k] \in Columns
  /\ "raw" \notin Columns /\ "time" \notin Columns /\ "micros" \notin Columns
<1> DEFINE V == Columns \cup {"raw", "time", "micros"}
           a == <<"raw">>
           b == <<"time", "micros">>
<1>1. /\ ColumnOrder \in Seq(V) /\ M \in Nat /\ \A k \in 1 .. M : ColumnOrder[k] \in Columns
      /\ a \in Seq(V) /\ Len(a) = 1 /\ a[1] = "raw"
      /\ b \in Seq(V) /\ Len(b) = 2 /\ b[1] = "time" /\ b[2] = "micros"
  <2>1. ColumnOrder \in Seq(Columns) /\ M \in Nat
    BY LogAssumption DEF M
  <2>2. \A k \in 1 .. M : ColumnOrder[k] \in Columns
    BY DEF Columns, M
  <2> QED
    BY <2>1, <2>2
<1> DEFINE ac == a \o ColumnOrder
<1>2. /\ ac \in Seq(V) /\ Len(ac) = M + 1 /\ ac[1] = "raw"
      /\ \A k \in 2 .. M + 1 : ac[k] \in Columns
  <2> HIDE DEF V, a
  <2>1. /\ ac \in Seq(V) /\ Len(ac) = 1 + M
        /\ \A k \in 1 .. 1 + M : ac[k] = IF k <= 1 THEN a[k] ELSE ColumnOrder[k - 1]
    <3>1. /\ ac \in Seq(V) /\ Len(ac) = Len(a) + Len(ColumnOrder)
          /\ \A k \in 1 .. Len(a) + Len(ColumnOrder) :
               ac[k] = IF k <= Len(a) THEN a[k] ELSE ColumnOrder[k - Len(a)]
      BY <1>1, ConcatProperties, Zenon
    <3> HIDE DEF ac
    <3> QED
      BY <1>1, <3>1 DEF M
  <2> HIDE DEF ac
  <2>2. \A k \in 2 .. M + 1 : k - 1 \in 1 .. M
    BY <1>1
  <2> QED
    BY <1>1, <2>1, <2>2
<1>3. ClearOrder = ac \o b
  BY DEF ClearOrder
<1> HIDE DEF V, a, b, ac
<1>4. /\ Len(ac \o b) = (M + 1) + 2
      /\ \A k \in 1 .. (M + 1) + 2 : (ac \o b)[k] = IF k <= M + 1 THEN ac[k] ELSE b[k - (M + 1)]
  <2>1. /\ Len(ac \o b) = Len(ac) + Len(b)
        /\ \A k \in 1 .. Len(ac) + Len(b) :
             (ac \o b)[k] = IF k <= Len(ac) THEN ac[k] ELSE b[k - Len(ac)]
    BY <1>1, <1>2, ConcatProperties, Zenon
  <2> QED
    BY <1>1, <1>2, <2>1
<1>5. "raw" \notin Columns /\ "time" \notin Columns /\ "micros" \notin Columns
  BY LogAssumption
<1>6. /\ 1 \in 1 .. (M + 1) + 2 /\ M + 2 \in 1 .. (M + 1) + 2 /\ M + 3 \in 1 .. (M + 1) + 2
      /\ (M + 2) - (M + 1) = 1 /\ (M + 3) - (M + 1) = 2
      /\ 1 <= M + 1 /\ ~(M + 2 <= M + 1) /\ ~(M + 3 <= M + 1) /\ (M + 1) + 2 = M + 3
  BY <1>1
<1>7. \A k \in 2 .. M + 1 : k \in 1 .. (M + 1) + 2 /\ k <= M + 1
  BY <1>1
<1> QED
  BY <1>1, <1>2, <1>3, <1>4, <1>5, <1>6, <1>7

LEMMA PieceFacts ==
  /\ Newline \notin Row /\ Response \notin Row /\ Newline # Response
  /\ Row \subseteq Piece /\ Newline \in Piece /\ Response \in Piece
  /\ Piece \ {Newline} = Row \cup {Response}
  /\ \A n \in Nat : Live(n) \in Row
BY DEF Newline, Response, Row, Piece, Live

----------------------------------------------------------------------------
(* Parts of sequences                                                       *)

LEMMA Part ==
  ASSUME NEW S, NEW s \in Seq(S), NEW m \in Int, NEW n \in Int,
         1 <= m, m - 1 <= n, n <= Len(s)
  PROVE  /\ SubSeq(s, m, n) \in Seq(S) /\ Len(SubSeq(s, m, n)) = n - m + 1
         /\ \A i \in 1 .. n - m + 1 : SubSeq(s, m, n)[i] = s[m + i - 1]
<1>1. SubSeq(s, m, n) \in Seq(S)
  OBVIOUS
<1>2. Len(SubSeq(s, m, n)) = n - m + 1
  OBVIOUS
<1>3. \A i \in 1 .. n - m + 1 : SubSeq(s, m, n)[i] = s[m + i - 1]
  OBVIOUS
<1> QED
  BY <1>1, <1>2, <1>3

----------------------------------------------------------------------------
(* Lines that were run together                                             *)

\* A word that no packet may have stands as a key, or the last key has no value.
Spoilt(words) ==
  \/ Len(words) % 2 = 1
  \/ \E i \in 1 .. Len(words) - 1 : i % 2 = 1 /\ words[i] = "glued"

LEMMA SpoiltIsRefused ==
  ASSUME NEW words, Len(words) \in Nat, Spoilt(words)
  PROVE  ~ValidatePacket(words)
<1>1. CASE Len(words) % 2 = 1
  <2>1. Len(words) \in Keys(words) /\ ~(Len(words) < Len(words))
    BY <1>1 DEF Keys
  <2> QED
    BY <2>1 DEF ValidatePacket, GoodPair
<1>2. ASSUME NEW i \in 1 .. Len(words) - 1, i % 2 = 1, words[i] = "glued"
      PROVE  ~ValidatePacket(words)
  <2>1. i \in Keys(words) /\ words[i] \notin KnownFields
    BY <1>2, GrammarAssumption DEF Keys
  <2> QED
    BY <2>1 DEF ValidatePacket, GoodPair
<1> QED
  BY <1>1, <1>2 DEF Spoilt

\* A line of the board has words in pairs.
IsLine(words, W) == words \in Seq(W) /\ Len(words) > 0 /\ Len(words) % 2 = 0

LEMMA GluedFacts ==
  ASSUME NEW W, "glued" \in W, NEW words \in Seq(W), Len(words) > 0,
         NEW more, IsLine(more, W)
  PROVE  /\ Glued(words, more) \in Seq(W)
         /\ Len(Glued(words, more)) = Len(words) + Len(more) - 1
         /\ Glued(words, more)[Len(words)] = "glued"
         /\ \A i \in 1 .. Len(words) - 1 : Glued(words, more)[i] = words[i]
<1> DEFINE head == SubSeq(words, 1, Len(words) - 1)
           g    == <<"glued">>
<1>0. Len(words) \in Nat /\ Len(more) \in Nat /\ \A i \in 1 .. Len(words) : words[i] \in W
  BY ElementOfSeq DEF IsLine
<1>1. /\ head \in Seq(W) /\ Len(head) = Len(words) - 1
      /\ \A i \in 1 .. Len(words) - 1 : head[i] = words[i]
  <2>1. /\ 1 \in Int /\ Len(words) - 1 \in Int
        /\ 1 <= 1 /\ 1 - 1 <= Len(words) - 1 /\ Len(words) - 1 <= Len(words)
    BY <1>0
  <2>2. /\ head \in Seq(W) /\ Len(head) = (Len(words) - 1) - 1 + 1
        /\ \A i \in 1 .. (Len(words) - 1) - 1 + 1 : head[i] = words[1 + i - 1]
    BY <2>1, Part, Zenon
  <2> HIDE DEF head
  <2> QED
    BY <1>0, <2>2
<1>2. g \in Seq(W) /\ Len(g) = 1 /\ g[1] = "glued"
  OBVIOUS
<1> DEFINE t == Tail(more)
<1>3. t \in Seq(W) /\ Len(t) = Len(more) - 1
  BY HeadTailProperties DEF IsLine
<1>4. Glued(words, more) = (head \o g) \o t
  BY DEF Glued
<1> HIDE DEF head, g, t
<1> DEFINE hg == head \o g
<1>5. /\ hg \in Seq(W) /\ Len(hg) = Len(words) /\ hg[Len(words)] = "glued"
      /\ \A i \in 1 .. Len(words) - 1 : hg[i] = words[i]
  <2>1. /\ hg \in Seq(W) /\ Len(hg) = Len(head) + Len(g)
        /\ \A i \in 1 .. Len(head) + Len(g) :
             hg[i] = IF i <= Len(head) THEN head[i] ELSE g[i - Len(head)]
    BY <1>1, <1>2, ConcatProperties
  <2>2. hg[Len(words)] = g[Len(words) - Len(head)] /\ Len(words) - Len(head) = 1
    BY <1>0, <1>1, <1>2, <2>1
  <2> HIDE DEF hg
  <2> QED
    BY <1>0, <1>1, <1>2, <2>1, <2>2
<1> HIDE DEF hg
<1>6. /\ hg \o t \in Seq(W) /\ Len(hg \o t) = Len(hg) + Len(t)
      /\ \A i \in 1 .. Len(hg) + Len(t) :
           (hg \o t)[i] = IF i <= Len(hg) THEN hg[i] ELSE t[i - Len(hg)]
  BY <1>3, <1>5, ConcatProperties
<1>7. Glued(words, more) = hg \o t
  BY <1>4 DEF hg
<1>8. \A i \in 1 .. Len(words) : Glued(words, more)[i] = hg[i]
  BY <1>0, <1>3, <1>5, <1>6, <1>7
<1> QED
  BY <1>0, <1>3, <1>5, <1>6, <1>7, <1>8

\* What GluedFacts is for: every glueing spoils the line.
LEMMA GluedSpoils ==
  ASSUME NEW W, "glued" \in W, NEW words \in Seq(W), Len(words) > 0,
         IsLine(words, W) \/ Spoilt(words), NEW more, IsLine(more, W)
  PROVE  /\ Glued(words, more) \in Seq(W) /\ Len(Glued(words, more)) > 0
         /\ Spoilt(Glued(words, more))
<1> DEFINE w == Glued(words, more)
<1>1. /\ w \in Seq(W) /\ Len(w) = Len(words) + Len(more) - 1
      /\ w[Len(words)] = "glued"
      /\ \A i \in 1 .. Len(words) - 1 : w[i] = words[i]
  BY GluedFacts
<1>2. Len(words) \in Nat /\ Len(more) \in Nat /\ Len(more) > 0 /\ Len(more) % 2 = 0
  BY DEF IsLine
<1> HIDE DEF w
<1>3. Len(more) >= 2
  BY <1>2
<1>4. CASE Len(words) % 2 = 1
  <2>1. Len(words) \in 1 .. Len(w) - 1
    BY <1>1, <1>2, <1>3
  <2> QED
    BY <1>1, <1>2, <1>4, <2>1 DEF Spoilt, w
<1>5. CASE Len(words) % 2 = 0
  <2>1. PICK a, b \in Nat : Len(words) = 2 * a /\ Len(more) = 2 * b /\ b > 0
    <3>1. /\ Len(words) = 2 * (Len(words) \div 2) /\ Len(words) \div 2 \in Nat
          /\ Len(more) = 2 * (Len(more) \div 2) /\ Len(more) \div 2 \in Nat
      BY <1>2, <1>5
    <3> QED
      BY <1>2, <3>1
  <2>2. Len(w) = (a + b - 1) * 2 + 1 /\ a + b - 1 \in Nat
    BY <1>1, <2>1
  <2>3. Len(w) % 2 = 1
    BY <2>2, Unique
  <2> QED
    BY <1>1, <1>2, <1>3, <2>3 DEF Spoilt, w
<1> QED
  BY <1>2, <1>4, <1>5

\* Two pieces or more make no line, whatever they are.
LEMMA TogetherSpoils ==
  ASSUME NEW W, "glued" \in W, NEW n \in Nat, n >= 2,
         NEW pieces, Len(pieces) = n, \A i \in 1 .. n : IsLine(pieces[i], W)
  PROVE  Len(RunTogether(pieces)) \in Nat /\ Spoilt(RunTogether(pieces))
<1> DEFINE Some == {w \in Seq(W) : Len(w) > 0}
<1>1. ASSUME NEW w \in Some, NEW i \in 1 .. n PROVE Glued(w, pieces[i]) \in Some
  <2> DEFINE v == Glued(w, pieces[i])
  <2>1. v \in Seq(W) /\ Len(v) = Len(w) + Len(pieces[i]) - 1
    BY <1>1, GluedFacts
  <2>2. Len(w) \in Nat /\ Len(w) > 0 /\ Len(pieces[i]) \in Nat /\ Len(pieces[i]) > 0
    BY <1>1 DEF IsLine
  <2> HIDE DEF v
  <2>3. Len(v) > 0
    BY <2>1, <2>2
  <2>4. v \in Some
    BY <2>1, <2>3
  <2> QED
    BY <2>4 DEF v
<1>2. pieces[1] \in Some
  BY DEF IsLine
<1>3. PICK f : /\ f \in [Nat -> Some] /\ f[0] = pieces[1]
               /\ \A k \in Nat : k + 2 <= n => f[k + 1] = Glued(f[k], pieces[k + 2])
  <2> HIDE DEF Some
  <2> DEFINE g == [k \in Nat |-> [h \in Some |->
                     IF k + 1 \in 1 .. n THEN Glued(h, pieces[k + 1]) ELSE h]]
  <2>1. g \in [Nat -> [Some -> Some]]
    BY <1>1
  <2>2. \A k \in Nat, h \in Some : k + 2 <= n => g[k + 1][h] = Glued(h, pieces[k + 2])
    <3> TAKE k \in Nat, h \in Some
    <3>1. (k + 1) + 1 = k + 2 /\ k + 1 \in Nat
      OBVIOUS
    <3>2. g[k + 1][h] = IF k + 2 \in 1 .. n THEN Glued(h, pieces[k + 2]) ELSE h
      BY <3>1
    <3> QED
      BY <3>2
  <2> HIDE DEF g
  <2>3. PICK f : Iterates(f, Some, pieces[1], g)
    BY <1>2, <2>1, Iteration
  <2>4. f \in [Nat -> Some] /\ f[0] = pieces[1]
    BY <2>3 DEF Iterates
  <2>5. ASSUME NEW k \in Nat, k + 2 <= n PROVE f[k + 1] = Glued(f[k], pieces[k + 2])
    <3>1. f[k + 1] = g[k + 1][f[k]] /\ f[k] \in Some
      BY <2>3 DEF Iterates
    <3> QED
      BY <2>2, <2>5, <3>1
  <2> QED
    BY <2>4, <2>5
<1> DEFINE Is(u) == u = [i \in 1 .. n |-> IF i = 1 THEN pieces[1] ELSE Glued(u[i - 1], pieces[i])]
           upTo == CHOOSE u : Is(u)
<1>4. Is([i \in 1 .. n |-> f[i - 1]])
  <2> DEFINE u == [i \in 1 .. n |-> f[i - 1]]
  <2>1. ASSUME NEW i \in 1 .. n, i # 1 PROVE u[i] = Glued(u[i - 1], pieces[i])
    <3>1. i - 2 \in Nat /\ (i - 2) + 2 <= n /\ (i - 2) + 1 = i - 1 /\ (i - 2) + 2 = i
      BY <2>1
    <3>2. f[i - 1] = Glued(f[i - 2], pieces[i])
      BY <1>3, <3>1
    <3>3. i - 1 \in 1 .. n /\ (i - 1) - 1 = i - 2
      BY <2>1
    <3> QED
      BY <3>2, <3>3
  <2>2. u[1] = pieces[1]
    BY <1>3
  <2>3. \A i \in 1 .. n : u[i] = IF i = 1 THEN pieces[1] ELSE Glued(u[i - 1], pieces[i])
    BY <2>1, <2>2
  <2> QED
    BY <2>3
<1>5. Is(upTo)
  <2> HIDE DEF Is
  <2> QED
    BY <1>4
<1>6. RunTogether(pieces) = upTo[n]
  BY DEF RunTogether
<1> HIDE DEF upTo
<1>7. /\ upTo[1] = pieces[1]
      /\ \A k \in Nat : k + 2 <= n => upTo[k + 2] = Glued(upTo[k + 1], pieces[k + 2])
  <2>1. \A i \in 1 .. n : upTo[i] = IF i = 1 THEN pieces[1] ELSE Glued(upTo[i - 1], pieces[i])
    BY <1>5
  <2>2. ASSUME NEW k \in Nat, k + 2 <= n PROVE upTo[k + 2] = Glued(upTo[k + 1], pieces[k + 2])
    <3>1. k + 2 \in 1 .. n /\ k + 2 # 1 /\ (k + 2) - 1 = k + 1
      BY <2>2
    <3> QED
      BY <2>1, <3>1
  <2> QED
    BY <2>1, <2>2
<1> HIDE DEF Is
<1> DEFINE Bad == {k \in Nat : k + 2 <= n => upTo[k + 2] \in Some /\ Spoilt(upTo[k + 2])}
<1>8. ASSUME NEW w \in Some, NEW i \in 1 .. n, IsLine(w, W) \/ Spoilt(w)
      PROVE  Glued(w, pieces[i]) \in Some /\ Spoilt(Glued(w, pieces[i]))
  BY <1>8, GluedSpoils
<1>9. 0 \in Bad
  <2>1. upTo[0 + 2] = Glued(upTo[0 + 1], pieces[0 + 2])
    BY <1>7
  <2>2. upTo[2] = Glued(pieces[1], pieces[2])
    BY <1>7, <2>1
  <2>3. 2 \in 1 .. n /\ IsLine(pieces[1], W)
    OBVIOUS
  <2>4. upTo[2] \in Some /\ Spoilt(upTo[2])
    BY <1>2, <1>8, <2>2, <2>3
  <2> QED
    BY <2>4
<1>10. ASSUME NEW k \in Nat, k \in Bad PROVE k + 1 \in Bad
  <2>1. CASE (k + 1) + 2 <= n
    <3>1. upTo[k + 2] \in Some /\ Spoilt(upTo[k + 2])
      BY <1>10, <2>1
    <3>2. PICK m \in Nat : m = k + 1
      OBVIOUS
    <3>3. upTo[m + 2] = Glued(upTo[m + 1], pieces[m + 2])
      BY <1>7, <2>1, <3>2
    <3>4. m + 1 = k + 2 /\ m + 2 \in 1 .. n
      BY <2>1, <3>2
    <3>5. upTo[m + 2] \in Some /\ Spoilt(upTo[m + 2])
      <4> HIDE DEF Some
      <4> QED
        BY <1>8, <3>1, <3>3, <3>4
    <3> HIDE DEF Some
    <3> QED
      BY <3>2, <3>5
  <2>2. CASE ~((k + 1) + 2 <= n)
    BY <2>2
  <2> QED
    BY <2>1, <2>2
<1> HIDE DEF Bad
<1>11. n - 2 \in Bad
  BY <1>9, <1>10, SetInduction
<1>12. upTo[n] \in Some /\ Spoilt(upTo[n])
  <2>1. n - 2 \in Nat /\ (n - 2) + 2 = n
    OBVIOUS
  <2> QED
    BY <1>11, <2>1 DEF Bad
<1> QED
  BY <1>6, <1>12

\* What the board prints is a line.
AllWords == {"glued", "RES", "0", "1", "SD_START", "name", "T"} \cup Columns

LEMMA WordsAreALine ==
  ASSUME NEW piece
  PROVE  IsLine(Words(piece), AllWords)
<1>1. CASE piece = Response
  <2> DEFINE w == <<"RES", "0", "SD_START", "name">>
  <2>1. w \in Seq(AllWords) /\ Len(w) = 4
    BY DEF AllWords
  <2>2. 4 % 2 = 0
    OBVIOUS
  <2> HIDE DEF w
  <2>3. IsLine(w, AllWords)
    BY <2>1, <2>2 DEF IsLine
  <2> QED
    BY <1>1, <2>3 DEF Words, w
<1>2. CASE piece # Response
  <2> DEFINE e(i) == IF i % 2 = 1 THEN PacketFields[(i + 1) \div 2] ELSE "1"
             w    == [i \in 1 .. 2 * N |-> e(i)]
  <2>1. Words(piece) = w
    BY <1>2 DEF Words, N
  <2>2. N \in Nat \ {0} /\ 2 * N \in Nat /\ 2 * N > 0
    BY FieldFacts
  <2>3. ASSUME NEW i \in 1 .. 2 * N PROVE e(i) \in AllWords
    <3>1. CASE i % 2 = 1
      <4>1. (i + 1) \div 2 \in 1 .. N
        BY <2>2
      <4>2. PacketFields[(i + 1) \div 2] \in Columns \cup {"T"}
        BY <4>1, FieldFacts, ElementOfSeq DEF N
      <4> QED
        BY <3>1, <4>2 DEF AllWords
    <3>2. CASE i % 2 # 1
      BY <3>2 DEF AllWords
    <3> QED
      BY <3>1, <3>2
  <2> HIDE DEF e
  <2>4. w \in Seq(AllWords) /\ Len(w) = 2 * N
    BY <2>2, <2>3
  <2>5. (2 * N) % 2 = 0
    BY <2>2
  <2> HIDE DEF w
  <2> QED
    BY <2>1, <2>2, <2>4, <2>5 DEF IsLine
<1> QED
  BY <1>1, <1>2

----------------------------------------------------------------------------
(* The search for the video's row                                           *)

\* What one round of the bisection keeps, and that it comes closer.
Searching(n, times, t) ==
  {s \in [first : Nat, len : Nat] :
     /\ s.first + s.len <= n
     /\ s.first > 0 => times[s.first] < t
     /\ s.first + s.len < n => ~(times[s.first + s.len + 1] < t)}

LEMMA HalveKeeps ==
  ASSUME NEW n \in Nat, NEW times, NEW t, NEW s \in Searching(n, times, t)
  PROVE  /\ Halve(times, t, s) \in Searching(n, times, t)
         /\ Halve(times, t, s).len = 0 \/ Halve(times, t, s).len < s.len
<1> DEFINE half == s.len \div 2
<1>1. /\ s \in [first : Nat, len : Nat] /\ s.first \in Nat /\ s.len \in Nat
      /\ s.first + s.len <= n
      /\ s.first > 0 => times[s.first] < t
      /\ s.first + s.len < n => ~(times[s.first + s.len + 1] < t)
  BY DEF Searching
<1>2. CASE s.len = 0
  BY <1>2 DEF Halve
<1>3. CASE s.len # 0 /\ times[s.first + half + 1] < t
  <2> DEFINE r == [first |-> s.first + half + 1, len |-> s.len - half - 1]
  <2>1. Halve(times, t, s) = r
    BY <1>3 DEF Halve
  <2>2. half \in Nat /\ s.len - half - 1 \in Nat
    BY <1>1, <1>3
  <2>3. /\ r.first = s.first + half + 1 /\ r.len = s.len - half - 1
        /\ r.first + r.len = s.first + s.len
    BY <1>1, <2>2
  <2>4. r \in Searching(n, times, t)
    <3> HIDE DEF half
    <3> QED
      BY <1>1, <1>3, <2>2, <2>3 DEF Searching
  <2>5. r.len < s.len
    <3> HIDE DEF half
    <3> QED
      BY <1>1, <2>2, <2>3
  <2> HIDE DEF r
  <2> QED
    BY <2>1, <2>4, <2>5
<1>4. CASE s.len # 0 /\ ~(times[s.first + half + 1] < t)
  <2> DEFINE r == [first |-> s.first, len |-> half]
  <2>1. Halve(times, t, s) = r
    BY <1>4 DEF Halve
  <2>2. half \in Nat /\ half < s.len
    BY <1>1, <1>4
  <2>3. r.first = s.first /\ r.len = half
    OBVIOUS
  <2>4. r \in Searching(n, times, t)
    <3> HIDE DEF half
    <3> QED
      BY <1>1, <1>4, <2>2, <2>3 DEF Searching
  <2> HIDE DEF r
  <2> QED
    BY <2>1, <2>2, <2>3, <2>4
<1> QED
  BY <1>2, <1>3, <1>4

\* Whether the times are sorted or not, the search ends at a change.
LEMMA LowerBoundFacts ==
  ASSUME NEW n \in Nat, NEW times, Len(times) = n, NEW t
  PROVE  /\ LowerBound(times, t) \in 0 .. n
         /\ LowerBound(times, t) > 0 => times[LowerBound(times, t)] < t
         /\ LowerBound(times, t) < n => ~(times[LowerBound(times, t) + 1] < t)
<1> DEFINE States == Searching(n, times, t)
           start  == [first |-> 0, len |-> n]
<1>1. start \in States
  BY DEF Searching
<1>2. PICK f : f \in [Nat -> States] /\ f[0] = start
               /\ \A k \in Nat : f[k + 1] = Halve(times, t, f[k])
  <2> DEFINE g == [k \in Nat |-> [s \in States |-> Halve(times, t, s)]]
  <2> HIDE DEF States, start
  <2>1. \A s \in States : Halve(times, t, s) \in States
    BY HalveKeeps DEF States
  <2>2. g \in [Nat -> [States -> States]] /\ \A k \in Nat, s \in States : g[k + 1][s] = Halve(times, t, s)
    BY <2>1
  <2> HIDE DEF g
  <2>3. PICK f : Iterates(f, States, start, g)
    BY <1>1, <2>2, Iteration
  <2>4. f \in [Nat -> States] /\ f[0] = start
    BY <2>3 DEF Iterates
  <2>5. ASSUME NEW k \in Nat PROVE f[k + 1] = Halve(times, t, f[k])
    <3>1. f[k + 1] = g[k + 1][f[k]] /\ f[k] \in States
      BY <2>3 DEF Iterates
    <3> QED
      BY <2>2, <3>1
  <2> QED
    BY <2>4, <2>5
<1> DEFINE Is(u) == u = [i \in Nat |-> IF i = 0 THEN [first |-> 0, len |-> Len(times)]
                                       ELSE Halve(times, t, u[i - 1])]
           search == CHOOSE u : Is(u)
<1>3. Is(f)
  <2>1. ASSUME NEW i \in Nat, i # 0 PROVE f[i] = Halve(times, t, f[i - 1])
    <3>1. i - 1 \in Nat /\ i - 1 + 1 = i
      BY <2>1
    <3> QED
      BY <1>2, <3>1
  <2>2. f[0] = [first |-> 0, len |-> Len(times)]
    BY <1>2
  <2>3. \A i \in Nat : f[i] = IF i = 0 THEN [first |-> 0, len |-> Len(times)]
                              ELSE Halve(times, t, f[i - 1])
    BY <2>1, <2>2
  <2> HIDE DEF States
  <2> QED
    BY <1>2, <2>3
<1>4. Is(search)
  <2> HIDE DEF Is
  <2> QED
    BY <1>3
<1>5. LowerBound(times, t) = search[n].first
  BY DEF LowerBound
<1> HIDE DEF search
<1>6. search[0] = start /\ \A k \in Nat : search[k + 1] = Halve(times, t, search[k])
  <2>1. \A i \in Nat : search[i] = IF i = 0 THEN [first |-> 0, len |-> Len(times)]
                                   ELSE Halve(times, t, search[i - 1])
    BY <1>4
  <2>2. ASSUME NEW k \in Nat PROVE search[k + 1] = Halve(times, t, search[k])
    <3>1. k + 1 \in Nat /\ k + 1 # 0 /\ k + 1 - 1 = k
      OBVIOUS
    <3> QED
      BY <2>1, <3>1
  <2> QED
    BY <2>1, <2>2
<1> HIDE DEF Is
<1> DEFINE Near == {k \in Nat : search[k] \in States
                                /\ (search[k].len = 0 \/ search[k].len + k <= n)}
<1>7. 0 \in Near
  BY <1>1, <1>6
<1>8. ASSUME NEW k \in Nat, k \in Near PROVE k + 1 \in Near
  <2> DEFINE a == search[k]
             b == search[k + 1]
  <2>1. a \in States /\ (a.len = 0 \/ a.len + k <= n)
    BY <1>8
  <2>2. b = Halve(times, t, a)
    BY <1>6
  <2> HIDE DEF a, b
  <2>3. b \in States /\ (b.len = 0 \/ b.len < a.len)
    BY <2>1, <2>2, HalveKeeps
  <2>4. a.len \in Nat /\ b.len \in Nat
    BY <2>1, <2>3 DEF Searching
  <2>5. b.len = 0 \/ b.len + (k + 1) <= n
    BY <2>1, <2>3, <2>4
  <2> HIDE DEF States
  <2> QED
    BY <2>3, <2>5 DEF b
<1> HIDE DEF Near
<1>9. n \in Near
  BY <1>7, <1>8, SetInduction
<1> DEFINE s == search[n]
<1>10. s \in States /\ (s.len = 0 \/ s.len + n <= n)
  BY <1>9 DEF Near
<1> HIDE DEF s
<1>11. s.len = 0 /\ s.first \in Nat
  BY <1>10 DEF Searching
<1>12. /\ s.first <= n /\ (s.first > 0 => times[s.first] < t)
       /\ (s.first < n => ~(times[s.first + 1] < t))
  BY <1>10, <1>11 DEF Searching
<1>13. LowerBound(times, t) = s.first
  BY <1>5 DEF s
<1> QED
  BY <1>11, <1>12, <1>13

----------------------------------------------------------------------------
(* The WebSocket thread                                                     *)

\* No line in m_Buffer is empty.
BufferInv ==
  /\ buffer \in Seq(Piece) /\ line \in Seq(Piece)
  /\ \A i \in 1 .. Len(buffer) : buffer[i] = Newline => i > 1 /\ buffer[i - 1] # Newline

\* A line that has passed is one packet or one response, and only a packet is
\* written.
LineInv ==
  /\ wsPc \in {"idle", "lines", "lock", "write"} /\ field \in 0 .. N + 1
  /\ wsPc \in {"lock", "write"} => Len(line) = 1 /\ line[1] \in Row \cup {Response}
  /\ wsPc = "write" => line[1] \in Row /\ field \in 1 .. N + 1

CountInv == sent \in 0 .. MaxPackets /\ responses \in 0 .. MaxResponses

WsInv == CountInv /\ BufferInv /\ LineInv

LEMMA CountStep == CountInv /\ [Next]_vars => CountInv'
<1> SUFFICES ASSUME CountInv, [Next]_vars PROVE CountInv'
  OBVIOUS
<1>1. \/ UNCHANGED <<sent, responses>>
      \/ sent < MaxPackets /\ sent' = sent + 1 /\ responses' = responses
      \/ responses < MaxResponses /\ responses' = responses + 1 /\ sent' = sent
  BY DEF Next, WebSocketStep, ReceivePacket, LosePacket, ReceiveResponse, TakeLine, LinesDone,
         LockAndTest, WriteField, WriteRawLine, GuiStep, PressClearData, ClearVector,
         ClearMeetsPush, ClearGoesOn, ToggleLogging,
         TakeSelectedTxt, PressOpenTextFile, PressSync, SyncDataVideo, DeleteExtra,
         LeaveView, DialogReturns, boardVars, vars
<1> QED
  BY <1>1, FieldFacts DEF CountInv

LEMMA WsSteps ==
  ASSUME [Next]_vars
  PROVE  \/ UNCHANGED wsVars
         \/ ReceivePacket \/ (\E ended \in BOOLEAN : ReceiveResponse(ended))
         \/ TakeLine \/ LinesDone \/ LockAndTest \/ WriteField \/ WriteRawLine
         \/ ClearMeetsPush
<1>1. CASE GuiStep
  BY <1>1 DEF GuiStep, PressClearData, ClearVector, ToggleLogging, TakeSelectedTxt, PressOpenTextFile,
              PressSync, SyncDataVideo, DeleteExtra, LeaveView
<1>2. CASE \E chosen \in BOOLEAN : DialogReturns(chosen)
  BY <1>2 DEF DialogReturns
<1>3. CASE UNCHANGED vars
  BY <1>3 DEF vars, wsVars
<1>4. CASE WebSocketStep
  BY <1>4 DEF WebSocketStep, LosePacket
<1> QED
  BY <1>1, <1>2, <1>3, <1>4 DEF Next

LEMMA ReceiveKeeps ==
  ASSUME WsInv, NEW pieces \in Seq(Piece), Receive(pieces),
         Len(pieces) \in 1 .. 2, pieces[1] # Newline
  PROVE  BufferInv' /\ LineInv'
<1>0. Len(buffer) \in Int /\ Len(pieces) \in Int /\ Len(pieces) <= 2
  <2>1. buffer \in Seq(Piece)
    BY DEF WsInv, BufferInv
  <2>2. Len(buffer) \in Nat
    BY <2>1, LenProperties
  <2>3. \A k \in 1 .. 2 : k \in Int /\ k <= 2
    OBVIOUS
  <2>4. Len(pieces) \in Int /\ Len(pieces) <= 2
    BY <2>3
  <2> QED
    BY <2>2, <2>4
<1> DEFINE b == buffer'
<1>1. /\ buffer \in Seq(Piece) /\ b = buffer \o pieces /\ Len(buffer) \in Nat
      /\ Len(pieces) \in 1 .. 2 /\ wsPc' = "lines" /\ line' = line /\ field' = field
  BY DEF Receive, WsInv, BufferInv
<1> HIDE DEF b
<1>2. /\ b \in Seq(Piece) /\ Len(b) = Len(buffer) + Len(pieces)
      /\ \A i \in 1 .. Len(buffer) + Len(pieces) :
           b[i] = IF i <= Len(buffer) THEN buffer[i] ELSE pieces[i - Len(buffer)]
  BY <1>1, ConcatProperties
<1>3. ASSUME NEW i \in 1 .. Len(b), b[i] = Newline PROVE i > 1 /\ b[i - 1] # Newline
  <2>1. CASE i <= Len(buffer)
    <3>1. buffer[i] = Newline /\ i \in 1 .. Len(buffer)
      BY <1>2, <1>3, <2>1
    <3>2. i > 1 /\ buffer[i - 1] # Newline
      BY <3>1 DEF WsInv, BufferInv
    <3>3. b[i - 1] = buffer[i - 1]
      BY <1>1, <1>2, <2>1, <3>2
    <3> QED
      BY <3>2, <3>3
  <2>2. CASE i > Len(buffer)
    <3>1. pieces[i - Len(buffer)] = Newline
      BY <1>2, <1>3, <2>2
    <3>2. i = Len(buffer) + 2
      <4>1. Len(b) = Len(buffer) + Len(pieces)
        BY <1>2
      <4>2. i \in Int /\ i <= Len(buffer) + Len(pieces)
        BY <1>0, <4>1
      <4>3. i > Len(buffer)
        BY <2>2
      <4>4. i # Len(buffer) + 1
        <5>1. i = Len(buffer) + 1 => i - Len(buffer) = 1
          BY <1>0
        <5> QED
          BY <1>1, <3>1, <5>1
      <4> QED
        BY <1>0, <4>2, <4>3, <4>4
    <3>3. b[i - 1] = pieces[1]
      BY <1>1, <1>2, <1>3, <3>2
    <3> QED
      BY <1>1, <3>2, <3>3
  <2> QED
    BY <1>1, <1>2, <2>1, <2>2
<1>4. BufferInv'
  BY <1>1, <1>2, <1>3 DEF WsInv, BufferInv, b
<1>5. LineInv'
  BY <1>1 DEF WsInv, LineInv
<1> QED
  BY <1>4, <1>5

\* std::getline finds the first newline, and what it leaves is a buffer again.
LEMMA FirstNewlineFacts ==
  ASSUME BufferInv, \E i \in 1 .. Len(buffer) : buffer[i] = Newline
  PROVE  /\ FirstNewline \in 2 .. Len(buffer) /\ buffer[FirstNewline] = Newline
         /\ \A j \in 1 .. FirstNewline - 1 : buffer[j] # Newline
<1> DEFINE Ends == {i \in 1 .. Len(buffer) : buffer[i] = Newline}
<1>1. Ends \in SUBSET Nat /\ Ends # {}
  BY DEF BufferInv
<1>2. PICK m \in Ends : \A k \in Ends : m <= k
  <2> HIDE DEF Ends
  <2> QED
    BY <1>1, Least
<1>3. /\ m \in 1 .. Len(buffer) /\ buffer[m] = Newline
      /\ \A j \in 1 .. m - 1 : buffer[j] # Newline
  BY <1>2
<1>4. /\ FirstNewline \in 1 .. Len(buffer) /\ buffer[FirstNewline] = Newline
      /\ \A j \in 1 .. FirstNewline - 1 : buffer[j] # Newline
  BY <1>3 DEF FirstNewline
<1>5. FirstNewline > 1
  BY <1>4 DEF BufferInv
<1> HIDE DEF FirstNewline
<1> QED
  BY <1>4, <1>5

LEMMA TakeLineKeeps ==
  ASSUME WsInv, TakeLine
  PROVE  BufferInv' /\ LineInv'
<1> DEFINE e == FirstNewline
           l == SubSeq(buffer, 1, e - 1)
           b == SubSeq(buffer, e + 1, Len(buffer))
           valid == ValidatePacket(RunTogether([i \in 1 .. Len(l) |-> Words(l[i])]))
<1>1. /\ wsPc = "lines" /\ \E i \in 1 .. Len(buffer) : buffer[i] = Newline
      /\ buffer' = b /\ line' = (IF valid THEN l ELSE NoLine)
      /\ wsPc' = (IF valid THEN "lock" ELSE "lines") /\ field' = field
  BY DEF TakeLine
<1> HIDE DEF valid
<1>2. /\ e \in 2 .. Len(buffer) /\ buffer[e] = Newline
      /\ \A j \in 1 .. e - 1 : buffer[j] # Newline
  BY <1>1, FirstNewlineFacts DEF WsInv
<1> HIDE DEF e
<1>3. /\ buffer \in Seq(Piece) /\ Len(buffer) \in Nat /\ e \in Int
      /\ 1 <= 1 /\ 1 - 1 <= e - 1 /\ e - 1 <= Len(buffer)
      /\ 1 <= e + 1 /\ (e + 1) - 1 <= Len(buffer) /\ Len(buffer) <= Len(buffer)
  BY <1>2 DEF WsInv, BufferInv
<1>4. /\ l \in Seq(Piece) /\ Len(l) = e - 1
      /\ \A i \in 1 .. e - 1 : l[i] = buffer[i]
  <2>1. /\ l \in Seq(Piece) /\ Len(l) = (e - 1) - 1 + 1
        /\ \A i \in 1 .. (e - 1) - 1 + 1 : l[i] = buffer[1 + i - 1]
    BY <1>3, Part
  <2> HIDE DEF l
  <2> QED
    BY <1>3, <2>1
<1>5. /\ b \in Seq(Piece) /\ Len(b) = Len(buffer) - e
      /\ \A i \in 1 .. Len(buffer) - e : b[i] = buffer[e + i]
  <2>1. /\ b \in Seq(Piece) /\ Len(b) = Len(buffer) - (e + 1) + 1
        /\ \A i \in 1 .. Len(buffer) - (e + 1) + 1 : b[i] = buffer[(e + 1) + i - 1]
    BY <1>3, Part
  <2> HIDE DEF b
  <2>2. /\ Len(buffer) - (e + 1) + 1 = Len(buffer) - e
        /\ \A i \in 1 .. Len(buffer) - e : (e + 1) + i - 1 = e + i
    BY <1>3
  <2> QED
    BY <2>1, <2>2
<1> HIDE DEF l, b
<1>6. ASSUME NEW i \in 1 .. Len(b), b[i] = Newline PROVE i > 1 /\ b[i - 1] # Newline
  <2>1. e + i \in 1 .. Len(buffer) /\ buffer[e + i] = Newline
    BY <1>2, <1>3, <1>5, <1>6
  <2>2. buffer[e + i - 1] # Newline
    <3>1. PICK k \in 1 .. Len(buffer) : k = e + i
      BY <2>1
    <3>2. buffer[k - 1] # Newline
      BY <2>1, <3>1 DEF WsInv, BufferInv
    <3>3. k - 1 = e + i - 1
      BY <1>3, <3>1
    <3> QED
      BY <3>2, <3>3
  <2>3. i # 1
    BY <1>2, <1>3, <2>2
  <2>4. i - 1 \in 1 .. Len(buffer) - e /\ e + (i - 1) = e + i - 1
    BY <1>3, <1>5, <1>6, <2>3
  <2> QED
    BY <1>5, <2>2, <2>3, <2>4
<1>7. \A i \in 1 .. Len(l) : l[i] \in Row \cup {Response}
  BY <1>2, <1>4, PieceFacts, ElementOfSeq
<1>8. BufferInv'
  <2>1. line' \in Seq(Piece)
    BY <1>1, <1>4 DEF NoLine
  <2> QED
    BY <1>1, <1>5, <1>6, <2>1 DEF BufferInv
<1>9. CASE valid
  <2> DEFINE n == Len(l)
             pieces == [i \in 1 .. n |-> Words(l[i])]
  <2>1. n \in Nat /\ n >= 1
    BY <1>2, <1>3, <1>4
  <2>2. \A i \in 1 .. n : IsLine(pieces[i], AllWords)
    BY WordsAreALine
  <2>3. Len(pieces) = n
    <3> HIDE DEF n
    <3> QED
      BY <2>1
  <2>4. ValidatePacket(RunTogether(pieces))
    BY <1>9 DEF valid
  <2>5. "glued" \in AllWords
    BY DEF AllWords
  <2>6. ~(n >= 2)
    <3> SUFFICES ASSUME n >= 2 PROVE FALSE
      OBVIOUS
    <3> HIDE DEF n, pieces
    <3>1. Len(RunTogether(pieces)) \in Nat /\ Spoilt(RunTogether(pieces))
      BY <2>1, <2>2, <2>3, <2>5, TogetherSpoils
    <3> QED
      BY <2>4, <3>1, SpoiltIsRefused
  <2>7. Len(l) = 1
    <3>1. n = 1
      <4> HIDE DEF n, pieces
      <4> QED
        BY <2>1, <2>6
    <3> QED
      BY <3>1
  <2>8. l[1] \in Row \cup {Response}
    BY <1>7, <2>7
  <2>9. LineInv'
    BY <1>1, <1>9, <2>7, <2>8 DEF WsInv, LineInv
  <2> QED
    BY <1>8, <2>9
<1>10. CASE ~valid
  BY <1>1, <1>8, <1>10 DEF WsInv, LineInv
<1> QED
  BY <1>9, <1>10

LEMMA WsStep == WsInv /\ [Next]_vars => WsInv'
<1> SUFFICES ASSUME WsInv, [Next]_vars PROVE BufferInv' /\ LineInv'
  BY CountStep DEF WsInv
<1>1. CASE UNCHANGED wsVars
  BY <1>1 DEF wsVars, WsInv, BufferInv, LineInv
<1>2. CASE ReceivePacket
  <2> DEFINE pieces == <<Live(sent + 1), Newline>>
  <2>1. Receive(pieces)
    BY <1>2 DEF ReceivePacket
  <2>2. Live(sent + 1) # Newline /\ Live(sent + 1) \in Piece
    <3>1. sent + 1 \in Nat
      BY FieldFacts DEF WsInv, CountInv
    <3> QED
      BY <3>1, PieceFacts
  <2>3. pieces \in Seq(Piece) /\ Len(pieces) \in 1 .. 2 /\ pieces[1] # Newline
    BY <2>2, PieceFacts
  <2> HIDE DEF pieces
  <2> QED
    BY <2>1, <2>3, ReceiveKeeps
<1>3. ASSUME NEW ended \in BOOLEAN, ReceiveResponse(ended) PROVE BufferInv' /\ LineInv'
  <2> DEFINE pieces == IF ended THEN <<Response, Newline>> ELSE <<Response>>
  <2>1. Receive(pieces)
    BY <1>3 DEF ReceiveResponse
  <2>2. pieces \in Seq(Piece) /\ Len(pieces) \in 1 .. 2 /\ pieces[1] # Newline
    BY PieceFacts
  <2> HIDE DEF pieces
  <2> QED
    BY <2>1, <2>2, ReceiveKeeps
<1>4. CASE TakeLine
  BY <1>4, TakeLineKeeps
<1>5. CASE LinesDone
  BY <1>5 DEF LinesDone, WsInv, BufferInv, LineInv
<1>6. CASE LockAndTest
  <2>1. /\ wsPc = "lock" /\ buffer' = buffer
        /\ IF line[1] = Response \/ ~isLogging
           THEN wsPc' = "lines" /\ line' = NoLine /\ field' = field
           ELSE wsPc' = "write" /\ field' = 1 /\ line' = line
    BY <1>6 DEF LockAndTest
  <2>2. NoLine \in Seq(Piece) /\ 1 \in 1 .. N + 1 /\ 1 \in 0 .. N + 1
    BY FieldFacts DEF NoLine
  <2>3. CASE line[1] = Response \/ ~isLogging
    BY <2>1, <2>2, <2>3 DEF WsInv, BufferInv, LineInv
  <2>4. CASE ~(line[1] = Response \/ ~isLogging)
    BY <2>1, <2>2, <2>4 DEF WsInv, BufferInv, LineInv
  <2> QED
    BY <2>3, <2>4
<1>7. CASE wsPc = "write" /\ field <= N /\ NextField /\ buffer' = buffer
  <2>1. /\ wsPc = "write" /\ field <= N /\ field' = field + 1
        /\ UNCHANGED <<wsPc, buffer, line>>
    BY <1>7 DEF NextField
  <2>2. field \in 1 .. N + 1 /\ N \in Nat
    BY <2>1, FieldFacts DEF WsInv, LineInv
  <2>3. field' \in 1 .. N + 1 /\ field' \in 0 .. N + 1
    BY <2>1, <2>2
  <2> QED
    BY <2>1, <2>3 DEF WsInv, BufferInv, LineInv
<1>8. CASE NextLine /\ buffer' = buffer
  <2>1. wsPc' = "lines" /\ line' = <<>> /\ field' = 0 /\ buffer' = buffer
    BY <1>8 DEF NextLine, NoLine
  <2>2. <<>> \in Seq(Piece) /\ 0 \in 0 .. N + 1
    BY FieldFacts
  <2> QED
    BY <2>1, <2>2 DEF WsInv, BufferInv, LineInv
<1>9. CASE WriteField \/ WriteRawLine \/ ClearMeetsPush
  <2>1. (wsPc = "write" /\ field <= N /\ NextField /\ buffer' = buffer)
        \/ (NextLine /\ buffer' = buffer)
    BY <1>9 DEF WriteField, WriteRawLine, ClearMeetsPush, ClearGoesOn, N
  <2> QED
    BY <1>7, <1>8, <2>1
<1> QED
  BY <1>1, <1>2, <1>3, <1>4, <1>5, <1>6, <1>9, WsSteps

----------------------------------------------------------------------------
(* The columns                                                              *)

DataType == [micros : Seq(Row), time : Seq(Row), col : [Columns -> Seq(Row)],
             raw : Seq(Row), currentLine : Seq(Piece)]

DataInv == data \in DataType /\ erasePos \in Nat

\* The clear counts only while it goes on.
ClearInv ==
  /\ gui \in {"idle", "clear", "sync", "trim"} /\ torn \in BOOLEAN
  /\ cleared \in 0 .. Len(ClearOrder) - 1 /\ (gui # "clear" => cleared = 0)

\* The steps that change the columns or where their writer is.
LEMMA DataSteps ==
  ASSUME [Next]_vars
  PROVE  \/ /\ UNCHANGED <<data, erasePos, torn>>
            /\ UNCHANGED wsVars \/ (wsPc # "write" /\ (wsPc' # "write" \/ LockAndTest))
         \/ WriteField \/ WriteRawLine
         \/ ClearVector \/ ClearMeetsPush
         \/ DataMutexFree /\ data' = Loaded(data) /\ UNCHANGED <<wsPc, erasePos>>
         \/ SyncDataVideo \/ DeleteExtra
<1>1. CASE GuiStep
  BY <1>1 DEF GuiStep, PressClearData, ToggleLogging, TakeSelectedTxt, PressOpenTextFile,
              PressSync, LoadData, LeaveView, wsVars, guiVars, history
<1>2. CASE \E chosen \in BOOLEAN : DialogReturns(chosen)
  BY <1>2 DEF DialogReturns, guiVars, history
<1>3. CASE UNCHANGED vars
  BY <1>3 DEF vars, wsVars
<1>4. CASE WebSocketStep
  <2>1. CASE ReceivePacket \/ \E ended \in BOOLEAN : ReceiveResponse(ended)
    BY <2>1 DEF ReceivePacket, ReceiveResponse, Receive, guiVars, history
  <2>2. CASE TakeLine
    <3>1. wsPc = "lines" /\ wsPc' \in {"lock", "lines"} /\ UNCHANGED <<data, erasePos, torn>>
      BY <2>2 DEF TakeLine, guiVars, history
    <3> QED
      BY <3>1
  <2>3. CASE LinesDone \/ LosePacket
    BY <2>3 DEF LinesDone, LosePacket, guiVars, history
  <2>4. CASE LockAndTest
    <3>1. wsPc = "lock" /\ UNCHANGED <<data, erasePos, torn>>
      BY <2>4 DEF LockAndTest, guiVars, history
    <3> QED
      BY <2>4, <3>1
  <2> QED
    BY <1>4, <2>1, <2>2, <2>3, <2>4 DEF WebSocketStep
<1> QED
  BY <1>1, <1>2, <1>3, <1>4 DEF Next

LEMMA FileRowsType == FileRows \in Seq(Row) /\ Len(FileRows) = FileLen
<1>1. FileLen \in Nat
  BY FieldFacts
<1>2. \A n \in 1 .. FileLen : <<"file", n>> \in Row
  BY <1>1 DEF Row
<1> QED
  BY <1>1, <1>2 DEF FileRows

LEMMA DataFacts ==
  ASSUME DataInv
  PROVE  /\ data.micros \in Seq(Row) /\ data.time \in Seq(Row) /\ data.raw \in Seq(Row)
         /\ data.col \in [Columns -> Seq(Row)] /\ data.currentLine \in Seq(Piece)
         /\ \A c \in Columns : data.col[c] \in Seq(Row)
         /\ data = [micros |-> data.micros, time |-> data.time, col |-> data.col,
                    raw |-> data.raw, currentLine |-> data.currentLine]
BY DEF DataInv, DataType

\* One vector of TelemetryData is given other values.
LEMMA WithVectorIs ==
  ASSUME NEW d \in DataType, NEW s \in Seq(Row)
  PROVE  /\ WithVector(d, "raw", s) = [micros |-> d.micros, time |-> d.time, col |-> d.col,
                                       raw |-> s, currentLine |-> d.currentLine]
         /\ WithVector(d, "time", s) = [micros |-> d.micros, time |-> s, col |-> d.col,
                                        raw |-> d.raw, currentLine |-> d.currentLine]
         /\ WithVector(d, "micros", s) = [micros |-> s, time |-> d.time, col |-> d.col,
                                          raw |-> d.raw, currentLine |-> d.currentLine]
         /\ \A v \in Columns :
              WithVector(d, v, s) = [micros |-> d.micros, time |-> d.time,
                                     col |-> [d.col EXCEPT ![v] = s],
                                     raw |-> d.raw, currentLine |-> d.currentLine]
         /\ \A k \in 1 .. Len(ClearOrder) : WithVector(d, ClearOrder[k], s) \in DataType
<1>1. /\ d.micros \in Seq(Row) /\ d.time \in Seq(Row) /\ d.raw \in Seq(Row)
      /\ d.col \in [Columns -> Seq(Row)] /\ d.currentLine \in Seq(Piece)
      /\ d = [micros |-> d.micros, time |-> d.time, col |-> d.col,
              raw |-> d.raw, currentLine |-> d.currentLine]
  BY DEF DataType
<1>2. WithVector(d, "raw", s) = [micros |-> d.micros, time |-> d.time, col |-> d.col,
                                 raw |-> s, currentLine |-> d.currentLine]
  <2>1. WithVector(d, "raw", s) = [d EXCEPT !.raw = s]
    BY OrderFacts DEF WithVector
  <2> QED
    BY <1>1, <2>1
<1>3. WithVector(d, "time", s) = [micros |-> d.micros, time |-> s, col |-> d.col,
                                  raw |-> d.raw, currentLine |-> d.currentLine]
  <2>1. WithVector(d, "time", s) = [d EXCEPT !.time = s]
    BY OrderFacts DEF WithVector
  <2> QED
    BY <1>1, <2>1
<1>4. WithVector(d, "micros", s) = [micros |-> s, time |-> d.time, col |-> d.col,
                                    raw |-> d.raw, currentLine |-> d.currentLine]
  <2>1. WithVector(d, "micros", s) = [d EXCEPT !.micros = s]
    BY OrderFacts DEF WithVector
  <2> QED
    BY <1>1, <2>1
<1>5. ASSUME NEW v \in Columns
      PROVE  WithVector(d, v, s) = [micros |-> d.micros, time |-> d.time,
                                    col |-> [d.col EXCEPT ![v] = s],
                                    raw |-> d.raw, currentLine |-> d.currentLine]
  <2>1. WithVector(d, v, s) = [d EXCEPT !.col = [d.col EXCEPT ![v] = s]]
    BY DEF WithVector
  <2> QED
    BY <1>1, <2>1
<1>6. ASSUME NEW k \in 1 .. Len(ClearOrder) PROVE WithVector(d, ClearOrder[k], s) \in DataType
  <2>1. \/ ClearOrder[k] \in {"raw", "time", "micros"} \/ ClearOrder[k] \in Columns
    <3>1. k = 1 \/ k \in 2 .. M + 1 \/ k = M + 2 \/ k = M + 3
      BY OrderFacts
    <3> QED
      BY <3>1, OrderFacts
  <2>2. CASE ClearOrder[k] = "raw"
    BY <1>1, <1>2, <2>2 DEF DataType
  <2>3. CASE ClearOrder[k] = "time"
    BY <1>1, <1>3, <2>3 DEF DataType
  <2>4. CASE ClearOrder[k] = "micros"
    BY <1>1, <1>4, <2>4 DEF DataType
  <2>5. CASE ClearOrder[k] \in Columns
    <3> DEFINE e == [d.col EXCEPT ![ClearOrder[k]] = s]
    <3>1. e \in [Columns -> Seq(Row)]
      BY <1>1
    <3>2. WithVector(d, ClearOrder[k], s) = [micros |-> d.micros, time |-> d.time, col |-> e,
                                             raw |-> d.raw, currentLine |-> d.currentLine]
      BY <1>5, <2>5
    <3> HIDE DEF e
    <3> QED
      BY <1>1, <3>1, <3>2 DEF DataType
  <2> QED
    BY <2>1, <2>2, <2>3, <2>4, <2>5
<1> QED
  BY <1>2, <1>3, <1>4, <1>5, <1>6

LEMMA VectorType ==
  ASSUME NEW d \in DataType, NEW k \in 1 .. Len(ClearOrder)
  PROVE  Vector(d, ClearOrder[k]) \in Seq(Row)
<1>1. k = 1 \/ k \in 2 .. M + 1 \/ k = M + 2 \/ k = M + 3
  BY OrderFacts
<1>2. \/ ClearOrder[k] \in Columns
      \/ ClearOrder[k] \notin Columns /\ ClearOrder[k] \in {"raw", "time", "micros"}
  BY <1>1, OrderFacts
<1> QED
  BY <1>2 DEF Vector, DataType

\* What each step of the clear empties.
LEMMA ClearVectorIs ==
  ASSUME DataInv, ClearInv, ClearVector
  PROVE  /\ data' \in DataType /\ erasePos' = erasePos /\ UNCHANGED wsVars /\ torn' = torn
         /\ \/ /\ cleared = 0 /\ data'.raw = <<>>
               /\ data'.time = data.time /\ data'.col = data.col
            \/ /\ cleared \in 1 .. M /\ data'.raw = data.raw /\ data'.time = data.time
               /\ \E v \in Columns : data'.col = [data.col EXCEPT ![v] = <<>>]
            \/ /\ cleared = M + 1 /\ data'.raw = data.raw
               /\ data'.time = <<>> /\ data'.col = data.col
            \/ /\ cleared = M + 2 /\ data'.raw = data.raw
               /\ data'.time = data.time /\ data'.col = data.col
<1>1. /\ data' = WithVector(data, ClearOrder[cleared + 1], <<>>) /\ data \in DataType
      /\ UNCHANGED wsVars /\ torn' = torn /\ erasePos' = erasePos
  BY DEF ClearVector, ClearGoesOn, ClearNext, DataInv
<1>2. cleared \in 0 .. M + 2 /\ cleared + 1 \in 1 .. Len(ClearOrder) /\ <<>> \in Seq(Row)
  BY OrderFacts DEF ClearInv
<1>3. data' \in DataType
  BY <1>1, <1>2, WithVectorIs
<1>4. CASE cleared = 0
  <2>0. data' = WithVector(data, "raw", <<>>)
    BY <1>1, <1>4, OrderFacts
  <2>1. data' = [micros |-> data.micros, time |-> data.time, col |-> data.col,
                 raw |-> <<>>, currentLine |-> data.currentLine]
    BY <1>1, <1>2, <2>0, WithVectorIs, Zenon
  <2> QED
    BY <1>1, <1>3, <1>4, <2>1
<1>5. CASE cleared \in 1 .. M
  <2>1. cleared + 1 \in 2 .. M + 1
    BY <1>5, OrderFacts
  <2>2. PICK v \in Columns : v = ClearOrder[cleared + 1]
    BY <2>1, OrderFacts
  <2>3. data' = [micros |-> data.micros, time |-> data.time,
                 col |-> [data.col EXCEPT ![v] = <<>>],
                 raw |-> data.raw, currentLine |-> data.currentLine]
    BY <1>1, <1>2, <2>2, WithVectorIs
  <2>4. /\ data'.raw = data.raw /\ data'.time = data.time
        /\ data'.col = [data.col EXCEPT ![v] = <<>>]
    BY <2>3, Zenon
  <2> QED
    BY <1>1, <1>3, <1>5, <2>4
<1>6. CASE cleared = M + 1
  <2>1. cleared + 1 = M + 2
    BY <1>6, OrderFacts
  <2>0. data' = WithVector(data, "time", <<>>)
    BY <1>1, <2>1, OrderFacts
  <2>2. data' = [micros |-> data.micros, time |-> <<>>, col |-> data.col,
                 raw |-> data.raw, currentLine |-> data.currentLine]
    BY <1>1, <1>2, <2>0, WithVectorIs, Zenon
  <2> QED
    BY <1>1, <1>3, <1>6, <2>2
<1>7. CASE cleared = M + 2
  <2>1. cleared + 1 = M + 3
    BY <1>7, OrderFacts
  <2>0. data' = WithVector(data, "micros", <<>>)
    BY <1>1, <2>1, OrderFacts
  <2>2. data' = [micros |-> <<>>, time |-> data.time, col |-> data.col,
                 raw |-> data.raw, currentLine |-> data.currentLine]
    BY <1>1, <1>2, <2>0, WithVectorIs, Zenon
  <2> QED
    BY <1>1, <1>3, <1>7, <2>2
<1>8. cleared = 0 \/ cleared \in 1 .. M \/ cleared = M + 1 \/ cleared = M + 2
  BY <1>2, OrderFacts
<1> QED
  BY <1>4, <1>5, <1>6, <1>7, <1>8

\* What a step leaves in each part of TelemetryData.
LEMMA ClearIs ==
  Clear(data) = [micros |-> <<>>, time |-> <<>>, col |-> [c \in Columns |-> <<>>],
                 raw |-> <<>>, currentLine |-> data.currentLine]
BY DEF Clear, NoData

LEMMA LoadedIs ==
  Loaded(data) = [micros |-> FileRows, time |-> FileRows,
                  col |-> [c \in Columns |-> IF c \in SentColumns THEN FileRows ELSE <<>>],
                  raw |-> <<>>, currentLine |-> data.currentLine]
<1> DEFINE filled == [c \in Columns |-> IF c \in SentColumns THEN FileRows ELSE <<>>]
           empty  == [c \in Columns |-> <<>>]
<1>1. Clear(data) = [micros |-> <<>>, time |-> <<>>, col |-> empty,
                     raw |-> <<>>, currentLine |-> data.currentLine]
  BY ClearIs
<1>2. Loaded(data) = [Clear(data) EXCEPT !.micros = FileRows, !.time = FileRows, !.col = filled]
  BY DEF Loaded
<1> HIDE DEF filled, empty
<1> DEFINE d1 == [Clear(data) EXCEPT !.micros = FileRows]
           d2 == [d1 EXCEPT !.time = FileRows]
           d3 == [d2 EXCEPT !.col = filled]
<1>3. d1 = [micros |-> FileRows, time |-> <<>>, col |-> empty,
            raw |-> <<>>, currentLine |-> data.currentLine]
  BY <1>1
<1>4. Loaded(data) = d3
  BY <1>2
<1> HIDE DEF d1
<1>5. d2 = [micros |-> FileRows, time |-> FileRows, col |-> empty,
            raw |-> <<>>, currentLine |-> data.currentLine]
  BY <1>3
<1> HIDE DEF d2
<1>6. d3 = [micros |-> FileRows, time |-> FileRows, col |-> filled,
            raw |-> <<>>, currentLine |-> data.currentLine]
  BY <1>5
<1> QED
  BY <1>4, <1>6 DEF filled

\* DeleteExtra does nothing or takes n rows off the time and every column.
Trims(n) ==
  /\ n <= Len(data.time) /\ \A c \in Columns : n <= Len(data.col[c])
  /\ data' = [micros |-> data.micros, time |-> Erased(data.time, n),
              col |-> [c \in Columns |-> Erased(data.col[c], n)],
              raw |-> data.raw, currentLine |-> data.currentLine]

LEMMA TrimmedIs ==
  ASSUME DataInv, data' = Trimmed(data, erasePos)
  PROVE  data' = data \/ Trims(erasePos)
<1>1. CASE Len(data.time) < erasePos \/ \E c \in Columns : Len(data.col[c]) < erasePos
  BY <1>1 DEF Trimmed
<1>2. CASE ~(Len(data.time) < erasePos \/ \E c \in Columns : Len(data.col[c]) < erasePos)
  <2>1. erasePos <= Len(data.time) /\ \A c \in Columns : erasePos <= Len(data.col[c])
    <3>1. erasePos \in Nat /\ Len(data.time) \in Nat /\ \A c \in Columns : Len(data.col[c]) \in Nat
      BY DataFacts, LenProperties DEF DataInv
    <3> QED
      BY <1>2, <3>1
  <2>2. data' = [data EXCEPT !.time = Erased(@, erasePos),
                             !.col = [c \in Columns |-> Erased(data.col[c], erasePos)]]
    BY <1>2 DEF Trimmed
  <2>3. data = [micros |-> data.micros, time |-> data.time, col |-> data.col,
                raw |-> data.raw, currentLine |-> data.currentLine]
    BY DataFacts
  <2>4. data' = [micros |-> data.micros, time |-> Erased(data.time, erasePos),
                 col |-> [c \in Columns |-> Erased(data.col[c], erasePos)],
                 raw |-> data.raw, currentLine |-> data.currentLine]
    BY <2>2, <2>3
  <2> QED
    BY <2>1, <2>4 DEF Trims
<1> QED
  BY <1>1, <1>2

LEMMA ErasedFacts ==
  ASSUME NEW S, NEW s \in Seq(S), NEW n \in Nat, n <= Len(s)
  PROVE  /\ Erased(s, n) \in Seq(S) /\ Len(Erased(s, n)) = Len(s) - n
         /\ \A i \in 1 .. Len(s) - n : Erased(s, n)[i] = s[n + i]
<1>1. /\ Len(s) \in Nat /\ n + 1 \in Int /\ Len(s) \in Int
      /\ 1 <= n + 1 /\ (n + 1) - 1 <= Len(s) /\ Len(s) <= Len(s)
  OBVIOUS
<1>2. /\ SubSeq(s, n + 1, Len(s)) \in Seq(S)
      /\ Len(SubSeq(s, n + 1, Len(s))) = Len(s) - (n + 1) + 1
      /\ \A i \in 1 .. Len(s) - (n + 1) + 1 : SubSeq(s, n + 1, Len(s))[i] = s[(n + 1) + i - 1]
  BY <1>1, Part
<1> DEFINE r == SubSeq(s, n + 1, Len(s))
<1> HIDE DEF r
<1>3. /\ r \in Seq(S) /\ Len(r) = Len(s) - n
      /\ \A i \in 1 .. Len(s) - n : r[i] = s[n + i]
  BY <1>1, <1>2 DEF r
<1> QED
  BY <1>3 DEF r, Erased

\* One field more: the time or the column of the field.
LEMMA FieldWrittenIs ==
  ASSUME WsInv, DataInv, wsPc = "write", field <= N
  PROVE  /\ field \in 1 .. N /\ line[1] \in Row /\ FieldWritten.raw = data.raw
         /\ FieldWritten.currentLine = data.currentLine
         /\ field = 1 => /\ FieldWritten.time = Append(data.time, line[1])
                         /\ FieldWritten.micros = Append(data.micros, line[1])
                         /\ FieldWritten.col = data.col
         /\ field # 1 => /\ FieldWritten.time = data.time
                         /\ FieldWritten.micros = data.micros
                         /\ PacketFields[field] \in Columns
                         /\ FieldWritten.col = [data.col EXCEPT ![PacketFields[field]] =
                                                  Append(@, line[1])]
         /\ FieldWritten \in DataType
<1> DEFINE d == FieldWritten
<1>1. d = WriteData(data, PacketFields[field], line[1])
  BY DEF FieldWritten
<1> HIDE DEF d
<1>2. field \in 1 .. N /\ line[1] \in Row
  BY FieldFacts DEF WsInv, LineInv
<1>3. data \in DataType
  BY DEF DataInv
<1>4. CASE field = 1
  <2>1. PacketFields[field] = "T"
    BY <1>4, FieldFacts
  <2>2. d = [data EXCEPT !.micros = Append(@, line[1]), !.time = Append(@, line[1])]
    BY <1>1, <2>1 DEF WriteData
  <2>3. Append(data.micros, line[1]) \in Seq(Row) /\ Append(data.time, line[1]) \in Seq(Row)
    BY <1>2, DataFacts
  <2>4. d \in DataType
    BY <1>3, <2>2, <2>3 DEF DataType
  <2> QED
    BY <1>2, <1>3, <1>4, <2>2, <2>4 DEF DataType, d
<1>5. CASE field # 1
  <2>1. PacketFields[field] \in Columns /\ PacketFields[field] # "T"
    BY <1>2, <1>5, FieldFacts
  <2> DEFINE c == PacketFields[field]
  <2>2. d = [data EXCEPT !.col[c] = Append(@, line[1])]
    BY <1>1, <2>1 DEF WriteData
  <2> HIDE DEF c
  <2>3. c \in Columns /\ Append(data.col[c], line[1]) \in Seq(Row)
    BY <1>2, <2>1, DataFacts DEF c
  <2>4. d = [data EXCEPT !.col = [data.col EXCEPT ![c] = Append(@, line[1])]]
    BY <2>2
  <2>5. [data.col EXCEPT ![c] = Append(@, line[1])] \in [Columns -> Seq(Row)]
    BY <2>3, DataFacts
  <2>6. d \in DataType
    BY <1>3, <2>4, <2>5 DEF DataType
  <2>7. /\ d.time = data.time /\ d.micros = data.micros /\ d.raw = data.raw
        /\ d.currentLine = data.currentLine
        /\ d.col = [data.col EXCEPT ![c] = Append(@, line[1])]
    BY <1>3, <2>4 DEF DataType
  <2> QED
    BY <1>2, <1>5, <2>3, <2>6, <2>7 DEF c, d
<1> QED
  BY <1>4, <1>5

LEMMA WriteFieldIs ==
  ASSUME WsInv, DataInv, WriteField
  PROVE  /\ field \in 1 .. N /\ field' = field + 1 /\ wsPc = "write" /\ wsPc' = "write"
         /\ line' = line /\ line[1] \in Row /\ data'.raw = data.raw
         /\ data'.currentLine = data.currentLine
         /\ field = 1 => /\ data'.time = Append(data.time, line[1])
                         /\ data'.micros = Append(data.micros, line[1])
                         /\ data'.col = data.col
         /\ field # 1 => /\ data'.time = data.time /\ data'.micros = data.micros
                         /\ PacketFields[field] \in Columns
                         /\ data'.col = [data.col EXCEPT ![PacketFields[field]] =
                                           Append(@, line[1])]
         /\ data' \in DataType
<1>1. /\ wsPc = "write" /\ field <= N /\ field' = field + 1 /\ line' = line /\ wsPc' = wsPc
      /\ data' = FieldWritten
  BY DEF WriteField, NextField, N
<1> QED
  BY <1>1, FieldWrittenIs, Zenon

LEMMA LineWrittenIs ==
  ASSUME WsInv, DataInv, wsPc = "write"
  PROVE  /\ LineWritten = [micros |-> data.micros, time |-> data.time, col |-> data.col,
                           raw |-> Append(data.raw, line[1]), currentLine |-> line]
         /\ LineWritten \in DataType
<1>1. line[1] \in Row /\ line \in Seq(Piece)
  BY DEF WsInv, LineInv, BufferInv
<1>2. Append(data.raw, line[1]) \in Seq(Row)
  BY <1>1, DataFacts
<1> DEFINE r == Append(data.raw, line[1])
           e == [data EXCEPT !.raw = r]
<1>3. LineWritten = [micros |-> data.micros, time |-> data.time, col |-> data.col,
                     raw |-> r, currentLine |-> line]
  <2>1. LineWritten = [e EXCEPT !.currentLine = line]
    BY DEF LineWritten
  <2>3. data = [micros |-> data.micros, time |-> data.time, col |-> data.col,
                raw |-> data.raw, currentLine |-> data.currentLine]
    BY DataFacts
  <2> HIDE DEF r
  <2>2. e = [micros |-> data.micros, time |-> data.time, col |-> data.col,
             raw |-> r, currentLine |-> data.currentLine]
    BY <2>3
  <2> HIDE DEF e
  <2> QED
    BY <2>1, <2>2
<1> QED
  BY <1>1, <1>2, <1>3, DataFacts DEF DataType

\* A push leaves a vector as it was or gives it a value.
Grown(d) ==
  /\ d \in DataType
  /\ \A k \in 1 .. Len(ClearOrder) :
       \/ Vector(d, ClearOrder[k]) = Vector(data, ClearOrder[k])
       \/ Len(Vector(d, ClearOrder[k])) >= 1

LEMMA GrownBy ==
  ASSUME DataInv, NEW d \in DataType,
         d.raw = data.raw \/ Len(d.raw) >= 1,
         d.time = data.time \/ Len(d.time) >= 1,
         d.micros = data.micros \/ Len(d.micros) >= 1,
         \A c \in Columns : d.col[c] = data.col[c] \/ Len(d.col[c]) >= 1
  PROVE  Grown(d)
<1>1. ASSUME NEW k \in 1 .. Len(ClearOrder)
      PROVE  \/ Vector(d, ClearOrder[k]) = Vector(data, ClearOrder[k])
             \/ Len(Vector(d, ClearOrder[k])) >= 1
  <2>1. k = 1 \/ k \in 2 .. M + 1 \/ k = M + 2 \/ k = M + 3
    BY OrderFacts
  <2>2. \/ ClearOrder[k] \in Columns
        \/ ClearOrder[k] \notin Columns /\ ClearOrder[k] \in {"raw", "time", "micros"}
    BY <2>1, OrderFacts
  <2>3. CASE ClearOrder[k] \in Columns
    BY <2>3 DEF Vector
  <2>4. CASE ClearOrder[k] \notin Columns /\ ClearOrder[k] = "raw"
    BY <2>4 DEF Vector
  <2>5. CASE ClearOrder[k] \notin Columns /\ ClearOrder[k] = "time"
    BY <2>5 DEF Vector
  <2>6. CASE ClearOrder[k] \notin Columns /\ ClearOrder[k] = "micros"
    BY <2>6 DEF Vector
  <2> QED
    BY <2>2, <2>3, <2>4, <2>5, <2>6
<1> QED
  BY <1>1 DEF Grown

LEMMA WrittenGrown ==
  ASSUME WsInv, DataInv, wsPc = "write"
  PROVE  (field <= N => Grown(FieldWritten)) /\ Grown(LineWritten)
<1>0. /\ line[1] \in Row /\ data.raw \in Seq(Row) /\ data.time \in Seq(Row)
      /\ data.micros \in Seq(Row) /\ data.col \in [Columns -> Seq(Row)]
      /\ \A c \in Columns : data.col[c] \in Seq(Row)
  BY DataFacts DEF WsInv, LineInv
<1>1. \A s \in Seq(Row) : Append(s, line[1]) \in Seq(Row) /\ Len(Append(s, line[1])) >= 1
  BY <1>0, AppendProperties, LenProperties
<1>2. Grown(LineWritten)
  <2>1. /\ LineWritten = [micros |-> data.micros, time |-> data.time, col |-> data.col,
                          raw |-> Append(data.raw, line[1]), currentLine |-> line]
        /\ LineWritten \in DataType
    BY LineWrittenIs
  <2> DEFINE d == LineWritten
  <2>2. /\ d.micros = data.micros /\ d.time = data.time /\ d.col = data.col
        /\ d.raw = Append(data.raw, line[1])
    BY <2>1
  <2>3. d \in DataType
    BY <2>1
  <2> HIDE DEF d
  <2>4. Grown(d)
    BY <1>0, <1>1, <2>2, <2>3, GrownBy
  <2> QED
    BY <2>4 DEF d
<1>3. ASSUME field <= N PROVE Grown(FieldWritten)
  <2> DEFINE d == FieldWritten
  <2>1. /\ d \in DataType /\ d.raw = data.raw
        /\ field = 1 => /\ d.time = Append(data.time, line[1])
                        /\ d.micros = Append(data.micros, line[1]) /\ d.col = data.col
        /\ field # 1 => /\ d.time = data.time /\ d.micros = data.micros
                        /\ PacketFields[field] \in Columns
                        /\ d.col = [data.col EXCEPT ![PacketFields[field]] = Append(@, line[1])]
    BY <1>3, FieldWrittenIs
  <2> HIDE DEF d
  <2>2. CASE field = 1
    <3>1. /\ Len(d.time) >= 1 /\ Len(d.micros) >= 1 /\ d.raw = data.raw
          /\ \A c \in Columns : d.col[c] = data.col[c]
      BY <1>0, <1>1, <2>1, <2>2
    <3>2. Grown(d)
      BY <2>1, <3>1, GrownBy
    <3> QED
      BY <3>2 DEF d
  <2>3. CASE field # 1
    <3>1. /\ d.time = data.time /\ d.micros = data.micros /\ d.raw = data.raw
      BY <2>1, <2>3
    <3>2. ASSUME NEW c \in Columns PROVE d.col[c] = data.col[c] \/ Len(d.col[c]) >= 1
      <4>1. CASE c = PacketFields[field]
        <5>1. d.col[c] = Append(data.col[c], line[1])
          BY <1>0, <2>1, <2>3, <4>1
        <5> QED
          BY <1>0, <1>1, <5>1
      <4>2. CASE c # PacketFields[field]
        BY <1>0, <2>1, <2>3, <4>2
      <4> QED
        BY <4>1, <4>2
    <3>3. Grown(d)
      BY <2>1, <3>1, <3>2, GrownBy
    <3> QED
      BY <3>3 DEF d
  <2> QED
    BY <2>2, <2>3
<1> QED
  BY <1>2, <1>3

\* Of a clear that met a push only the types are known.
LEMMA ClearMeetsPushIs ==
  ASSUME WsInv, DataInv, ClearInv, ClearMeetsPush
  PROVE  wsPc = "write" /\ data' \in DataType /\ erasePos' = erasePos /\ torn' = TRUE
<1>1. /\ wsPc = "write" /\ erasePos' = erasePos /\ torn' = TRUE
      /\ (field <= N /\ Torn(FieldWritten)) \/ Torn(LineWritten)
  BY DEF ClearMeetsPush, ClearGoesOn, N
<1>2. PICK d \in DataType : Grown(d) /\ Torn(d)
  BY <1>1, WrittenGrown DEF Grown
<1> DEFINE pushed == Vector(d, ClearNext)
<1>3. cleared + 1 \in 1 .. Len(ClearOrder)
  BY OrderFacts DEF ClearInv
<1>4. pushed \in Seq(Row) /\ Len(pushed) >= 1
  BY <1>2, <1>3, VectorType DEF Torn, ClearNext, Grown
<1>5. PICK left \in {pushed, SubSeq(pushed, 1, 1)} : data' = WithVector(d, ClearNext, left)
  BY <1>2 DEF Torn
<1>6. CASE left \in Seq(Row)
  BY <1>1, <1>3, <1>5, <1>6, WithVectorIs DEF ClearNext
<1>7. left \in Seq(Row)
  <2> HIDE DEF pushed
  <2>1. /\ 1 \in Int /\ 1 <= 1 /\ 1 - 1 <= 1 /\ 1 <= Len(pushed)
    BY <1>4
  <2>2. SubSeq(pushed, 1, 1) \in Seq(Row)
    BY <1>4, <2>1, Part
  <2> QED
    BY <1>4, <1>5, <2>2
<1> QED
  BY <1>6, <1>7

LEMMA DataStep == WsInv /\ DataInv /\ ClearInv /\ [Next]_vars => DataInv'
<1> SUFFICES ASSUME WsInv, DataInv, ClearInv, [Next]_vars PROVE DataInv'
  OBVIOUS
<1>1. CASE UNCHANGED <<data, erasePos>>
  BY <1>1 DEF DataInv
<1>2. CASE WriteField
  <2>1. erasePos' = erasePos
    BY <1>2 DEF WriteField, guiVars
  <2> QED
    BY <1>2, <2>1, WriteFieldIs DEF DataInv
<1>3. CASE WriteRawLine
  <2>1. wsPc = "write" /\ erasePos' = erasePos /\ data' = LineWritten
    BY <1>3 DEF WriteRawLine, guiVars
  <2> QED
    BY <2>1, LineWrittenIs DEF DataInv
<1>4. CASE ClearVector \/ ClearMeetsPush
  BY <1>4, ClearVectorIs, ClearMeetsPushIs DEF DataInv
<1>5. CASE data' = Loaded(data) /\ erasePos' = erasePos
  <2>1. data.currentLine \in Seq(Piece) /\ <<>> \in Seq(Row)
    BY DataFacts
  <2>2. Loaded(data) \in DataType
    BY <2>1, LoadedIs, FileRowsType DEF DataType
  <2> QED
    BY <1>5, <2>2 DEF DataInv
<1>6. CASE SyncDataVideo
  <2>1. data' = data /\ (erasePos' = erasePos \/ erasePos' = Position)
    BY <1>6 DEF SyncDataVideo
  <2>2. Position \in Nat
    <3> DEFINE n == Len(data.micros)
               times == [i \in 1 .. n |-> TimeNoNormal(data.micros[i])]
    <3>1. n \in Nat
      BY DataFacts
    <3>2. Len(times) = n
      <4> HIDE DEF n
      <4> QED
        BY <3>1
    <3>3. Position = LowerBound(times, MicrosSinceMidnight(creation))
      BY DEF Position
    <3> HIDE DEF n, times
    <3> QED
      BY <3>1, <3>2, <3>3, LowerBoundFacts
  <2> QED
    BY <2>1, <2>2 DEF DataInv
<1>7. CASE DeleteExtra
  <2>1. data' = Trimmed(data, erasePos) /\ erasePos' = 0
    BY <1>7 DEF DeleteExtra
  <2>2. CASE data' = data
    BY <2>1, <2>2 DEF DataInv
  <2>3. CASE Trims(erasePos)
    <3>1. erasePos \in Nat /\ Erased(data.time, erasePos) \in Seq(Row)
      BY <2>3, DataFacts, ErasedFacts DEF Trims, DataInv
    <3>2. [c \in Columns |-> Erased(data.col[c], erasePos)] \in [Columns -> Seq(Row)]
      BY <2>3, DataFacts, ErasedFacts DEF Trims, DataInv
    <3>3. data' \in DataType
      BY <2>3, <3>1, <3>2, DataFacts DEF Trims, DataType
    <3> QED
      BY <2>1, <3>3 DEF DataInv
  <2> QED
    BY <2>1, <2>2, <2>3, TrimmedIs
<1> QED
  BY <1>1, <1>2, <1>3, <1>4, <1>5, <1>6, <1>7, DataSteps

----------------------------------------------------------------------------
(* The GUI's own members                                                    *)

FlagInv ==
  /\ isLogging \in BOOLEAN /\ creation \in TimeOfDay
  /\ txtPath \in BOOLEAN /\ txtLoaded \in BOOLEAN /\ selectedTxt \in BOOLEAN
  /\ dialogRunning \in BOOLEAN /\ resumed \in BOOLEAN

\* What is typed as HH:MM:SS is a time of day.
LEMMA ReadableIsATime ==
  ASSUME NEW text, Readable(text)
  PROVE  FromString(text) \in TimeOfDay
<1>1. 0 \in 0 .. MillisPerSecond - 1 /\ 0 \in 0 .. MicrosPerMilli - 1
  BY RadixAssumption
<1> QED
  BY <1>1 DEF Readable, FromString, TimeOfDay

LEMMA MidnightIsATime == Midnight \in TimeOfDay
<1>1. /\ 0 \in 0 .. HoursPerDay - 1 /\ 0 \in 0 .. MinutesPerHour - 1
      /\ 0 \in 0 .. SecondsPerMinute - 1
  BY RadixAssumption
<1>2. Readable(<<0, 0, 0>>)
  BY <1>1 DEF Readable
<1> QED
  BY <1>2, ReadableIsATime DEF Midnight

LEMMA FlagSteps ==
  ASSUME [Next]_vars
  PROVE  \/ UNCHANGED <<isLogging, gui, creation, cleared, txtVars, history>>
         \/ ToggleLogging \/ TakeSelectedTxt \/ PressOpenTextFile \/ PressSync
         \/ SyncDataVideo \/ DeleteExtra \/ LeaveView
         \/ PressClearData \/ ClearVector \/ ClearMeetsPush
         \/ \E chosen \in BOOLEAN : DialogReturns(chosen)
<1>1. CASE WebSocketStep
  BY <1>1 DEF WebSocketStep, ReceivePacket, ReceiveResponse, Receive, LosePacket, TakeLine,
              LinesDone, LockAndTest, WriteField, WriteRawLine, guiVars
<1>2. CASE GuiStep
  BY <1>2 DEF GuiStep, PressClearData, ClearVector
<1>3. CASE UNCHANGED vars
  BY <1>3 DEF vars, txtVars, history
<1> QED
  BY <1>1, <1>2, <1>3 DEF Next

\* The four steps of the menu's button change no other member of the GUI.
LEMMA ClearSteps ==
  ASSUME PressClearData \/ ClearVector \/ ClearMeetsPush
  PROVE  UNCHANGED <<isLogging, creation, txtVars, resumed>>
BY DEF PressClearData, ClearVector, ClearMeetsPush, ClearGoesOn, guiVars, history

LEMMA ClearStep == ClearInv /\ [Next]_vars => ClearInv'
<1> SUFFICES ASSUME ClearInv, [Next]_vars PROVE ClearInv'
  OBVIOUS
<1>0. Len(ClearOrder) \in Nat /\ Len(ClearOrder) > 0 /\ Len(ClearOrder)' = Len(ClearOrder)
  BY OrderFacts
<1>1. CASE UNCHANGED <<gui, cleared, torn>>
  BY <1>0, <1>1 DEF ClearInv
<1>2. CASE /\ gui \in {"idle", "sync", "trim"} /\ gui' \in {"idle", "sync", "trim"}
           /\ cleared' = cleared /\ torn' \in BOOLEAN
  BY <1>0, <1>2 DEF ClearInv
<1>3. CASE gui' = "clear" /\ UNCHANGED <<cleared, torn>>
  BY <1>0, <1>3 DEF ClearInv
<1>4. CASE ClearGoesOn /\ torn' \in BOOLEAN
  <2>1. CASE cleared + 1 < Len(ClearOrder)
    <3>1. cleared' = cleared + 1 /\ gui' = "clear" /\ cleared + 1 \in 0 .. Len(ClearOrder) - 1
      BY <1>0, <1>4, <2>1 DEF ClearInv, ClearGoesOn
    <3> QED
      BY <1>0, <1>4, <3>1 DEF ClearInv
  <2>2. CASE ~(cleared + 1 < Len(ClearOrder))
    <3>1. cleared' = 0 /\ gui' = "idle" /\ 0 \in 0 .. Len(ClearOrder) - 1
      BY <1>0, <1>4, <2>2 DEF ClearGoesOn
    <3> QED
      BY <1>0, <1>4, <3>1 DEF ClearInv
  <2> QED
    BY <2>1, <2>2
<1>5. CASE ToggleLogging \/ PressOpenTextFile \/ LeaveView \/ \E chosen \in BOOLEAN : DialogReturns(chosen)
  <2>1. UNCHANGED <<gui, cleared, torn>>
    BY <1>5 DEF ToggleLogging, PressOpenTextFile, LeaveView, DialogReturns, guiVars, history
  <2> QED
    BY <1>1, <2>1
<1>6. CASE TakeSelectedTxt \/ PressSync
  <2>1. /\ gui = "idle" /\ gui' \in {"idle", "sync"} /\ cleared' = cleared
        /\ torn' \in BOOLEAN
    BY <1>6 DEF TakeSelectedTxt, PressSync, LoadData, guiVars, ClearInv
  <2> QED
    BY <1>2, <2>1
<1>7. CASE SyncDataVideo \/ DeleteExtra
  <2>1. /\ gui \in {"sync", "trim"} /\ gui' \in {"idle", "trim"}
        /\ cleared' = cleared /\ torn' \in BOOLEAN
    BY <1>7 DEF SyncDataVideo, DeleteExtra, history, ClearInv
  <2> QED
    BY <1>2, <2>1
<1>8. CASE PressClearData
  <2>1. gui' = "clear" /\ UNCHANGED <<cleared, torn>>
    BY <1>8 DEF PressClearData, guiVars, history
  <2> QED
    BY <1>3, <2>1
<1>9. CASE ClearVector \/ ClearMeetsPush
  <2>1. ClearGoesOn /\ torn' \in BOOLEAN
    BY <1>9 DEF ClearVector, ClearMeetsPush, ClearInv
  <2> QED
    BY <1>4, <2>1
<1> QED
  BY <1>1, <1>5, <1>6, <1>7, <1>8, <1>9, FlagSteps DEF history

LEMMA FlagStep == FlagInv /\ [Next]_vars => FlagInv'
<1> SUFFICES ASSUME FlagInv, [Next]_vars PROVE FlagInv'
  OBVIOUS
<1>1. CASE UNCHANGED <<isLogging, creation, txtVars, resumed>>
  BY <1>1 DEF FlagInv, txtVars
<1>2. CASE ToggleLogging
  <2>1. (~isLogging) \in BOOLEAN /\ (resumed \/ ~isLogging) \in BOOLEAN
    OBVIOUS
  <2> QED
    BY <1>2, <2>1 DEF FlagInv, ToggleLogging, guiVars, txtVars
<1>3. CASE TakeSelectedTxt
  BY <1>3 DEF FlagInv, TakeSelectedTxt, guiVars
<1>4. CASE PressOpenTextFile
  BY <1>4 DEF FlagInv, PressOpenTextFile, guiVars, history
<1>5. CASE PressSync
  <2>1. /\ UNCHANGED <<isLogging, txtVars, resumed>>
        /\ creation' = creation \/ \E text : Readable(text) /\ creation' = FromString(text)
    BY <1>5 DEF PressSync
  <2> QED
    BY <2>1, ReadableIsATime DEF FlagInv, txtVars
<1>6. CASE SyncDataVideo
  BY <1>6, MidnightIsATime DEF FlagInv, SyncDataVideo, txtVars, history
<1>7. CASE DeleteExtra
  BY <1>7 DEF FlagInv, DeleteExtra, txtVars, history
<1>8. CASE LeaveView
  BY <1>8 DEF FlagInv, LeaveView, guiVars, history
<1>9. CASE \E chosen \in BOOLEAN : DialogReturns(chosen)
  <2>1. PICK chosen \in BOOLEAN : DialogReturns(chosen)
    BY <1>9
  <2>2. (IF chosen THEN FALSE ELSE resumed \/ selectedTxt) \in BOOLEAN
    OBVIOUS
  <2> QED
    BY <2>1, <2>2 DEF FlagInv, DialogReturns, guiVars
<1> QED
  BY <1>1, <1>2, <1>3, <1>4, <1>5, <1>6, <1>7, <1>8, <1>9, FlagSteps, ClearSteps DEF history

----------------------------------------------------------------------------
(* Columns that agree from the newest row backwards                         *)

\* The i-th value of a column from its end, when a value is put there and
\* when the column is cut at the front.
LEMMA AppendFromEnd ==
  ASSUME NEW S, NEW s \in Seq(S), NEW x \in S
  PROVE  /\ Append(s, x) \in Seq(S) /\ Len(Append(s, x)) = Len(s) + 1
         /\ Append(s, x)[Len(s) + 1] = x
         /\ \A i \in 1 .. Len(s) : Append(s, x)[Len(s) + 1 - i] = s[Len(s) - (i - 1)]
<1>1. /\ Append(s, x) \in Seq(S) /\ Len(Append(s, x)) = Len(s) + 1
      /\ Append(s, x)[Len(s) + 1] = x
      /\ \A i \in 1 .. Len(s) : Append(s, x)[i] = s[i]
  BY AppendProperties
<1> DEFINE a == Append(s, x)
<1> HIDE DEF a
<1>2. \A i \in 1 .. Len(s) : a[i] = s[i]
  BY <1>1 DEF a
<1>3. ASSUME NEW i \in 1 .. Len(s) PROVE a[Len(s) + 1 - i] = s[Len(s) - (i - 1)]
  <2>1. Len(s) + 1 - i \in 1 .. Len(s) /\ Len(s) + 1 - i = Len(s) - (i - 1)
    OBVIOUS
  <2> QED
    BY <1>2, <2>1
<1> QED
  BY <1>1, <1>3 DEF a

LEMMA ErasedFromEnd ==
  ASSUME NEW S, NEW s \in Seq(S), NEW n \in Nat, n <= Len(s)
  PROVE  \A i \in 0 .. Len(s) - n - 1 : Erased(s, n)[Len(s) - n - i] = s[Len(s) - i]
<1> DEFINE r == Erased(s, n)
<1>1. \A i \in 1 .. Len(s) - n : r[i] = s[n + i]
  BY ErasedFacts
<1> HIDE DEF r
<1>2. ASSUME NEW i \in 0 .. Len(s) - n - 1 PROVE r[Len(s) - n - i] = s[Len(s) - i]
  <2>1. Len(s) - n - i \in 1 .. Len(s) - n /\ n + (Len(s) - n - i) = Len(s) - i
    OBVIOUS
  <2> QED
    BY <1>1, <2>1
<1> QED
  BY <1>2 DEF r

LEMMA AppendedAgree ==
  ASSUME NEW S, NEW s \in Seq(S), NEW t \in Seq(S), NEW x \in S, SameTail(s, t)
  PROVE  /\ SameTail(Append(s, x), Append(t, x))
         /\ Len(s) <= Len(t) => Len(Append(s, x)) <= Len(Append(t, x))
<1> DEFINE a == Append(s, x)
           b == Append(t, x)
<1>1. /\ Len(a) = Len(s) + 1 /\ a[Len(s) + 1] = x
      /\ \A i \in 1 .. Len(s) : a[Len(s) + 1 - i] = s[Len(s) - (i - 1)]
      /\ Len(b) = Len(t) + 1 /\ b[Len(t) + 1] = x
      /\ \A i \in 1 .. Len(t) : b[Len(t) + 1 - i] = t[Len(t) - (i - 1)]
  BY AppendFromEnd
<1> HIDE DEF a, b
<1>2. Len(s) \in Nat /\ Len(t) \in Nat
  OBVIOUS
<1>3. ASSUME NEW i \in 0 .. Len(a) - 1, i < Len(b) PROVE a[Len(a) - i] = b[Len(b) - i]
  <2>1. CASE i = 0
    BY <1>1, <1>2, <2>1
  <2>2. CASE i # 0
    <3>1. i \in 1 .. Len(s) /\ i \in 1 .. Len(t) /\ i - 1 \in 0 .. Len(s) - 1 /\ i - 1 < Len(t)
      BY <1>1, <1>2, <1>3, <2>2
    <3>2. s[Len(s) - (i - 1)] = t[Len(t) - (i - 1)]
      BY <3>1 DEF SameTail
    <3> QED
      BY <1>1, <3>1, <3>2
  <2> QED
    BY <2>1, <2>2
<1>4. Len(s) <= Len(t) => Len(a) <= Len(b)
  BY <1>1, <1>2
<1> QED
  BY <1>3, <1>4 DEF SameTail, a, b

LEMMA ErasedAgree ==
  ASSUME NEW S, NEW s \in Seq(S), NEW t \in Seq(S), NEW n \in Nat,
         n <= Len(s), n <= Len(t), SameTail(s, t)
  PROVE  /\ SameTail(Erased(s, n), Erased(t, n))
         /\ Len(s) <= Len(t) => Len(Erased(s, n)) <= Len(Erased(t, n))
<1> DEFINE a == Erased(s, n)
           b == Erased(t, n)
<1>1. /\ Len(a) = Len(s) - n /\ Len(b) = Len(t) - n
      /\ \A i \in 0 .. Len(s) - n - 1 : a[Len(s) - n - i] = s[Len(s) - i]
      /\ \A i \in 0 .. Len(t) - n - 1 : b[Len(t) - n - i] = t[Len(t) - i]
  BY ErasedFacts, ErasedFromEnd
<1> HIDE DEF a, b
<1>2. Len(s) \in Nat /\ Len(t) \in Nat
  OBVIOUS
<1>3. ASSUME NEW i \in 0 .. Len(a) - 1, i < Len(b) PROVE a[Len(a) - i] = b[Len(b) - i]
  <2>1. /\ i \in 0 .. Len(s) - n - 1 /\ i \in 0 .. Len(t) - n - 1
        /\ i \in 0 .. Len(s) - 1 /\ i < Len(t)
    BY <1>1, <1>2, <1>3
  <2>2. s[Len(s) - i] = t[Len(t) - i]
    BY <2>1 DEF SameTail
  <2> QED
    BY <1>1, <2>1, <2>2
<1>4. Len(s) <= Len(t) => Len(a) <= Len(b)
  BY <1>1, <1>2
<1> QED
  BY <1>3, <1>4 DEF SameTail, a, b

\* A column agrees with itself and with an emptied one; of a column that was
\* emptied before its value came there is that value.
LEMMA SelfAgrees ==
  ASSUME NEW S, NEW s \in Seq(S)
  PROVE  SameTail(s, s) /\ Len(s) <= Len(s)
BY DEF SameTail

LEMMA EmptiedAgree ==
  ASSUME NEW S, NEW s \in Seq(S)
  PROVE  SameTail(s, <<>>) /\ SameTail(<<>>, s) /\ Len(<<>>) <= Len(s)
<1>1. Len(<<>>) = 0 /\ Len(s) \in Nat
  OBVIOUS
<1> QED
  BY <1>1 DEF SameTail

LEMMA LastAgrees ==
  ASSUME NEW S, NEW s \in Seq(S), NEW t \in Seq(S), NEW x \in S, SameTail(s, Append(t, x))
  PROVE  SameTail(s, Append(<<>>, x))
<1> DEFINE a == Append(t, x)
           b == Append(<<>>, x)
<1>1. /\ Len(a) = Len(t) + 1 /\ a[Len(t) + 1] = x /\ Len(b) = 1 /\ b[1] = x
      /\ Len(s) \in Nat /\ Len(t) \in Nat
  BY AppendProperties
<1>0. SameTail(s, a)
  OBVIOUS
<1> HIDE DEF a, b
<1>2. ASSUME NEW i \in 0 .. Len(s) - 1, i < Len(b) PROVE s[Len(s) - i] = b[Len(b) - i]
  <2>1. i = 0 /\ i < Len(a) /\ Len(a) - i = Len(t) + 1 /\ Len(b) - i = 1
    BY <1>1, <1>2
  <2>2. s[Len(s) - i] = a[Len(a) - i]
    BY <1>0, <2>1 DEF SameTail
  <2> QED
    BY <1>1, <2>1, <2>2
<1>3. SameTail(s, b)
  BY <1>2 DEF SameTail
<1> QED
  BY <1>3 DEF b

----------------------------------------------------------------------------
(* The columns of a packet, the one being written counted as written        *)

Owed(i) == wsPc = "write" /\ 1 < field /\ field <= i

ColumnThen(i) ==
  IF Owed(i) THEN Append(data.col[PacketFields[i]], line[1]) ELSE data.col[PacketFields[i]]

\* The clear has still to come to the times, which may be more than the values.
TimePending == gui = "clear" /\ cleared < M + 2

TailInv ==
  ~torn => \A i \in 2 .. N : /\ SameTail(data.time, ColumnThen(i))
                             /\ TimePending \/ Len(data.time) <= Len(ColumnThen(i))

\* Outside a packet nothing is owed.
LEMMA OwedUnlessWriting ==
  ASSUME wsPc # "write", NEW i
  PROVE  ColumnThen(i) = data.col[PacketFields[i]]
BY DEF ColumnThen, Owed

LEMMA PendingSteps ==
  ASSUME ClearInv, [Next]_vars
  PROVE  (TimePending => TimePending') \/ ClearVector \/ ClearMeetsPush
<1>0. ~(gui = "clear") => ~TimePending
  BY DEF TimePending
<1>1. CASE UNCHANGED <<gui, cleared>> \/ ~(gui = "clear")
  BY <1>0, <1>1 DEF TimePending, M
<1> QED
  BY <1>1, FlagSteps DEF history, ToggleLogging, TakeSelectedTxt, PressOpenTextFile, PressSync,
                         SyncDataVideo, DeleteExtra, LeaveView, DialogReturns, PressClearData,
                         guiVars

LEMMA TailStep == WsInv /\ DataInv /\ ClearInv /\ TailInv /\ [Next]_vars => TailInv'
<1> SUFFICES ASSUME WsInv, DataInv, ClearInv, TailInv, [Next]_vars, ~torn', NEW i \in 2 .. N
             PROVE  /\ SameTail(data'.time, ColumnThen(i)')
                    /\ TimePending' \/ Len(data'.time) <= Len(ColumnThen(i)')
  BY DEF TailInv
<1> DEFINE c    == PacketFields[i]
           Kept == /\ SameTail(data'.time, ColumnThen(i)')
                   /\ Len(data.time) <= Len(ColumnThen(i)) => Len(data'.time) <= Len(ColumnThen(i)')
<1>a. /\ c \in Columns /\ c' = c /\ c \in SentColumns /\ N \in Nat
      /\ ~torn => /\ SameTail(data.time, ColumnThen(i))
                  /\ TimePending \/ Len(data.time) <= Len(ColumnThen(i))
  BY FieldFacts DEF TailInv, SentColumns, N
<1> HIDE DEF c
<1>b. ASSUME ~torn, Kept, TimePending => TimePending'
      PROVE  /\ SameTail(data'.time, ColumnThen(i)')
             /\ TimePending' \/ Len(data'.time) <= Len(ColumnThen(i)')
  BY <1>a, <1>b
<1>c. (TimePending => TimePending') \/ ClearVector \/ ClearMeetsPush
  BY PendingSteps
<1> HIDE DEF TailInv
<1>1. ASSUME /\ UNCHANGED <<data, erasePos, torn>>
             /\ UNCHANGED wsVars \/ (wsPc # "write" /\ (wsPc' # "write" \/ LockAndTest))
      PROVE  ~torn /\ Kept
  <2>1. ColumnThen(i)' = ColumnThen(i)
    <3>1. CASE UNCHANGED wsVars
      BY <1>1, <3>1 DEF ColumnThen, Owed, wsVars
    <3>2. CASE wsPc # "write" /\ (wsPc' # "write" \/ LockAndTest)
      <4>1. ~Owed(i) /\ ~Owed(i)'
        BY <3>2 DEF Owed, LockAndTest
      <4> QED
        BY <1>1, <4>1 DEF ColumnThen
    <3> QED
      BY <1>1, <3>1, <3>2
  <2>2. data'.time = data.time /\ ~torn
    BY <1>1
  <2> QED
    BY <1>a, <2>1, <2>2
<1>2. ASSUME WriteField PROVE ~torn /\ Kept
  <2>0. /\ field \in 1 .. N /\ field' = field + 1 /\ wsPc = "write" /\ wsPc' = "write"
        /\ line' = line /\ line[1] \in Row
        /\ field = 1 => data'.time = Append(data.time, line[1]) /\ data'.col = data.col
        /\ field # 1 => /\ data'.time = data.time
                        /\ data'.col = [data.col EXCEPT ![PacketFields[field]] =
                                          Append(@, line[1])]
    BY <1>2, WriteFieldIs
  <2>t. ~torn
    BY <1>2 DEF WriteField, history
  <2>s. SameTail(data.time, ColumnThen(i))
    BY <1>a, <2>t
  <2>1. CASE field = 1
    <3>1. ~Owed(i) /\ Owed(i)'
      BY <2>0, <2>1 DEF Owed
    <3>2. ColumnThen(i) = data.col[c] /\ ColumnThen(i)' = Append(data.col[c], line[1])
      BY <2>0, <2>1, <3>1 DEF ColumnThen, c
    <3>3. data.time \in Seq(Row) /\ data.col[c] \in Seq(Row)
      BY <1>a, DataFacts
    <3>4. /\ SameTail(Append(data.time, line[1]), Append(data.col[c], line[1]))
          /\ Len(data.time) <= Len(data.col[c])
             => Len(Append(data.time, line[1])) <= Len(Append(data.col[c], line[1]))
      BY <2>0, <2>s, <3>2, <3>3, AppendedAgree
    <3> QED
      BY <2>0, <2>1, <2>t, <3>2, <3>4
  <2>2. CASE field # 1
    <3>1. ColumnThen(i)' = ColumnThen(i)
      <4>1. CASE field # i
        <5>1. PacketFields[field] # c
          BY <2>0, <4>1, FieldFacts DEF c
        <5>2. data'.col[c] = data.col[c]
          BY <1>a, <2>0, <2>2, <5>1, DataFacts
        <5>3. Owed(i)' <=> Owed(i)
          BY <1>a, <2>0, <2>2, <4>1 DEF Owed
        <5> QED
          BY <2>0, <5>2, <5>3 DEF ColumnThen, c
      <4>2. CASE field = i
        <5>1. Owed(i) /\ ~Owed(i)'
          BY <2>0, <4>2 DEF Owed
        <5>2. data'.col[c] = Append(data.col[c], line[1])
          BY <1>a, <2>0, <2>2, <4>2, DataFacts DEF c
        <5> QED
          BY <2>0, <5>1, <5>2 DEF ColumnThen, c
      <4> QED
        BY <4>1, <4>2
    <3> QED
      BY <2>0, <2>2, <2>s, <2>t, <3>1
  <2> QED
    BY <2>1, <2>2
<1>3. ASSUME WriteRawLine PROVE ~torn /\ Kept
  <2>1. wsPc = "write" /\ wsPc' = "lines" /\ field > N /\ data' = LineWritten /\ torn' = torn
    BY <1>3 DEF WriteRawLine, NextLine, N, history
  <2>2. data'.time = data.time /\ data'.col = data.col
    BY <2>1, LineWrittenIs
  <2>3. ~Owed(i) /\ ~Owed(i)'
    BY <1>a, <2>1 DEF Owed, WsInv, LineInv
  <2>4. ColumnThen(i)' = ColumnThen(i)
    BY <2>2, <2>3 DEF ColumnThen
  <2> QED
    BY <1>a, <2>1, <2>2, <2>4
<1>4. CASE ClearVector
  <2>0. /\ UNCHANGED wsVars /\ torn' = torn /\ data' \in DataType
        /\ \/ /\ cleared = 0 /\ data'.raw = <<>>
              /\ data'.time = data.time /\ data'.col = data.col
           \/ /\ cleared \in 1 .. M /\ data'.raw = data.raw /\ data'.time = data.time
              /\ \E v \in Columns : data'.col = [data.col EXCEPT ![v] = <<>>]
           \/ /\ cleared = M + 1 /\ data'.raw = data.raw
              /\ data'.time = <<>> /\ data'.col = data.col
           \/ /\ cleared = M + 2 /\ data'.raw = data.raw
              /\ data'.time = data.time /\ data'.col = data.col
    BY <1>4, ClearVectorIs
  <2>1. /\ SameTail(data.time, ColumnThen(i)) /\ Owed(i)' = Owed(i) /\ line' = line
        /\ TimePending \/ Len(data.time) <= Len(ColumnThen(i))
    BY <1>a, <2>0 DEF wsVars, Owed
  <2>2. data.time \in Seq(Row) /\ data.col[c] \in Seq(Row) /\ M \in Nat
    BY <1>a, DataFacts, OrderFacts
  <2>3. gui = "clear" /\ (cleared < M + 1 => TimePending')
    <3>1. gui = "clear" /\ ClearGoesOn /\ Len(ClearOrder) = M + 3
      BY <1>4, OrderFacts DEF ClearVector
    <3>2. cleared \in Int
      BY <2>0, <2>2
    <3>3. ASSUME cleared < M + 1 PROVE TimePending'
      <4>1. cleared' = cleared + 1 /\ gui' = "clear"
        BY <2>2, <3>1, <3>2, <3>3 DEF ClearGoesOn
      <4> QED
        BY <2>2, <3>2, <3>3, <4>1 DEF TimePending, M
    <3> QED
      BY <3>1, <3>3
  <2>4. ColumnThen(i) \in Seq(Row)
    <3>1. Owed(i) => line[1] \in Row
      BY DEF Owed, WsInv, LineInv
    <3> QED
      BY <2>2, <3>1 DEF ColumnThen, c
  <2>5. CASE data'.col[c] = data.col[c]
    <3>1. ColumnThen(i)' = ColumnThen(i)
      BY <2>1, <2>5 DEF ColumnThen, c
    <3>2. CASE data'.time = <<>>
      BY <2>4, <3>1, <3>2, EmptiedAgree
    <3>3. CASE data'.time = data.time /\ cleared # M + 1
      <4>1. TimePending' \/ ~TimePending
        <5>1. CASE cleared < M + 1
          BY <2>3, <5>1
        <5>2. CASE cleared = M + 2
          BY <2>2, <5>2 DEF TimePending
        <5> QED
          BY <2>0, <2>2, <3>3, <5>1, <5>2
      <4> QED
        BY <2>1, <3>1, <3>3, <4>1
    <3>4. CASE data'.time = data.time /\ data'.time # <<>> /\ cleared = M + 1
      BY <2>0, <2>2, <3>4
    <3> QED
      BY <2>0, <3>2, <3>3, <3>4
  <2>6. CASE data'.col[c] # data.col[c]
    <3>1. cleared \in 1 .. M /\ data'.time = data.time
      BY <2>0, <2>6
    <3>2. PICK v \in Columns : data'.col = [data.col EXCEPT ![v] = <<>>]
      BY <2>0, <2>2, <2>6
    <3>3. data'.col[c] = <<>>
      BY <1>a, <2>6, <3>2, DataFacts
    <3>4. TimePending'
      BY <2>2, <2>3, <3>1
    <3>5. CASE Owed(i)
      <4>1. line[1] \in Row /\ ColumnThen(i) = Append(data.col[c], line[1])
        BY <3>5 DEF Owed, WsInv, LineInv, ColumnThen, c
      <4>2. ColumnThen(i)' = Append(<<>>, line[1])
        BY <2>1, <3>3, <3>5 DEF ColumnThen, c
      <4>3. SameTail(data.time, Append(<<>>, line[1]))
        BY <2>1, <2>2, <4>1, LastAgrees
      <4> QED
        BY <3>1, <3>4, <4>2, <4>3
    <3>6. CASE ~Owed(i)
      <4>1. ColumnThen(i)' = <<>>
        BY <2>1, <3>3, <3>6 DEF ColumnThen, c
      <4> QED
        BY <2>2, <3>1, <3>4, <4>1, EmptiedAgree
    <3> QED
      BY <3>5, <3>6
  <2> QED
    BY <2>5, <2>6
<1>5. CASE DataMutexFree /\ data' = Loaded(data) /\ UNCHANGED <<wsPc, erasePos>>
  <2>1. wsPc' # "write" /\ data'.time = FileRows /\ data'.col[c] = FileRows
    BY <1>5, <1>a, LoadedIs DEF DataMutexFree
  <2>2. ColumnThen(i)' = data'.col[c]
    BY <2>1 DEF ColumnThen, Owed, c
  <2> QED
    BY <2>1, <2>2, FileRowsType, SelfAgrees
<1>6. ASSUME SyncDataVideo PROVE ~torn /\ Kept
  <2>1. data' = data /\ UNCHANGED wsVars /\ torn' = torn
    BY <1>6 DEF SyncDataVideo, history
  <2>2. ColumnThen(i)' = ColumnThen(i)
    BY <2>1 DEF ColumnThen, Owed, wsVars
  <2> QED
    BY <1>a, <2>1, <2>2
<1>7. ASSUME DeleteExtra PROVE ~torn /\ Kept
  <2>1. /\ wsPc # "write" /\ UNCHANGED wsVars /\ data' = Trimmed(data, erasePos)
        /\ erasePos \in Nat /\ torn' = torn
    BY <1>7 DEF DeleteExtra, DataMutexFree, DataInv, history
  <2>2. ColumnThen(i) = data.col[c] /\ ColumnThen(i)' = data'.col[c]
    BY <2>1 DEF ColumnThen, Owed, wsVars, c
  <2>3. CASE data' = data
    BY <1>a, <2>1, <2>2, <2>3
  <2>4. CASE Trims(erasePos)
    <3>1. /\ data'.time = Erased(data.time, erasePos)
          /\ data'.col[c] = Erased(data.col[c], erasePos)
          /\ erasePos <= Len(data.time) /\ erasePos <= Len(data.col[c])
      BY <1>a, <2>4 DEF Trims
    <3>2. data.time \in Seq(Row) /\ data.col[c] \in Seq(Row)
      BY <1>a, DataFacts
    <3>3. /\ SameTail(Erased(data.time, erasePos), Erased(data.col[c], erasePos))
          /\ Len(data.time) <= Len(data.col[c])
             => Len(Erased(data.time, erasePos)) <= Len(Erased(data.col[c], erasePos))
      BY <1>a, <2>1, <2>2, <3>1, <3>2, ErasedAgree
    <3> QED
      BY <2>1, <2>2, <3>1, <3>3
  <2> QED
    BY <2>1, <2>3, <2>4, TrimmedIs
<1>8. ~ClearMeetsPush
  BY DEF ClearMeetsPush
<1> HIDE DEF Kept
<1> QED
  BY <1>b, <1>c, <1>1, <1>2, <1>3, <1>4, <1>5, <1>6, <1>7, <1>8, DataSteps, Zenon

----------------------------------------------------------------------------
(* The raw lines, the one being written counted as written                  *)

RawThen == IF wsPc = "write" /\ field > 1 THEN Append(data.raw, line[1]) ELSE data.raw

RawAgree(r, t) ==
  \A i \in 0 .. Len(r) - 1 :
    i < Len(t) /\ t[Len(t) - i][1] = "live" => r[Len(r) - i] = t[Len(t) - i]

RawInv == ~torn => RawAgree(RawThen, data.time)

LEMMA RawAppended ==
  ASSUME NEW S, NEW r \in Seq(S), NEW t \in Seq(S), NEW x \in S, RawAgree(r, t)
  PROVE  RawAgree(Append(r, x), Append(t, x))
<1> DEFINE a == Append(r, x)
           b == Append(t, x)
<1>1. /\ Len(a) = Len(r) + 1 /\ a[Len(r) + 1] = x
      /\ \A i \in 1 .. Len(r) : a[Len(r) + 1 - i] = r[Len(r) - (i - 1)]
      /\ Len(b) = Len(t) + 1 /\ b[Len(t) + 1] = x
      /\ \A i \in 1 .. Len(t) : b[Len(t) + 1 - i] = t[Len(t) - (i - 1)]
  BY AppendFromEnd
<1> HIDE DEF a, b
<1>2. Len(r) \in Nat /\ Len(t) \in Nat
  OBVIOUS
<1>3. ASSUME NEW i \in 0 .. Len(a) - 1, i < Len(b), b[Len(b) - i][1] = "live"
      PROVE  a[Len(a) - i] = b[Len(b) - i]
  <2>1. CASE i = 0
    BY <1>1, <1>2, <2>1
  <2>2. CASE i # 0
    <3>1. i \in 1 .. Len(r) /\ i \in 1 .. Len(t) /\ i - 1 \in 0 .. Len(r) - 1 /\ i - 1 < Len(t)
      BY <1>1, <1>2, <1>3, <2>2
    <3>2. b[Len(b) - i] = t[Len(t) - (i - 1)] /\ a[Len(a) - i] = r[Len(r) - (i - 1)]
      BY <1>1, <3>1
    <3>3. r[Len(r) - (i - 1)] = t[Len(t) - (i - 1)]
      BY <1>3, <3>1, <3>2 DEF RawAgree
    <3> QED
      BY <3>2, <3>3
  <2> QED
    BY <2>1, <2>2
<1> QED
  BY <1>3 DEF RawAgree, a, b

LEMMA RawErased ==
  ASSUME NEW S, NEW r, NEW t \in Seq(S), NEW n \in Nat, n <= Len(t), RawAgree(r, t)
  PROVE  RawAgree(r, Erased(t, n))
<1> DEFINE b == Erased(t, n)
<1>1. /\ Len(b) = Len(t) - n
      /\ \A i \in 0 .. Len(t) - n - 1 : b[Len(t) - n - i] = t[Len(t) - i]
  BY ErasedFacts, ErasedFromEnd
<1> HIDE DEF b
<1>2. Len(t) \in Nat
  OBVIOUS
<1>3. ASSUME NEW i \in 0 .. Len(r) - 1, i < Len(b), b[Len(b) - i][1] = "live"
      PROVE  r[Len(r) - i] = b[Len(b) - i]
  <2>1. i \in 0 .. Len(t) - n - 1 /\ i < Len(t)
    BY <1>1, <1>2, <1>3
  <2>2. b[Len(b) - i] = t[Len(t) - i]
    BY <1>1, <2>1
  <2> QED
    BY <1>3, <2>1, <2>2 DEF RawAgree
<1> QED
  BY <1>3 DEF RawAgree, b

\* Without a time, or without a raw line, there is nothing to disagree about.
LEMMA RawEmpty ==
  ASSUME NEW s
  PROVE  RawAgree(s, <<>>) /\ RawAgree(<<>>, s)
<1>1. Len(<<>>) = 0
  OBVIOUS
<1> QED
  BY <1>1 DEF RawAgree

\* Of raw lines emptied before the line came there is that line.
LEMMA RawLast ==
  ASSUME NEW S, NEW r \in Seq(S), NEW t \in Seq(S), NEW x \in S, RawAgree(Append(r, x), t)
  PROVE  RawAgree(Append(<<>>, x), t)
<1> DEFINE a == Append(r, x)
           b == Append(<<>>, x)
<1>1. /\ Len(a) = Len(r) + 1 /\ a[Len(r) + 1] = x /\ Len(b) = 1 /\ b[1] = x /\ Len(r) \in Nat
  BY AppendProperties
<1>0. RawAgree(a, t)
  OBVIOUS
<1> HIDE DEF a, b
<1>2. ASSUME NEW i \in 0 .. Len(b) - 1, i < Len(t), t[Len(t) - i][1] = "live"
      PROVE  b[Len(b) - i] = t[Len(t) - i]
  <2>1. i = 0 /\ i \in 0 .. Len(a) - 1 /\ Len(a) - i = Len(r) + 1 /\ Len(b) - i = 1
    BY <1>1
  <2>2. a[Len(a) - i] = t[Len(t) - i]
    BY <1>0, <1>2, <2>1 DEF RawAgree
  <2> QED
    BY <1>1, <2>1, <2>2
<1>3. RawAgree(b, t)
  BY <1>2 DEF RawAgree
<1> QED
  BY <1>3 DEF b

LEMMA RawStep == WsInv /\ DataInv /\ ClearInv /\ RawInv /\ [Next]_vars => RawInv'
<1> SUFFICES ASSUME WsInv, DataInv, ClearInv, RawInv, [Next]_vars, ~torn'
             PROVE  RawAgree(RawThen', data'.time)
  BY DEF RawInv
<1>0. ~torn => RawAgree(RawThen, data.time)
  BY DEF RawInv
<1>1. CASE /\ UNCHANGED <<data, erasePos, torn>>
           /\ UNCHANGED wsVars \/ (wsPc # "write" /\ (wsPc' # "write" \/ LockAndTest))
  <2>1. CASE UNCHANGED wsVars
    <3>1. RawThen' = RawThen /\ data' = data /\ ~torn
      BY <1>1, <2>1 DEF RawThen, wsVars
    <3> QED
      BY <1>0, <3>1
  <2>2. CASE wsPc # "write" /\ (wsPc' # "write" \/ LockAndTest)
    <3>1. RawThen = data.raw
      BY <2>2 DEF RawThen
    <3>2. ~(wsPc' = "write" /\ field' > 1)
      BY <2>2 DEF LockAndTest
    <3>3. RawThen' = RawThen /\ data' = data /\ ~torn
      BY <1>1, <3>1, <3>2 DEF RawThen
    <3> QED
      BY <1>0, <3>3
  <2> QED
    BY <1>1, <2>1, <2>2
<1>2. CASE WriteField
  <2>0. /\ field \in 1 .. N /\ field' = field + 1 /\ wsPc = "write" /\ wsPc' = "write"
        /\ line' = line /\ line[1] \in Row /\ data'.raw = data.raw
        /\ field = 1 => data'.time = Append(data.time, line[1])
        /\ field # 1 => data'.time = data.time
    BY <1>2, WriteFieldIs
  <2>t. RawAgree(RawThen, data.time)
    BY <1>0, <1>2 DEF WriteField, history
  <2>1. RawThen' = Append(data.raw, line[1])
    BY <2>0, FieldFacts DEF RawThen
  <2>2. CASE field = 1
    <3>1. RawThen = data.raw
      BY <2>2 DEF RawThen
    <3>2. data.time \in Seq(Row) /\ data.raw \in Seq(Row)
      BY DataFacts
    <3>3. RawAgree(Append(data.raw, line[1]), Append(data.time, line[1]))
      BY <2>0, <2>t, <3>1, <3>2, RawAppended
    <3> QED
      BY <2>0, <2>1, <2>2, <3>3
  <2>3. CASE field # 1
    <3>1. RawThen = Append(data.raw, line[1])
      BY <2>0, <2>3, FieldFacts DEF RawThen
    <3> QED
      BY <2>0, <2>1, <2>3, <2>t, <3>1
  <2> QED
    BY <2>2, <2>3
<1>3. CASE WriteRawLine
  <2>1. /\ wsPc = "write" /\ wsPc' = "lines" /\ field > N /\ data' = LineWritten /\ ~torn
    BY <1>3 DEF WriteRawLine, NextLine, N, history
  <2>2. data'.time = data.time /\ data'.raw = Append(data.raw, line[1])
    BY <2>1, LineWrittenIs
  <2>3. field > 1
    BY <2>1, FieldFacts DEF WsInv, LineInv
  <2>4. RawThen' = RawThen
    BY <2>1, <2>2, <2>3 DEF RawThen
  <2> QED
    BY <1>0, <2>1, <2>2, <2>4
<1>4. CASE ClearVector
  <2>0. /\ UNCHANGED wsVars /\ ~torn
        /\ \/ data'.raw = <<>> /\ data'.time = data.time
           \/ data'.raw = data.raw /\ data'.time = data.time
           \/ data'.raw = data.raw /\ data'.time = <<>>
    BY <1>4, ClearVectorIs
  <2>1. RawAgree(RawThen, data.time)
    BY <1>0, <2>0
  <2>2. CASE data'.time = <<>>
    BY <2>2, RawEmpty
  <2>3. CASE data'.raw = data.raw /\ data'.time = data.time
    <3>1. RawThen' = RawThen
      BY <2>0, <2>3 DEF RawThen, wsVars
    <3> QED
      BY <2>1, <2>3, <3>1
  <2>4. CASE data'.raw = <<>> /\ data'.time = data.time
    <3>1. CASE wsPc = "write" /\ field > 1
      <4>1. RawThen = Append(data.raw, line[1]) /\ RawThen' = Append(<<>>, line[1])
        BY <2>0, <2>4, <3>1 DEF RawThen, wsVars
      <4>2. line[1] \in Row /\ data.raw \in Seq(Row) /\ data.time \in Seq(Row)
        BY <3>1, DataFacts DEF WsInv, LineInv
      <4> QED
        BY <2>1, <2>4, <4>1, <4>2, RawLast
    <3>2. CASE ~(wsPc = "write" /\ field > 1)
      <4>1. RawThen' = <<>>
        BY <2>0, <2>4, <3>2 DEF RawThen, wsVars
      <4> QED
        BY <4>1, RawEmpty
    <3> QED
      BY <3>1, <3>2
  <2> QED
    BY <2>0, <2>2, <2>3, <2>4
<1>5. CASE DataMutexFree /\ data' = Loaded(data) /\ UNCHANGED <<wsPc, erasePos>>
  <2>1. wsPc' # "write" /\ data'.raw = <<>>
    BY <1>5, LoadedIs DEF DataMutexFree
  <2>2. RawThen' = <<>>
    BY <2>1 DEF RawThen
  <2> QED
    BY <2>2, RawEmpty
<1>6. CASE SyncDataVideo
  <2>1. data' = data /\ RawThen' = RawThen /\ ~torn
    BY <1>6 DEF SyncDataVideo, wsVars, RawThen, history
  <2> QED
    BY <1>0, <2>1
<1>7. CASE DeleteExtra
  <2>1. /\ wsPc # "write" /\ wsPc' = wsPc /\ data' = Trimmed(data, erasePos)
        /\ erasePos \in Nat /\ ~torn
    BY <1>7 DEF DeleteExtra, DataMutexFree, DataInv, wsVars, history
  <2>2. RawThen = data.raw /\ RawThen' = data'.raw
    BY <2>1 DEF RawThen
  <2>3. CASE data' = data
    BY <1>0, <2>1, <2>2, <2>3
  <2>4. CASE Trims(erasePos)
    <3>1. /\ data'.time = Erased(data.time, erasePos) /\ data'.raw = data.raw
          /\ erasePos <= Len(data.time)
      BY <2>4 DEF Trims
    <3>2. data.time \in Seq(Row)
      BY DataFacts
    <3>3. RawAgree(data.raw, Erased(data.time, erasePos))
      BY <1>0, <2>1, <2>2, <3>1, <3>2, RawErased
    <3> QED
      BY <2>2, <3>1, <3>3
  <2> QED
    BY <2>1, <2>3, <2>4, TrimmedIs
<1>8. ~ClearMeetsPush
  BY DEF ClearMeetsPush
<1> HIDE DEF RawInv
<1> QED
  BY <1>1, <1>2, <1>3, <1>4, <1>5, <1>6, <1>7, <1>8, DataSteps, Zenon

----------------------------------------------------------------------------
(* The file that was handed over                                            *)

Within(s) == SameTail(s, FileRows) /\ Len(s) <= FileLen

Handed == txtPath /\ ~selectedTxt /\ ~resumed

\* Until logging is turned on again no packet is being written.
FileInv ==
  /\ ~resumed => ~isLogging
  /\ Handed => /\ wsPc # "write" /\ Within(data.time)
               /\ \A c \in SentColumns : Within(data.col[c])

LEMMA WithinFacts ==
  /\ Within(<<>>) /\ Within(FileRows)
  /\ \A s \in Seq(Row), n \in Nat : n <= Len(s) /\ Within(s) => Within(Erased(s, n))
<1>0. FileRows \in Seq(Row) /\ Len(FileRows) = FileLen /\ FileLen \in Nat
  BY FileRowsType, FieldFacts
<1>1. Within(<<>>)
  <2>1. Len(<<>>) = 0
    OBVIOUS
  <2> QED
    BY <1>0, <2>1 DEF Within, SameTail
<1>2. Within(FileRows)
  BY <1>0 DEF Within, SameTail
<1>3. ASSUME NEW s \in Seq(Row), NEW n \in Nat, n <= Len(s), Within(s)
      PROVE  Within(Erased(s, n))
  <2> DEFINE r == Erased(s, n)
  <2>1. /\ Len(r) = Len(s) - n
        /\ \A i \in 0 .. Len(s) - n - 1 : r[Len(s) - n - i] = s[Len(s) - i]
    BY <1>3, ErasedFacts, ErasedFromEnd
  <2> HIDE DEF r
  <2>2. Len(s) \in Nat
    OBVIOUS
  <2>3. ASSUME NEW i \in 0 .. Len(r) - 1, i < Len(FileRows)
        PROVE  r[Len(r) - i] = FileRows[Len(FileRows) - i]
    <3>1. i \in 0 .. Len(s) - n - 1 /\ i \in 0 .. Len(s) - 1
      BY <1>3, <2>1, <2>2
    <3>2. s[Len(s) - i] = FileRows[Len(FileRows) - i]
      BY <1>3, <2>3, <3>1 DEF Within, SameTail
    <3> QED
      BY <2>1, <3>1, <3>2
  <2>4. Len(r) <= FileLen
    BY <1>0, <1>3, <2>1, <2>2 DEF Within
  <2> QED
    BY <2>3, <2>4 DEF Within, SameTail, r
<1> QED
  BY <1>1, <1>2, <1>3

\* A file is handed over by TakeSelectedTxt alone.
LEMMA HandSteps ==
  ASSUME FlagInv, ~resumed => ~isLogging, [Next]_vars
  PROVE  /\ ~resumed' => ~isLogging'
         /\ Handed' => (Handed /\ ~isLogging) \/ TakeSelectedTxt
<1>1. CASE UNCHANGED <<isLogging, txtVars, resumed>>
  BY <1>1 DEF txtVars, Handed
<1>2. CASE ToggleLogging
  <2>1. resumed' = (resumed \/ ~isLogging) /\ UNCHANGED <<txtPath, selectedTxt>>
    BY <1>2 DEF ToggleLogging, txtVars
  <2>0. (resumed \/ ~isLogging) = TRUE
    OBVIOUS
  <2>2. resumed' = TRUE
    BY <2>0, <2>1, Zenon
  <2> QED
    BY <2>2 DEF Handed
<1>3. CASE TakeSelectedTxt
  <2>1. resumed' = resumed /\ isLogging' = isLogging
    BY <1>3 DEF TakeSelectedTxt
  <2> QED
    BY <1>3, <2>1
<1>4. CASE PressOpenTextFile
  BY <1>4 DEF PressOpenTextFile, history, Handed
<1>5. CASE PressSync \/ SyncDataVideo \/ DeleteExtra
  BY <1>5 DEF PressSync, SyncDataVideo, DeleteExtra, txtVars, history, Handed
<1>6. CASE LeaveView
  BY <1>6 DEF LeaveView, history, Handed
<1>7. CASE \E chosen \in BOOLEAN : DialogReturns(chosen)
  <2>1. PICK chosen \in BOOLEAN : DialogReturns(chosen)
    BY <1>7
  <2>2. /\ selectedTxt' = chosen /\ isLogging' = FALSE /\ txtPath' = txtPath
        /\ resumed' = IF chosen THEN FALSE ELSE resumed \/ selectedTxt
    BY <2>1 DEF DialogReturns
  <2> QED
    BY <2>2 DEF Handed
<1> QED
  BY <1>1, <1>2, <1>3, <1>4, <1>5, <1>6, <1>7, FlagSteps, ClearSteps DEF history

LEMMA FileStep == WsInv /\ DataInv /\ ClearInv /\ FlagInv /\ FileInv /\ [Next]_vars => FileInv'
<1> SUFFICES ASSUME WsInv, DataInv, ClearInv, FlagInv, FileInv, [Next]_vars PROVE FileInv'
  OBVIOUS
<1> DEFINE Good == /\ wsPc # "write" /\ Within(data.time)
                   /\ \A c \in SentColumns : Within(data.col[c])
<1>1. (~resumed' => ~isLogging') /\ (Handed' => (Handed /\ ~isLogging) \/ TakeSelectedTxt)
  BY HandSteps DEF FileInv
<1>2. \A c \in SentColumns : c \in Columns
  BY FieldFacts DEF SentColumns, N
<1>3. CASE TakeSelectedTxt
  <2>1. data' = Loaded(data) /\ wsPc # "write" /\ wsPc' = wsPc
    BY <1>3 DEF TakeSelectedTxt, LoadData, DataMutexFree, wsVars
  <2>2. data'.time = FileRows /\ \A c \in SentColumns : data'.col[c] = FileRows
    BY <1>2, <2>1, LoadedIs
  <2>3. Good'
    BY <2>1, <2>2, WithinFacts
  <2> QED
    BY <1>1, <2>3 DEF FileInv
<1>4. CASE Handed /\ ~isLogging
  <2>0. Good
    BY <1>4 DEF FileInv
  <2>1. CASE /\ UNCHANGED <<data, erasePos, torn>>
             /\ UNCHANGED wsVars \/ (wsPc # "write" /\ (wsPc' # "write" \/ LockAndTest))
    <3>1. data' = data /\ wsPc' # "write"
      BY <1>4, <2>0, <2>1 DEF wsVars, LockAndTest
    <3> QED
      BY <2>0, <3>1, <1>1 DEF FileInv
  <2>2. CASE WriteField \/ WriteRawLine \/ ClearMeetsPush
    BY <2>0, <2>2 DEF WriteField, WriteRawLine, ClearMeetsPush
  <2>3. CASE ClearVector
    <3>0. /\ wsPc' = wsPc
          /\ data'.time = data.time \/ data'.time = <<>>
          /\ \/ data'.col = data.col
             \/ \E v \in Columns : data'.col = [data.col EXCEPT ![v] = <<>>]
      BY <2>3, ClearVectorIs DEF wsVars
    <3>1. ASSUME NEW c \in SentColumns PROVE data'.col[c] = data.col[c] \/ data'.col[c] = <<>>
      <4>1. CASE \E v \in Columns : data'.col = [data.col EXCEPT ![v] = <<>>]
        <5>1. PICK v \in Columns : data'.col = [data.col EXCEPT ![v] = <<>>]
          BY <4>1
        <5>2. c \in Columns /\ data.col \in [Columns -> Seq(Row)]
          BY <1>2, DataFacts
        <5> QED
          BY <5>1, <5>2
      <4> QED
        BY <3>0, <4>1
    <3>2. Good'
      BY <2>0, <3>0, <3>1, WithinFacts
    <3> QED
      BY <1>1, <3>2 DEF FileInv
  <2>4. CASE DataMutexFree /\ data' = Loaded(data) /\ UNCHANGED <<wsPc, erasePos>>
    <3>1. /\ data'.time = FileRows /\ \A c \in SentColumns : data'.col[c] = FileRows
          /\ wsPc' = wsPc
      BY <1>2, <2>4, LoadedIs
    <3>2. Good'
      BY <2>0, <3>1, WithinFacts
    <3> QED
      BY <1>1, <3>2 DEF FileInv
  <2>5. CASE SyncDataVideo
    <3>1. data' = data /\ wsPc' = wsPc
      BY <2>5 DEF SyncDataVideo, wsVars
    <3> QED
      BY <1>1, <2>0, <3>1 DEF FileInv
  <2>6. CASE DeleteExtra
    <3>1. wsPc' = wsPc /\ data' = Trimmed(data, erasePos) /\ erasePos \in Nat
      BY <2>6 DEF DeleteExtra, DataInv, wsVars
    <3>2. CASE data' = data
      BY <1>1, <2>0, <3>1, <3>2 DEF FileInv
    <3>3. CASE Trims(erasePos)
      <4>1. /\ data'.time = Erased(data.time, erasePos) /\ erasePos <= Len(data.time)
            /\ \A c \in SentColumns : /\ data'.col[c] = Erased(data.col[c], erasePos)
                                      /\ erasePos <= Len(data.col[c])
        BY <1>2, <3>3 DEF Trims
      <4>2. data.time \in Seq(Row) /\ \A c \in SentColumns : data.col[c] \in Seq(Row)
        BY <1>2, DataFacts
      <4>3. Good'
        BY <2>0, <3>1, <4>1, <4>2, WithinFacts
      <4> QED
        BY <1>1, <4>3 DEF FileInv
    <3> QED
      BY <3>1, <3>2, <3>3, TrimmedIs
  <2> HIDE DEF Good
  <2> QED
    BY <2>1, <2>2, <2>3, <2>4, <2>5, <2>6, DataSteps, Zenon
<1> QED
  BY <1>1, <1>3, <1>4 DEF FileInv

----------------------------------------------------------------------------
(* The row the video starts at                                              *)

LEMMA TimesAreNumbers ==
  /\ \A row \in Row : TimeNoNormal(row) \in Nat
  /\ \A t \in TimeOfDay : MicrosSinceMidnight(t) \in Nat
<1>1. \A t \in TimeOfDay : MicrosSinceMidnight(t) \in Nat
  BY BelowADay
<1>2. ASSUME NEW row \in Row PROVE TimeNoNormal(row) \in Nat
  <2>1. MicrosPerSecond \in Nat
    BY RadixAssumption DEF MicrosPerSecond
  <2>2. LiveStart \in Nat /\ FileStart \in Nat /\ row[2] \in Nat
    BY LogAssumption DEF Row
  <2>3. row[2] * MicrosPerSecond \in Nat
    BY <2>1, <2>2
  <2>4. Sent(row) \in Nat
    BY <2>2, <2>3 DEF Sent
  <2> QED
    BY <1>1, <2>4, FieldsInRange DEF TimeNoNormal
<1> QED
  BY <1>1, <1>2

LEMMA SyncStep ==
  ASSUME DataInv, FlagInv, [Next]_vars, gui = "sync", gui' = "trim"
  PROVE  LET time(i) == TimeNoNormal(data.micros[i])
             video   == MicrosSinceMidnight(creation)
         IN  /\ time(erasePos' + 1) >= video
             /\ erasePos' > 0 => time(erasePos') < video
             /\ (\A i, j \in 1 .. Len(data.micros) : i < j => time(i) <= time(j))
                => \A i \in 1 .. erasePos' : time(i) < video
<1> DEFINE time(i) == TimeNoNormal(data.micros[i])
           video   == MicrosSinceMidnight(creation)
           n       == Len(data.micros)
           p       == erasePos'
           times   == [i \in 1 .. n |-> time(i)]
<1>1. SyncDataVideo
  <2>1. ~ UNCHANGED gui /\ ~ UNCHANGED <<isLogging, gui, creation, cleared, txtVars, history>>
    OBVIOUS
  <2>4. ~ PressClearData /\ ~ ClearVector /\ ~ ClearMeetsPush
    BY DEF PressClearData, ClearVector, ClearMeetsPush
  <2>2. ~ ToggleLogging /\ ~ TakeSelectedTxt /\ ~ PressOpenTextFile /\ ~ PressSync /\ ~ LeaveView
    BY DEF ToggleLogging, TakeSelectedTxt, PressOpenTextFile, PressSync, LeaveView
  <2>3. ~ DeleteExtra /\ ~ \E chosen \in BOOLEAN : DialogReturns(chosen)
    BY <2>1 DEF DeleteExtra, DialogReturns
  <2> QED
    BY <2>1, <2>2, <2>3, <2>4, FlagSteps
<1>2. p = LowerBound(times, video) /\ p < n
  BY <1>1 DEF SyncDataVideo, Position
<1>3. n \in Nat /\ \A i \in 1 .. n : data.micros[i] \in Row
  BY DataFacts, ElementOfSeq
<1>4. video \in Nat /\ \A i \in 1 .. n : time(i) \in Nat
  BY <1>3, TimesAreNumbers DEF FlagInv
<1>5. Len(times) = n
  <2> HIDE DEF n
  <2> QED
    BY <1>3
<1>6. \A i \in 1 .. n : times[i] = time(i)
  OBVIOUS
<1> HIDE DEF time, video, n, p, times
<1>7. /\ p \in 0 .. n
      /\ p > 0 => times[p] < video
      /\ p < n => ~(times[p + 1] < video)
  BY <1>2, <1>3, <1>5, LowerBoundFacts
<1>8. time(p + 1) >= video /\ (p > 0 => time(p) < video)
  <2>1. p + 1 \in 1 .. n /\ (p > 0 => p \in 1 .. n)
    BY <1>2, <1>3, <1>7
  <2> QED
    BY <1>2, <1>4, <1>6, <1>7, <2>1
<1>9. ASSUME \A i, j \in 1 .. n : i < j => time(i) <= time(j), NEW i \in 1 .. p
      PROVE  time(i) < video
  <2>1. p \in 1 .. n /\ i \in 1 .. n /\ p > 0
    BY <1>3, <1>7
  <2>2. i = p \/ time(i) <= time(p)
    BY <1>9, <2>1
  <2> QED
    BY <1>4, <1>8, <2>1, <2>2
<1> QED
  BY <1>8, <1>9 DEF time, video, n, p

----------------------------------------------------------------------------
(* The theorems                                                             *)

IInv == WsInv /\ DataInv /\ ClearInv /\ FlagInv /\ TailInv /\ RawInv /\ FileInv

LEMMA InitIInv == Init => IInv
<1> SUFFICES ASSUME Init PROVE IInv
  OBVIOUS
<1>0. /\ wsPc = "idle" /\ buffer = <<>> /\ line = <<>> /\ field = 0 /\ erasePos = 0
      /\ data = [micros |-> <<>>, time |-> <<>>, col |-> [c \in Columns |-> <<>>],
                 raw |-> <<>>, currentLine |-> <<>>]
      /\ N \in Nat
  BY FieldFacts DEF Init, NoData, NoLine
<1>1. WsInv
  <2>1. <<>> \in Seq(Piece) /\ Len(<<>>) = 0
    OBVIOUS
  <2>2. BufferInv
    BY <1>0, <2>1 DEF BufferInv
  <2>3. LineInv
    BY <1>0 DEF LineInv
  <2>4. CountInv
    BY FieldFacts DEF Init, CountInv
  <2> QED
    BY <2>2, <2>3, <2>4 DEF WsInv
<1>2. DataInv
  <2>1. <<>> \in Seq(Row) /\ <<>> \in Seq(Piece)
    OBVIOUS
  <2>2. [c \in Columns |-> <<>>] \in [Columns -> Seq(Row)]
    BY <2>1
  <2>3. data \in DataType
    BY <1>0, <2>1, <2>2 DEF DataType
  <2> QED
    BY <1>0, <2>3 DEF DataInv
<1>3. FlagInv
  BY MidnightIsATime DEF Init, FlagInv
<1>4. TailInv
  <2>1. ASSUME NEW i \in 2 .. N
        PROVE  SameTail(data.time, ColumnThen(i)) /\ Len(data.time) <= Len(ColumnThen(i))
    <3>1. PacketFields[i] \in Columns
      BY <2>1, FieldFacts
    <3>2. ColumnThen(i) = <<>> /\ data.time = <<>> /\ <<>> \in Seq(Row)
      BY <1>0, <3>1 DEF ColumnThen, Owed
    <3> QED
      BY <3>2, SelfAgrees
  <2> QED
    BY <2>1 DEF TailInv
<1>5. RawInv
  <2>1. RawThen = <<>>
    BY <1>0 DEF RawThen
  <2> QED
    BY <2>1, RawEmpty DEF RawInv
<1>6. FileInv
  BY DEF Init, FileInv, Handed
<1>7. ClearInv
  <2>1. 0 \in 0 .. Len(ClearOrder) - 1
    BY OrderFacts
  <2> QED
    BY <2>1 DEF Init, ClearInv
<1> QED
  BY <1>1, <1>2, <1>3, <1>4, <1>5, <1>6, <1>7 DEF IInv

LEMMA StepIInv == IInv /\ [Next]_vars => IInv'
BY WsStep, DataStep, ClearStep, FlagStep, TailStep, RawStep, FileStep DEF IInv

LEMMA IInvHolds == Spec => []IInv
BY InitIInv, StepIInv, PTL DEF Spec

LEMMA SafetyFromIInv ==
  ASSUME IInv
  PROVE  TypeOK /\ LineIsWhole /\ TailsAgree /\ RawLinesMatch /\ LoadedDataIsTheFile
<1>0. WsInv /\ DataInv /\ ClearInv /\ FlagInv /\ TailInv /\ RawInv /\ FileInv
  BY DEF IInv
<1>1. TypeOK
  BY <1>0 DEF TypeOK, WsInv, CountInv, BufferInv, LineInv, DataInv, DataType, ClearInv, FlagInv, N
<1>2. LineIsWhole
  BY <1>0 DEF LineIsWhole, WsInv, LineInv
<1>3. ASSUME DataMutexFree, gui # "clear", ~torn, NEW c \in SentColumns
      PROVE  SameTail(data.time, data.col[c]) /\ Len(data.time) <= Len(data.col[c])
  <2>1. PICK i \in 2 .. N : c = PacketFields[i]
    BY DEF SentColumns, N
  <2>2. ColumnThen(i) = data.col[c]
    BY <1>3, <2>1 DEF DataMutexFree, ColumnThen, Owed
  <2> QED
    BY <1>0, <1>3, <2>2 DEF TailInv, TimePending
<1>4. TailsAgree
  BY <1>3 DEF TailsAgree
<1>5. RawLinesMatch
  <2>1. ASSUME DataMutexFree, ~torn PROVE RawAgree(data.raw, data.time)
    BY <1>0, <2>1 DEF RawInv, RawThen, DataMutexFree
  <2> QED
    BY <2>1 DEF RawLinesMatch, RawAgree
<1>6. LoadedDataIsTheFile
  <2>1. ASSUME txtPath /\ ~selectedTxt /\ ~resumed,
               NEW s \in {data.time} \cup {data.col[c] : c \in SentColumns}
        PROVE  SameTail(s, FileRows) /\ Len(s) <= FileLen
    BY <1>0, <2>1 DEF FileInv, Handed, Within
  <2> QED
    BY <2>1 DEF LoadedDataIsTheFile
<1> QED
  BY <1>1, <1>2, <1>4, <1>5, <1>6

\* Every variable keeps to its type, whatever the three threads do.
THEOREM TypeCorrect == Spec => []TypeOK
BY IInvHolds, SafetyFromIInv, PTL

\* What OnMessage passes on is one packet or one response: a response the
\* board cut before its newline, and what it ran into, are refused.
THEOREM LinesAreWhole == Spec => []LineIsWhole
BY IInvHolds, SafetyFromIInv, PTL

\* Clear Data empties one vector after the other without DataMutex; however
\* many packets are written meanwhile, a snapshot's columns agree from the
\* newest row back, unless the clear met a push in the same vector.
THEOREM TailsAlwaysAgree == Spec => []TailsAgree
BY IInvHolds, SafetyFromIInv, PTL

\* The raw lines that are downloaded are those of the rows in the plots.
THEOREM RawLinesAlwaysMatch == Spec => []RawLinesMatch
BY IInvHolds, SafetyFromIInv, PTL

\* A file that was handed over stays free of live packets: the dialog turns
\* logging off before LoadData waits for DataMutex.
THEOREM FileStaysTheFile == Spec => []LoadedDataIsTheFile
BY IInvHolds, SafetyFromIInv, PTL

\* SyncDataVideo stops at a row of the video behind a row before it, over
\* midnight too, and at the first one where the times are sorted.
THEOREM SyncAlwaysFindsRow == Spec => SyncFindsRow
<1>1. IInv /\ [Next]_vars
      => [gui = "sync" /\ gui' = "trim" =>
            LET time(i) == TimeNoNormal(data.micros[i])
                video   == MicrosSinceMidnight(creation)
            IN  /\ time(erasePos' + 1) >= video
                /\ erasePos' > 0 => time(erasePos') < video
                /\ (\A i, j \in 1 .. Len(data.micros) : i < j => time(i) <= time(j))
                   => \A i \in 1 .. erasePos' : time(i) < video]_vars
  BY SyncStep DEF IInv
<1> QED
  BY <1>1, IInvHolds, PTL DEF Spec, SyncFindsRow
=============================================================================
