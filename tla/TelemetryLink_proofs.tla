------------------------ MODULE TelemetryLink_proofs ------------------------
(***************************************************************************)
(* Proofs about TelemetryLink, for every set of addresses.                 *)
(***************************************************************************)
EXTENDS TelemetryLink, NatFacts, TLAPS

\* How far Kill has come, and what has then ended.
KillInv ==
  /\ gui \in {"killWorker", "joinWorker", "killed"} => ws = "none"
  /\ gui = "killed" => worker = "none"

IInv == TypeOK /\ KillInv /\ FlagsOnlyInSession /\ AddressInUse

\* The Boolean half of the type invariant, which Zenon proves, and the rest.
FlagsOK ==
  /\ tryConnection \in BOOLEAN /\ ready \in BOOLEAN /\ stopping \in BOOLEAN
  /\ shouldKill \in BOOLEAN
  /\ isConnected \in BOOLEAN /\ isReceiving \in BOOLEAN /\ recent \in BOOLEAN
RestInv ==
  /\ gui \in {"idle", "joinWs", "killWorker", "joinWorker", "killed", "sendFailed"}
  /\ caller \in {"none", "start", "setIp", "exit"}
  /\ ipAddr \in ValidAddress /\ url \in ValidAddress
  /\ ws \in WsPC
  /\ worker \in {"none", "loop", "readState", "storeConnected", "readTime",
                 "storeReceiving", "exited"}
  /\ KillInv /\ FlagsOnlyInSession /\ AddressInUse

LEMMA Split == IInv <=> FlagsOK /\ RestInv
BY DEF IInv, TypeOK, FlagsOK, RestInv

LEMMA SplitPrime == (FlagsOK /\ RestInv)' => IInv'
BY DEF IInv, TypeOK, FlagsOK, RestInv

LEMMA InitInv == Init => IInv
BY LinkAssumption DEF Init, IInv, TypeOK, KillInv, FlagsOnlyInSession, AddressInUse,
                      WsPC, InSession

\* Every action keeps the Boolean variables Boolean, and every action keeps
\* the other parts; one lemma per thread.
LEMMA GuiFlags == IInv /\ (GuiProceeds \/ UserActs) => FlagsOK'
<1> SUFFICES ASSUME FlagsOK, RestInv, GuiProceeds \/ UserActs PROVE FlagsOK'
  BY Split
<1> USE LinkAssumption
    DEF FlagsOK,
        guiVars, wsVars, workerVars, flags, BeginKill, WsLeaves, WorkerLeaves
<1>1. CASE RestartRequested  BY <1>1 DEF RestartRequested
<1>2. CASE JoinWebSocket  BY <1>2 DEF JoinWebSocket
<1>3. CASE KillWorker  BY <1>3 DEF KillWorker
<1>4. CASE JoinWorker  BY <1>4 DEF JoinWorker
<1>5. CASE Launch  BY <1>5 DEF Launch
<1>6. CASE SendFailed  BY <1>6 DEF SendFailed
<1>7. CASE PressRestart  BY <1>7 DEF PressRestart
<1>8. CASE SendFails  BY <1>8 DEF SendFails
<1>9. CASE Exit  BY <1>9 DEF Exit
<1>10. ASSUME NEW ip \in Addresses, SetIp(ip) PROVE FlagsOK'
  BY <1>10 DEF SetIp
<1> QED
  BY <1>1, <1>2, <1>3, <1>4, <1>5, <1>6, <1>7, <1>8, <1>9, <1>10
     DEF GuiProceeds, UserActs

LEMMA WsFlags == IInv /\ (Callback \/ Network) => FlagsOK'
<1> SUFFICES ASSUME FlagsOK, RestInv, Callback \/ Network PROVE FlagsOK'
  BY Split
<1> USE LinkAssumption
    DEF FlagsOK,
        guiVars, wsVars, workerVars, flags, BeginKill, WsLeaves, WorkerLeaves
<1>1. CASE OpenConnected  BY <1>1 DEF OpenConnected
<1>2. CASE OpenReceiving  BY <1>2 DEF OpenReceiving
<1>3. CASE SendStatus  BY <1>3 DEF SendStatus
<1>4. CASE MessageTime  BY <1>4 DEF MessageTime
<1>5. CASE CloseConnected  BY <1>5 DEF CloseConnected
<1>6. CASE CloseReceiving  BY <1>6 DEF CloseReceiving
<1>7. CASE WsExits  BY <1>7 DEF WsExits
<1>8. CASE Connect  BY <1>8 DEF Connect
<1>9. CASE ConnectFails  BY <1>9 DEF ConnectFails
<1>10. CASE MessageReceiving  BY <1>10 DEF MessageReceiving
<1>11. CASE Disconnect  BY <1>11 DEF Disconnect
<1> QED
  BY <1>1, <1>2, <1>3, <1>4, <1>5, <1>6, <1>7, <1>8, <1>9, <1>10, <1>11
     DEF Callback, Network

LEMMA WorkerFlags == IInv /\ (WorkerStep \/ HalfSecondPasses) => FlagsOK'
<1> SUFFICES ASSUME FlagsOK, RestInv, WorkerStep \/ HalfSecondPasses PROVE FlagsOK'
  BY Split
<1> USE LinkAssumption
    DEF FlagsOK,
        guiVars, wsVars, workerVars, flags, BeginKill, WsLeaves, WorkerLeaves
<1>1. CASE WorkerTest  BY <1>1 DEF WorkerTest
<1>2. CASE WorkerReadState  BY <1>2 DEF WorkerReadState
<1>3. CASE WorkerStoreConnected  BY <1>3 DEF WorkerStoreConnected
<1>4. CASE WorkerReadTime  BY <1>4 DEF WorkerReadTime
<1>5. CASE WorkerStoreReceiving  BY <1>5 DEF WorkerStoreReceiving
<1>6. CASE HalfSecondPasses  BY <1>6 DEF HalfSecondPasses
<1> QED
  BY <1>1, <1>2, <1>3, <1>4, <1>5, <1>6
     DEF WorkerStep

LEMMA GuiRest == IInv /\ (GuiProceeds \/ UserActs) => RestInv'
<1> SUFFICES ASSUME FlagsOK, RestInv, GuiProceeds \/ UserActs PROVE RestInv'
  BY Split
<1> USE LinkAssumption
    DEF RestInv, KillInv, FlagsOnlyInSession, AddressInUse, WsPC, InSession,
        guiVars, wsVars, workerVars, flags, BeginKill, WsLeaves, WorkerLeaves
<1>1. CASE RestartRequested  BY <1>1 DEF RestartRequested
<1>2. CASE JoinWebSocket  BY <1>2 DEF JoinWebSocket
<1>3. CASE KillWorker  BY <1>3 DEF KillWorker
<1>4. CASE JoinWorker  BY <1>4 DEF JoinWorker
<1>5. CASE Launch  BY <1>5 DEF Launch
<1>6. CASE SendFailed  BY <1>6 DEF SendFailed
<1>7. CASE PressRestart  BY <1>7 DEF PressRestart
<1>8. CASE SendFails  BY <1>8 DEF SendFails
<1>9. CASE Exit  BY <1>9 DEF Exit
<1>10. ASSUME NEW ip \in Addresses, SetIp(ip) PROVE RestInv'
  BY <1>10 DEF SetIp
<1> QED
  BY <1>1, <1>2, <1>3, <1>4, <1>5, <1>6, <1>7, <1>8, <1>9, <1>10
     DEF GuiProceeds, UserActs

LEMMA WsRest == IInv /\ (Callback \/ Network) => RestInv'
<1> SUFFICES ASSUME FlagsOK, RestInv, Callback \/ Network PROVE RestInv'
  BY Split
<1> USE LinkAssumption
    DEF RestInv, KillInv, FlagsOnlyInSession, AddressInUse, WsPC, InSession,
        guiVars, wsVars, workerVars, flags, BeginKill, WsLeaves, WorkerLeaves
<1>1. CASE OpenConnected  BY <1>1 DEF OpenConnected
<1>2. CASE OpenReceiving  BY <1>2 DEF OpenReceiving
<1>3. CASE SendStatus  BY <1>3 DEF SendStatus
<1>4. CASE MessageTime  BY <1>4 DEF MessageTime
<1>5. CASE CloseConnected  BY <1>5 DEF CloseConnected
<1>6. CASE CloseReceiving  BY <1>6 DEF CloseReceiving
<1>7. CASE WsExits  BY <1>7 DEF WsExits
<1>8. CASE Connect  BY <1>8 DEF Connect
<1>9. CASE ConnectFails  BY <1>9 DEF ConnectFails
<1>10. CASE MessageReceiving  BY <1>10 DEF MessageReceiving
<1>11. CASE Disconnect  BY <1>11 DEF Disconnect
<1> QED
  BY <1>1, <1>2, <1>3, <1>4, <1>5, <1>6, <1>7, <1>8, <1>9, <1>10, <1>11
     DEF Callback, Network

LEMMA WorkerRest == IInv /\ (WorkerStep \/ HalfSecondPasses) => RestInv'
<1> SUFFICES ASSUME FlagsOK, RestInv, WorkerStep \/ HalfSecondPasses PROVE RestInv'
  BY Split
<1> USE LinkAssumption
    DEF RestInv, KillInv, FlagsOnlyInSession, AddressInUse, WsPC, InSession,
        guiVars, wsVars, workerVars, flags, BeginKill, WsLeaves, WorkerLeaves
<1>1. CASE WorkerTest  BY <1>1 DEF WorkerTest
<1>2. CASE WorkerReadState  BY <1>2 DEF WorkerReadState
<1>3. CASE WorkerStoreConnected  BY <1>3 DEF WorkerStoreConnected
<1>4. CASE WorkerReadTime  BY <1>4 DEF WorkerReadTime
<1>5. CASE WorkerStoreReceiving  BY <1>5 DEF WorkerStoreReceiving
<1>6. CASE HalfSecondPasses  BY <1>6 DEF HalfSecondPasses
<1> QED
  BY <1>1, <1>2, <1>3, <1>4, <1>5, <1>6
     DEF WorkerStep

\* The inductive invariant holds in every reachable state.
THEOREM Inductive == Spec => []IInv
<1>1. IInv /\ UNCHANGED vars => IInv'
  BY DEF vars, IInv, TypeOK, KillInv, FlagsOnlyInSession, AddressInUse
<1>2. IInv /\ [Next]_vars => IInv'
  BY <1>1, SplitPrime, GuiFlags, GuiRest, WsFlags, WsRest, WorkerFlags, WorkerRest
     DEF Next, Ended
<1> QED
  BY InitInv, <1>2, PTL DEF Spec

\* Type correctness of the three threads' variables (Start, Kill, the message
\* callback, WorkerLoop).
THEOREM TypeCorrect == Spec => []TypeOK
<1>1. IInv => TypeOK
  BY DEF IInv
<1> QED
  BY <1>1, Inductive, PTL

\* No thread leaves IsConnected or IsReceiving set behind the end of a session.
THEOREM FlagsEndWithSession == Spec => []FlagsOnlyInSession
<1>1. IInv => FlagsOnlyInSession
  BY DEF IInv
<1> QED
  BY <1>1, Inductive, PTL

\* Start never runs, and the object is never destroyed, beside an old thread.
THEOREM NeverDoubled == Spec => []ThreadsJoined
<1>1. IInv => ThreadsJoined
  BY DEF IInv, KillInv, ThreadsJoined
<1> QED
  BY <1>1, Inductive, PTL

\* SetIp's address is the one the WebSocket connects to once SetIp returns.
THEOREM UsesNewAddress == Spec => []AddressInUse
<1>1. IInv => AddressInUse
  BY DEF IInv
<1> QED
  BY <1>1, Inductive, PTL

\* Every step of the GUI thread leaves the light alone or puts it out.
LEMMA GuiLight == IInv /\ (GuiProceeds \/ UserActs) => [Light!Next]_(Light!lightVars)
<1> SUFFICES ASSUME IInv, GuiProceeds \/ UserActs PROVE [Light!Next]_(Light!lightVars)
  OBVIOUS
<1> USE DEF Light!lightVars, wsVars, workerVars, flags, BeginKill
<1>1. CASE RestartRequested  BY <1>1 DEF RestartRequested
<1>2. CASE JoinWebSocket  BY <1>2 DEF JoinWebSocket
<1>3. CASE KillWorker  BY <1>3 DEF KillWorker
<1>4. CASE JoinWorker  BY <1>4 DEF JoinWorker
<1>5. CASE Launch
  BY <1>5 DEF Launch, IInv, KillInv
<1>6. CASE SendFailed
  BY <1>6 DEF SendFailed, Light!Next, Light!ConnectedGoesOut
<1>7. CASE PressRestart  BY <1>7 DEF PressRestart
<1>8. CASE SendFails  BY <1>8 DEF SendFails
<1>9. CASE Exit  BY <1>9 DEF Exit
<1>10. ASSUME NEW ip \in Addresses, SetIp(ip) PROVE [Light!Next]_(Light!lightVars)
  BY <1>10 DEF SetIp
<1> QED
  BY <1>1, <1>2, <1>3, <1>4, <1>5, <1>6, <1>7, <1>8, <1>9, <1>10
     DEF GuiProceeds, UserActs

\* The WebSocket thread opens and closes sessions; that both flags are out
\* when it opens one is FlagsOnlyInSession.
LEMMA WsLight == IInv /\ (Callback \/ Network) => [Light!Next]_(Light!lightVars)
<1> SUFFICES ASSUME IInv, Callback \/ Network PROVE [Light!Next]_(Light!lightVars)
  OBVIOUS
<1> USE DEF Light!lightVars, flags
<1>1. CASE OpenConnected
  <2>1. ~isConnected /\ ~isReceiving
    BY <1>1 DEF OpenConnected, IInv, FlagsOnlyInSession, InSession
  <2>2. Light!Open
    BY <1>1, <2>1 DEF OpenConnected, Light!Open
  <2> QED
    BY <2>2 DEF Light!Next
<1>2. CASE OpenReceiving
  BY <1>2 DEF OpenReceiving, Light!Next, Light!GreenGoesOut
<1>3. CASE SendStatus
  <2>1. isConnected' = isConnected \/ isConnected' = FALSE
    BY <1>3 DEF SendStatus
  <2>2. UNCHANGED <<ws \in {"openReceiving", "status", "up", "message"}, isReceiving>>
    BY <1>3 DEF SendStatus
  <2>3. CASE isConnected' = isConnected
    BY <2>2, <2>3
  <2>4. CASE isConnected' = FALSE
    BY <2>2, <2>4 DEF Light!Next, Light!ConnectedGoesOut
  <2> QED
    BY <2>1, <2>3, <2>4
<1>4. CASE MessageTime  BY <1>4 DEF MessageTime
<1>5. CASE CloseConnected
  BY <1>5 DEF CloseConnected, Light!Next, Light!ConnectedGoesOut
<1>6. CASE CloseReceiving
  BY <1>6 DEF CloseReceiving, Light!Next, Light!GreenGoesOut
<1>7. CASE WsExits  BY <1>7 DEF WsExits
<1>8. CASE Connect  BY <1>8 DEF Connect
<1>9. CASE ConnectFails  BY <1>9 DEF ConnectFails
<1>10. CASE MessageReceiving
  BY <1>10 DEF MessageReceiving, Light!Next, Light!Hear
<1>11. CASE Disconnect
  BY <1>11 DEF Disconnect, Light!Next, Light!Close
<1> QED
  BY <1>1, <1>2, <1>3, <1>4, <1>5, <1>6, <1>7, <1>8, <1>9, <1>10, <1>11
     DEF Callback, Network

\* The worker only puts out.
LEMMA WorkerLight == IInv /\ (WorkerStep \/ HalfSecondPasses) => [Light!Next]_(Light!lightVars)
<1> SUFFICES ASSUME IInv, WorkerStep \/ HalfSecondPasses PROVE [Light!Next]_(Light!lightVars)
  OBVIOUS
<1> USE DEF Light!lightVars, wsVars, workerVars, flags, WorkerLeaves
<1>1. CASE WorkerTest  BY <1>1 DEF WorkerTest
<1>2. CASE WorkerReadState  BY <1>2 DEF WorkerReadState
<1>3. CASE WorkerStoreConnected
  BY <1>3 DEF WorkerStoreConnected, Light!Next, Light!ConnectedGoesOut
<1>4. CASE WorkerReadTime  BY <1>4 DEF WorkerReadTime
<1>5. CASE WorkerStoreReceiving
  BY <1>5 DEF WorkerStoreReceiving, Light!Next, Light!GreenGoesOut
<1>6. CASE HalfSecondPasses  BY <1>6 DEF HalfSecondPasses
<1> QED
  BY <1>1, <1>2, <1>3, <1>4, <1>5, <1>6 DEF WorkerStep

\* The flags that three threads store implement the indicator of
\* ConnectionLight.
THEOREM ImplementsConnectionLight == Spec => LightSpec
<1>1. Init => Light!Init
  BY DEF Init, Light!Init
<1>2. IInv /\ [Next]_vars => [Light!Next]_(Light!lightVars)
  <2>1. UNCHANGED vars => UNCHANGED Light!lightVars
    BY DEF vars, Light!lightVars
  <2> QED
    BY <2>1, GuiLight, WsLight, WorkerLight DEF Next, Ended
<1> QED
  BY <1>1, <1>2, Inductive, PTL DEF Spec, LightSpec, Light!Spec

----------------------------------------------------------------------------
(* The address                                                              *)

\* A recursive definition over the places of a text has a value.
LEMMA ScanExists ==
  ASSUME NEW n \in Nat, NEW g \in [Nat -> [Int -> Int]]
  PROVE  \E f \in [0 .. n -> Int] : f[0] = 0 /\ \A i \in 1 .. n : f[i] = g[i][f[i - 1]]
<1>1. PICK f : IsStart(f, Int, 0, g, n)
  <2>1. 0 \in Int
    OBVIOUS
  <2> QED
    BY <2>1, StartsExist
<1>2. f \in [0 .. n -> Int] /\ f[0] = 0
  BY <1>1 DEF IsStart
<1>3. ASSUME NEW i \in 1 .. n PROVE f[i] = g[i][f[i - 1]]
  <2>1. i - 1 \in 0 .. n - 1 /\ i - 1 + 1 = i
    OBVIOUS
  <2> QED
    BY <1>1, <2>1 DEF IsStart
<1> QED
  BY <1>2, <1>3

\* What Value and Number compute, place by place.
LEMMA ValueScan ==
  ASSUME NEW text \in Texts
  PROVE  \E f \in [0 .. Len(text) -> Int] :
           /\ f[0] = 0 /\ Value(text) = f[Len(text)]
           /\ \A i \in 1 .. Len(text) : f[i] = (f[i - 1] * 10 + text[i]) % WordSize
<1>1. WordSize \in Nat /\ WordSize > 0 /\ Len(text) \in Nat /\ \A i \in 1 .. Len(text) : text[i] \in Int
  BY WordAssumption DEF Texts
<1> DEFINE n == Len(text)
           g == [i \in Nat |-> [v \in Int |-> IF i \in 1 .. n THEN (v * 10 + text[i]) % WordSize ELSE 0]]
           Is(u) == u = [i \in 0 .. Len(text) |->
                           IF i = 0 THEN 0 ELSE (u[i - 1] * 10 + text[i]) % WordSize]
           upTo == CHOOSE u : Is(u)
<1>2. PICK f \in [0 .. n -> Int] : f[0] = 0 /\ \A i \in 1 .. n : f[i] = g[i][f[i - 1]]
  <2>1. \A x \in Int : x % WordSize \in Int
    BY <1>1
  <2>2. ASSUME NEW i \in Nat, NEW v \in Int
        PROVE  (IF i \in 1 .. n THEN (v * 10 + text[i]) % WordSize ELSE 0) \in Int
    BY <1>1, <2>1
  <2>3. g \in [Nat -> [Int -> Int]]
    BY <2>2
  <2> HIDE DEF g
  <2> QED
    BY <1>1, <2>3, ScanExists
<1>3. \A i \in 1 .. n : f[i] = (f[i - 1] * 10 + text[i]) % WordSize
  <2> SUFFICES ASSUME NEW i \in 1 .. n PROVE f[i] = (f[i - 1] * 10 + text[i]) % WordSize
    OBVIOUS
  <2>1. f[i - 1] \in Int /\ i \in Nat
    BY <1>1
  <2> QED
    BY <1>2, <2>1
<1>4. Is(f)
  <2>1. \A i \in 0 .. n : f[i] = IF i = 0 THEN 0 ELSE (f[i - 1] * 10 + text[i]) % WordSize
    <3> SUFFICES ASSUME NEW i \in 0 .. n
                 PROVE  f[i] = IF i = 0 THEN 0 ELSE (f[i - 1] * 10 + text[i]) % WordSize
      OBVIOUS
    <3>1. CASE i = 0  BY <3>1, <1>2
    <3>2. CASE i # 0
      <4>1. i \in 1 .. n
        BY <3>2, <1>1
      <4> QED
        BY <4>1, <3>2, <1>3
    <3> QED
      BY <3>1, <3>2
  <2>2. f = [i \in 0 .. n |-> f[i]]
    BY <1>2
  <2> QED
    BY <2>1, <2>2
<1>5. Is(upTo)
  <2> HIDE DEF Is
  <2> QED
    BY <1>4
<1>6. Value(text) = upTo[n]
  BY DEF Value
<1> HIDE DEF upTo
<1>7. ASSUME NEW i \in 0 .. n PROVE upTo[i] = IF i = 0 THEN 0 ELSE (upTo[i - 1] * 10 + text[i]) % WordSize
  BY <1>1, <1>5
<1>8. upTo[0] = 0 /\ \A i \in 1 .. n : upTo[i] = (upTo[i - 1] * 10 + text[i]) % WordSize
  BY <1>1, <1>7
<1>9. upTo \in [0 .. n -> Int]
  <2> DEFINE In == {i \in Nat : i <= n => upTo[i] \in Int}
  <2>1. 0 \in In
    BY <1>8
  <2>2. ASSUME NEW i \in Nat, i \in In PROVE i + 1 \in In
    <3> SUFFICES ASSUME i + 1 <= n PROVE upTo[i + 1] \in Int
      OBVIOUS
    <3>1. i + 1 \in 1 .. n /\ i + 1 - 1 = i /\ upTo[i] \in Int
      BY <1>1, <2>2
    <3>2. upTo[i + 1] = (upTo[i] * 10 + text[i + 1]) % WordSize
      BY <1>8, <3>1
    <3> QED
      BY <1>1, <3>1, <3>2
  <2> HIDE DEF In
  <2>3. Nat \subseteq In
    BY <2>1, <2>2, SetInduction
  <2>4. \A i \in 0 .. n : upTo[i] \in Int
    BY <1>1, <2>3 DEF In
  <2>5. \E e : upTo = [i \in 0 .. n |-> e[i]]
    <3>1. upTo = [i \in 0 .. n |-> [j \in 0 .. n |-> IF j = 0 THEN 0 ELSE (upTo[j - 1] * 10 + text[j]) % WordSize][i]]
      BY <1>5
    <3> QED
      BY <3>1
  <2> QED
    BY <2>4, <2>5
<1> QED
  BY <1>6, <1>8, <1>9

LEMMA NumberScan ==
  ASSUME NEW text \in Texts
  PROVE  \E f \in [0 .. Len(text) -> Int] :
           /\ f[0] = 0 /\ Number(text) = f[Len(text)]
           /\ \A i \in 1 .. Len(text) : f[i] = f[i - 1] * 10 + text[i]
<1>1. Len(text) \in Nat /\ \A i \in 1 .. Len(text) : text[i] \in Int
  BY DEF Texts
<1> DEFINE n == Len(text)
           g == [i \in Nat |-> [v \in Int |-> IF i \in 1 .. n THEN v * 10 + text[i] ELSE 0]]
           Is(u) == u = [i \in 0 .. Len(text) |-> IF i = 0 THEN 0 ELSE u[i - 1] * 10 + text[i]]
           upTo == CHOOSE u : Is(u)
<1>2. PICK f \in [0 .. n -> Int] : f[0] = 0 /\ \A i \in 1 .. n : f[i] = g[i][f[i - 1]]
  <2>1. g \in [Nat -> [Int -> Int]]
    BY <1>1
  <2> HIDE DEF g
  <2> QED
    BY <1>1, <2>1, ScanExists
<1>3. \A i \in 1 .. n : f[i] = f[i - 1] * 10 + text[i]
  <2> SUFFICES ASSUME NEW i \in 1 .. n PROVE f[i] = f[i - 1] * 10 + text[i]
    OBVIOUS
  <2>1. f[i - 1] \in Int /\ i \in Nat
    BY <1>1
  <2> QED
    BY <1>2, <2>1
<1>4. Is(f)
  <2>1. \A i \in 0 .. n : f[i] = IF i = 0 THEN 0 ELSE f[i - 1] * 10 + text[i]
    <3> SUFFICES ASSUME NEW i \in 0 .. n
                 PROVE  f[i] = IF i = 0 THEN 0 ELSE f[i - 1] * 10 + text[i]
      OBVIOUS
    <3>1. CASE i = 0  BY <3>1, <1>2
    <3>2. CASE i # 0
      <4>1. i \in 1 .. n
        BY <3>2, <1>1
      <4> QED
        BY <4>1, <3>2, <1>3
    <3> QED
      BY <3>1, <3>2
  <2>2. f = [i \in 0 .. n |-> f[i]]
    BY <1>2
  <2> QED
    BY <2>1, <2>2
<1>5. Is(upTo)
  <2> HIDE DEF Is
  <2> QED
    BY <1>4
<1>6. Number(text) = upTo[n]
  BY DEF Number
<1> HIDE DEF upTo
<1>7. ASSUME NEW i \in 0 .. n PROVE upTo[i] = IF i = 0 THEN 0 ELSE upTo[i - 1] * 10 + text[i]
  BY <1>1, <1>5
<1>8. upTo[0] = 0 /\ \A i \in 1 .. n : upTo[i] = upTo[i - 1] * 10 + text[i]
  BY <1>1, <1>7
<1>9. upTo \in [0 .. n -> Int]
  <2> DEFINE In == {i \in Nat : i <= n => upTo[i] \in Int}
  <2>1. 0 \in In
    BY <1>8
  <2>2. ASSUME NEW i \in Nat, i \in In PROVE i + 1 \in In
    <3> SUFFICES ASSUME i + 1 <= n PROVE upTo[i + 1] \in Int
      OBVIOUS
    <3>1. i + 1 \in 1 .. n /\ i + 1 - 1 = i /\ upTo[i] \in Int
      BY <1>1, <2>2
    <3>2. upTo[i + 1] = upTo[i] * 10 + text[i + 1]
      BY <1>8, <3>1
    <3> QED
      BY <1>1, <3>1, <3>2
  <2> HIDE DEF In
  <2>3. Nat \subseteq In
    BY <2>1, <2>2, SetInduction
  <2>4. \A i \in 0 .. n : upTo[i] \in Int
    BY <1>1, <2>3 DEF In
  <2>5. \E e : upTo = [i \in 0 .. n |-> e[i]]
    <3>1. upTo = [i \in 0 .. n |-> [j \in 0 .. n |-> IF j = 0 THEN 0 ELSE upTo[j - 1] * 10 + text[j]][i]]
      BY <1>5
    <3> QED
      BY <3>1
  <2> QED
    BY <2>4, <2>5
<1> QED
  BY <1>6, <1>8, <1>9

LEMMA ModSmall ==
  ASSUME NEW a \in Nat, NEW W \in Nat, a < W
  PROVE  a % W = a
OBVIOUS

\* validate_digit computes the number that the digits denote, if it fits.
THEOREM ValueIsNumber ==
  ASSUME NEW text \in Texts, IsNumber(text), Number(text) < WordSize
  PROVE  Value(text) = Number(text) /\ Number(text) \in Nat
<1> DEFINE n == Len(text)
<1>1. n \in Nat /\ n > 0 /\ \A i \in 1 .. n : text[i] \in 0 .. 9
  BY DEF Texts, IsNumber
<1>2. PICK v \in [0 .. n -> Int] :
        /\ v[0] = 0 /\ Value(text) = v[n]
        /\ \A i \in 1 .. n : v[i] = (v[i - 1] * 10 + text[i]) % WordSize
  BY ValueScan
<1>3. PICK m \in [0 .. n -> Int] :
        /\ m[0] = 0 /\ Number(text) = m[n]
        /\ \A i \in 1 .. n : m[i] = m[i - 1] * 10 + text[i]
  BY NumberScan
<1> DEFINE Same == {i \in Nat : i <= n => /\ m[i] \in Nat
                                          /\ m[i] < WordSize => v[i] = m[i]}
<1>4. 0 \in Same
  BY <1>2, <1>3
<1>5. ASSUME NEW i \in Nat, i \in Same PROVE i + 1 \in Same
  <2> SUFFICES ASSUME i + 1 <= n
               PROVE  m[i + 1] \in Nat /\ (m[i + 1] < WordSize => v[i + 1] = m[i + 1])
    OBVIOUS
  <2>1. i + 1 \in 1 .. n /\ i + 1 - 1 = i /\ i \in 0 .. n
    BY <1>1
  <2>2. m[i] \in Nat /\ (m[i] < WordSize => v[i] = m[i])
    BY <1>1, <1>5, <2>1
  <2>3. m[i + 1] = m[i] * 10 + text[i + 1] /\ v[i + 1] = (v[i] * 10 + text[i + 1]) % WordSize
    BY <1>2, <1>3, <2>1
  <2>4. text[i + 1] \in Nat
    BY <1>1, <2>1
  <2>5. m[i + 1] \in Nat /\ m[i] <= m[i + 1]
    BY <2>2, <2>3, <2>4
  <2>6. ASSUME m[i + 1] < WordSize PROVE v[i + 1] = m[i + 1]
    <3>1. v[i] = m[i]
      BY <2>2, <2>5, <2>6, WordAssumption
    <3>2. m[i + 1] % WordSize = m[i + 1]
      BY <2>5, <2>6, ModSmall, WordAssumption
    <3> QED
      BY <2>3, <3>1, <3>2
  <2> QED
    BY <2>5, <2>6
<1> HIDE DEF Same
<1>6. n \in Same
  BY <1>1, <1>4, <1>5, SetInduction
<1>7. m[n] \in Nat /\ (m[n] < WordSize => v[n] = m[n])
  BY <1>1, <1>6 DEF Same
<1> QED
  BY <1>2, <1>3, <1>7

\* So an address that Valid accepts is one.
LEMMA ValidIsAddress ==
  ASSUME NEW ip \in Typable, Valid(ip),
         \A part \in DOMAIN ip : Number(ip[part]) < WordSize
  PROVE  IsAddress(ip)
<1>1. DOMAIN ip = {"First", "Second", "Third", "Fourth", "Port"}
  BY DEF Typable
<1>2. \A part \in DOMAIN ip : ip[part] \in Texts
  BY DEF Typable
<1>3. \A part \in DOMAIN ip : IsNumber(ip[part])
  <2>1. \A part \in {"First", "Second", "Third", "Fourth"} : IsNumber(ip[part])
    BY DEF Valid, IsByte
  <2>2. IsNumber(ip["Port"])
    BY Zenon DEF Valid, IsPort
  <2> QED
    BY ONLY <1>1, <2>1, <2>2
<1>4. \A part \in DOMAIN ip : Value(ip[part]) = Number(ip[part]) /\ Number(ip[part]) \in Nat
  BY <1>2, <1>3, ValueIsNumber
<1>5. ASSUME NEW part \in DOMAIN ip \ {"Port"} PROVE Number(ip[part]) \in 0 .. 255
  <2>1. Value(ip[part]) < 256
    BY <1>1 DEF Valid, IsByte
  <2> QED
    BY <1>4, <2>1
<1>6. Number(ip.Port) \in PortNumbers
  <2>1. Value(ip["Port"]) \in PortNumbers
    BY Zenon DEF Valid, IsPort
  <2>2. "Port" \in DOMAIN ip
    BY <1>1
  <2>3. Value(ip["Port"]) = Number(ip["Port"])
    BY <1>4, <2>2
  <2>4. Number(ip["Port"]) \in PortNumbers
    BY <2>1, <2>3
  <2> QED
    BY ONLY <2>4, Zenon
<1> QED
  BY <1>3, <1>5, <1>6 DEF IsAddress

\* The WebSocket is only ever given addresses (SetIp with IpV4::Valid), for
\* every word and every set of texts the user may type.
THEOREM ConnectsToAnAddress == Spec => []UrlIsAnAddress
<1>1. IInv => UrlIsAnAddress
  <2> SUFFICES ASSUME IInv, \A part \in DOMAIN url : Number(url[part]) < WordSize
               PROVE  IsAddress(url)
    BY DEF UrlIsAnAddress
  <2>1. url \in Typable /\ Valid(url)
    BY LinkAssumption DEF IInv, TypeOK, ValidAddress
  <2> QED
    BY <2>1, ValidIsAddress
<1> QED
  BY <1>1, Inductive, PTL
=============================================================================
