-------------------------- MODULE SdProtocol_proofs --------------------------
(***************************************************************************)
(* Proofs about SdProtocol, for any names, typed commands and bounds.      *)
(***************************************************************************)
EXTENDS SdProtocol, NatFacts, TLAPS

LEMMA BoundTypes ==
  MaxFiles \in Nat /\ MaxCommands \in Nat /\ MaxBreaks \in Nat /\ MaxRows \in Nat
BY SdAssumption

----------------------------------------------------------------------------
(* The card                                                                 *)

\* The rows of the open file, on the card and not yet flushed, are counted
\* together; without an open file nothing is left to flush; a file that is not
\* there has no rows; and a file is looked for only after the old one is closed.
LookedFor == board = "check" => ~isOpen
CardInv ==
  /\ file \in IF isOpen THEN Names ELSE {NoFile}
  /\ unflushed \in 0 .. MaxRows /\ card \in [Names -> 0 .. MaxRows]
  /\ isOpen => card[file] + unflushed <= MaxRows
  /\ ~isOpen => unflushed = 0
  /\ files \in SUBSET Names /\ (isOpen => file \in files)
  /\ \A n \in Names : n \notin files => card[n] = 0
  /\ LookedFor

\* While the user waits for the board and the card denies nothing it has, what is
\* under way to a board at work is no more than a greeting, which leaves the name
\* in the slot as it is; so the name that was looked for is the name to open.
Bare(c) == c.arg = ""
RiskInv ==
  /\ ~connected => toBoard = <<>>
  /\ ~atRisk => \/ \A i \in 1 .. Len(toBoard) : Bare(toBoard[i])
                \/ Len(toBoard) = 1 /\ board = "run" /\ ~newCommand
  /\ ~atRisk /\ board = "check" /\ Name \in files => exists

\* The steps that touch the card.
LEMMA CardSteps ==
  ASSUME [Next]_vars
  PROVE  \/ /\ UNCHANGED <<isOpen, file, unflushed, files, card>>
            /\ board' \in {board, "run", "dispatch", "index", "open", "write"} \/ ~isOpen
         \/ Reboot
         \/ \E due, flush \in BOOLEAN : Run(due, flush)
         \/ CloseSD /\ files' = files
         \/ \E ok \in BOOLEAN : OpenSD(ok)
<1>1. CASE HostStep
  BY <1>1 DEF HostStep, PressSyncTime, PressWrite, PressOpenClose, PressCreateFile,
              TypeCommand, SendCMD, TakeResponse, TakeRow, sdVars, startVars, runVars
<1>2. CASE LinkStep
  BY <1>2 DEF LinkStep, Connect, Disconnect, CommandArrives, sdVars, startVars, runVars
<1>3. CASE BoardStep
  BY <1>3 DEF BoardStep, TakeCommand, Sync, NoAnswer, Unknown, Close, Start, IndexName,
              CloseOld, CheckSD, Write, WriteArgument, BoardLeaves, sdVars, startVars
<1>4. CASE UNCHANGED vars
  BY <1>4 DEF vars
<1> QED
  BY <1>1, <1>2, <1>3, <1>4 DEF Next

LEMMA LookedForStep == LookedFor /\ [Next]_vars => LookedFor'
<1> SUFFICES ASSUME LookedFor, [Next]_vars PROVE LookedFor'
  OBVIOUS
<1>1. CASE Reboot
  BY <1>1 DEF Reboot, LookedFor
<1>2. ASSUME NEW due \in BOOLEAN, NEW flush \in BOOLEAN, Run(due, flush) PROVE LookedFor'
  BY <1>2 DEF Run, LookedFor
<1>3. CASE CloseSD
  BY <1>3 DEF CloseSD, sdVars, LookedFor
<1>4. ASSUME NEW ok \in BOOLEAN, OpenSD(ok) PROVE LookedFor'
  BY <1>4 DEF OpenSD, LookedFor
<1>5. CASE /\ UNCHANGED <<isOpen, file, unflushed, files, card>>
           /\ board' \in {board, "run", "dispatch", "index", "open", "write"} \/ ~isOpen
  BY <1>5 DEF LookedFor
<1> QED
  BY <1>1, <1>2, <1>3, <1>4, <1>5, CardSteps

LEMMA CardStep ==
  ASSUME CardInv, RiskInv, [Next]_vars
  PROVE  CardInv' /\ (~atRisk' => \A n \in Names : card'[n] >= card[n])
<1>1. /\ MaxRows \in Nat /\ unflushed \in Nat /\ card \in [Names -> 0 .. MaxRows]
      /\ \A n \in Names : card[n] \in Nat
  <2>1. MaxRows \in Nat
    BY BoundTypes
  <2>2. unflushed \in 0 .. MaxRows /\ card \in [Names -> 0 .. MaxRows]
    BY DEF CardInv, LookedFor
  <2>3. \A n \in Names : card[n] \in 0 .. MaxRows
    BY <2>2
  <2> QED
    BY <2>1, <2>2, <2>3
<1>2. CASE /\ UNCHANGED <<isOpen, file, unflushed, files, card>>
           /\ board' \in {board, "run", "dispatch", "index", "open", "write"} \/ ~isOpen
  BY <1>1, <1>2 DEF CardInv, LookedFor
<1>3. CASE Reboot
  <2>1. /\ isOpen' = FALSE /\ file' = NoFile /\ unflushed' = 0
        /\ card' = card /\ files' = files
    BY <1>3 DEF Reboot
  <2> QED
    BY <1>1, <2>1 DEF CardInv, LookedFor
<1>4. ASSUME NEW due \in BOOLEAN, NEW flush \in BOOLEAN, Run(due, flush)
      PROVE  CardInv' /\ \A n \in Names : card'[n] >= card[n]
  <2>1. UNCHANGED <<isOpen, file, files>> /\ board' # "check"
    BY <1>4 DEF Run, startVars
  <2>2. CASE due /\ isTimeSynced /\ isOpen /\ isWrite
    <3>1. /\ card[file] + unflushed < MaxRows
          /\ unflushed' = IF flush THEN 0 ELSE unflushed + 1
          /\ card' = IF flush THEN [card EXCEPT ![file] = @ + unflushed + 1] ELSE card
      BY <1>4, <2>2 DEF Run, WriteSD
    <3>2. isOpen /\ file \in Names /\ card[file] \in Nat
      BY <1>1, <2>2 DEF CardInv, LookedFor
    <3>3. CASE flush
      BY <1>1, <2>1, <3>1, <3>2, <3>3 DEF CardInv, LookedFor
    <3>4. CASE ~flush
      BY <1>1, <2>1, <3>1, <3>2, <3>4 DEF CardInv, LookedFor
    <3> QED
      BY <3>3, <3>4
  <2>3. CASE ~(due /\ isTimeSynced /\ isOpen /\ isWrite)
    <3>1. UNCHANGED <<unflushed, card>>
      BY <1>4, <2>3 DEF Run
    <3> QED
      BY <1>1, <2>1, <3>1 DEF CardInv, LookedFor
  <2> QED
    BY <2>2, <2>3
<1>5. CASE CloseSD /\ files' = files
  <2>1. CASE isOpen
    <3>1. /\ card' = [card EXCEPT ![file] = @ + unflushed]
          /\ isOpen' = FALSE /\ file' = NoFile /\ unflushed' = 0
      BY <1>5, <2>1 DEF CloseSD
    <3>2. file \in Names /\ card[file] \in Nat /\ card[file] + unflushed <= MaxRows
      BY <1>1, <2>1 DEF CardInv, LookedFor
    <3> QED
      BY <1>1, <1>5, <2>1, <3>1, <3>2 DEF CardInv, LookedFor
  <2>2. CASE ~isOpen
    <3>1. UNCHANGED <<isOpen, file, unflushed, card>>
      BY <1>5, <2>2 DEF CloseSD, sdVars
    <3> QED
      BY <1>1, <1>5, <2>2, <3>1 DEF CardInv, LookedFor
  <2> QED
    BY <2>1, <2>2
<1>6. ASSUME NEW ok \in BOOLEAN, OpenSD(ok)
      PROVE  CardInv' /\ (~atRisk' => \A n \in Names : card'[n] >= card[n])
  <2>1. /\ board = "check" /\ ~isOpen /\ board' # "check" /\ unflushed' = unflushed
        /\ atRisk' = atRisk
    BY <1>6 DEF OpenSD, CardInv, LookedFor
  <2>2. CASE ok /\ Name \in Names
    <3>1. /\ isOpen' = TRUE /\ file' = Name /\ files' = files \cup {Name}
          /\ card' = IF exists THEN card ELSE [card EXCEPT ![Name] = 0]
      BY <1>6, <2>2 DEF OpenSD
    <3>2. unflushed = 0 /\ card[Name] \in 0 .. MaxRows /\ files \in SUBSET Names
      BY <1>1, <2>1, <2>2 DEF CardInv, LookedFor
    <3>3. ~atRisk /\ ~exists => card[Name] = 0
      BY <2>1, <2>2 DEF CardInv, LookedFor, RiskInv
    <3> HIDE DEF Name
    <3>4. CASE exists
      BY <1>1, <2>1, <2>2, <3>1, <3>2, <3>4 DEF CardInv, LookedFor
    <3>5. CASE ~exists
      BY <1>1, <2>1, <2>2, <3>1, <3>2, <3>3, <3>5 DEF CardInv, LookedFor
    <3> QED
      BY <3>4, <3>5
  <2>3. CASE ~(ok /\ Name \in Names)
    <3>1. UNCHANGED <<isOpen, file, files, card>>
      BY <1>6, <2>3 DEF OpenSD
    <3> QED
      BY <1>1, <2>1, <3>1 DEF CardInv, LookedFor
  <2> QED
    BY <2>2, <2>3
<1> QED
  BY <1>2, <1>3, <1>4, <1>5, <1>6, CardSteps

----------------------------------------------------------------------------
(* Commands, responses and the index of files                               *)

MessageInv ==
  /\ toBoard \in Seq(Command) /\ toHost \in Seq(Response)
  /\ slot \in Command /\ sdName \in Names \cup {NoFile}
  /\ fileIndex \in Seq(Args) /\ Len(fileIndex) <= MaxFiles
  /\ board \in {"run", "take", "dispatch", "index", "open", "check", "write"}
  /\ commands \in 0 .. MaxCommands /\ breaks \in 0 .. MaxBreaks

LEMMA OneElement ==
  ASSUME NEW S, NEW x \in S PROVE <<x>> \in Seq(S)
OBVIOUS

LEMMA SaidIsResponse ==
  ASSUME NEW k \in {"SYNC", "SD_START", "SD_WRITE", "SD_CLOSE", "error", "cut"},
         NEW a \in {"", "0", "1", "time", "name", "deadbeef"}
  PROVE  Say(k, a) \in Seq(Response)
<1>1. [kind |-> k, arg |-> a] \in Response
  BY DEF Response
<1> QED
  BY <1>1, OneElement, Zenon DEF Say

\* Sending keeps the two queues what they are.
LEMMA SendDataType ==
  ASSUME MessageInv, NEW rs \in Seq(Response), SendData(rs)
  PROVE  toHost' \in Seq(Response) /\ toBoard' = toBoard
<1>1. toHost \in Seq(Response) /\ toHost \o rs \in Seq(Response)
  BY DEF MessageInv
<1> QED
  BY <1>1 DEF SendData

LEMMA SendCMDType ==
  ASSUME MessageInv, NEW c \in Command, SendCMD(c), sdName' \in Names \cup {NoFile}
  PROVE  MessageInv'
<1>1. toBoard \in Seq(Command) /\ Append(toBoard, c) \in Seq(Command)
  BY DEF MessageInv
<1>2. /\ toBoard' = (IF connected THEN Append(toBoard, c) ELSE toBoard)
      /\ commands < MaxCommands /\ commands' = commands + 1
      /\ UNCHANGED <<toHost, slot, fileIndex, board, breaks>>
  BY DEF SendCMD, slotVars, runVars
<1>3. commands' \in 0 .. MaxCommands
  BY <1>2, BoundTypes DEF MessageInv
<1> QED
  BY <1>1, <1>2, <1>3 DEF MessageInv

LEMMA HostMessages ==
  ASSUME MessageInv, HostStep
  PROVE  MessageInv'
<1>1. CASE PressSyncTime
  <2>1. [kind |-> "SYNC", arg |-> "time"] \in Command
    BY DEF Command, Kinds, Args
  <2> QED
    BY <1>1, <2>1, SendCMDType DEF PressSyncTime, MessageInv
<1>2. CASE PressWrite
  <2>1. [kind |-> "SD_WRITE", arg |-> IF IsWriting THEN "0" ELSE "1"] \in Command
    BY DEF Command, Kinds, Args
  <2> QED
    BY <1>2, <2>1, SendCMDType DEF PressWrite, MessageInv
<1>3. CASE PressOpenClose
  <2>1. /\ [kind |-> "SD_CLOSE", arg |-> ""] \in Command
        /\ sdName # NoFile => [kind |-> "SD_START", arg |-> sdName] \in Command
    BY DEF Command, Kinds, Args, MessageInv
  <2> QED
    BY <1>3, <2>1, SendCMDType DEF PressOpenClose, MessageInv
<1>4. ASSUME NEW n \in Names, PressCreateFile(n) PROVE MessageInv'
  <2>1. [kind |-> "SD_START", arg |-> n] \in Command
    BY DEF Command, Kinds, Args
  <2> QED
    BY <1>4, <2>1, SendCMDType DEF PressCreateFile
<1>5. ASSUME NEW c \in Typed, TypeCommand(c) PROVE MessageInv'
  <2>1. c \in Command
    BY SdAssumption
  <2> QED
    BY <1>5, <2>1, SendCMDType DEF TypeCommand, MessageInv
<1>6. CASE TakeResponse
  <2>1. /\ toHost # <<>> /\ toHost' = Tail(toHost)
        /\ UNCHANGED <<toBoard, sdName, slot, fileIndex, board, commands, breaks>>
    BY <1>6 DEF TakeResponse, slotVars, runVars
  <2>2. toHost' \in Seq(Response)
    BY <2>1 DEF MessageInv
  <2> QED
    BY <2>1, <2>2 DEF MessageInv
<1>7. CASE TakeRow
  BY <1>7 DEF TakeRow, linkVars, slotVars, runVars, MessageInv
<1> QED
  BY <1>1, <1>2, <1>3, <1>4, <1>5, <1>6, <1>7 DEF HostStep

LEMMA EmptySeqs == \A S : <<>> \in Seq(S) /\ Len(<<>>) = 0
OBVIOUS

LEMMA LinkMessages ==
  ASSUME MessageInv, LinkStep
  PROVE  MessageInv'
<1>1. CASE Connect
  <2>1. [kind |-> "STATUS", arg |-> ""] \in Command
    BY DEF Command, Kinds, Args
  <2>2. toBoard' \in Seq(Command)
    BY <1>1, <2>1, OneElement DEF Connect
  <2> QED
    BY <1>1, <2>2 DEF Connect, hostVars, slotVars, runVars, MessageInv
<1>2. CASE Disconnect
  <2>1. breaks' \in 0 .. MaxBreaks
    BY <1>2, BoundTypes DEF Disconnect, MessageInv
  <2> QED
    BY <1>2, <2>1, EmptySeqs DEF Disconnect, hostVars, slotVars, runVars, MessageInv
<1>3. CASE Reboot
  <2>1. breaks' \in 0 .. MaxBreaks
    <3>1. breaks < MaxBreaks /\ breaks' = breaks + 1
      BY <1>3 DEF Reboot
    <3>2. breaks \in 0 .. MaxBreaks
      BY DEF MessageInv
    <3> QED
      BY <3>1, <3>2, BoundTypes
  <2>2. slot' \in Command
    BY <1>3 DEF Reboot, Command, Kinds, Args
  <2>3. /\ toBoard' = <<>> /\ toHost' = <<>> /\ fileIndex' = <<>> /\ board' = "run"
        /\ UNCHANGED <<sdName, commands>>
    BY <1>3 DEF Reboot, hostVars
  <2>4. fileIndex' \in Seq(Args) /\ Len(fileIndex') <= MaxFiles
    BY <2>3, EmptySeqs, BoundTypes
  <2> QED
    BY <2>1, <2>2, <2>3, <2>4, EmptySeqs DEF MessageInv
<1>4. CASE CommandArrives
  <2>1. toBoard \in Seq(Command) /\ toBoard # <<>> /\ slot \in Command
    BY <1>4 DEF CommandArrives, MessageInv
  <2>2. Head(toBoard) \in Command /\ Tail(toBoard) \in Seq(Command)
    BY <2>1
  <2>3. slot' \in Command
    BY <1>4, <2>1, <2>2 DEF CommandArrives, Command
  <2> QED
    BY <1>4, <2>2, <2>3 DEF CommandArrives, hostVars, runVars, MessageInv
<1> QED
  BY <1>1, <1>2, <1>3, <1>4 DEF LinkStep

\* What the loop task does apart from responses and the index.
LEMMA BoardMessages ==
  ASSUME MessageInv, BoardStep
  PROVE  MessageInv'
<1>1. ASSUME NEW due \in BOOLEAN, NEW flush \in BOOLEAN, Run(due, flush) PROVE MessageInv'
  BY <1>1 DEF Run, linkVars, hostVars, slotVars, MessageInv
<1>2. CASE TakeCommand
  BY <1>2 DEF TakeCommand, linkVars, hostVars, MessageInv
<1>3. CASE NoAnswer \/ Start \/ Write
  BY <1>3 DEF NoAnswer, Start, Write, BoardLeaves, StartLeaves, linkVars, hostVars, slotVars, MessageInv
<1>4. ASSUME NEW rs \in Seq(Response), SendData(rs), StartLeaves,
             board' \in {"run", "open"}, fileIndex' = fileIndex
      PROVE  MessageInv'
  <2>1. toHost' \in Seq(Response) /\ toBoard' = toBoard
    BY <1>4, SendDataType
  <2> QED
    BY <1>4, <2>1 DEF StartLeaves, hostVars, slotVars, MessageInv
<1>5. CASE Sync
  <2>1. Say("SYNC", "time") \in Seq(Response)
    BY SaidIsResponse
  <2>2. CASE slot.arg = "time"
    BY <1>4, <1>5, <2>1, <2>2 DEF Sync, BoardLeaves
  <2>3. CASE slot.arg # "time"
    BY <1>5, <2>3 DEF Sync, BoardLeaves, StartLeaves, linkVars, hostVars, slotVars, MessageInv
  <2> QED
    BY <2>2, <2>3
<1>6. CASE Unknown
  <2>1. Say("error", "") \in Seq(Response)
    BY SaidIsResponse
  <2> QED
    BY <1>4, <1>6, <2>1 DEF Unknown, BoardLeaves
<1>7. ASSUME CloseSD, StartLeaves, board' \in {"run", "open"}, fileIndex' = fileIndex
      PROVE  MessageInv'
  <2>1. /\ Say("SD_WRITE", "0") \in Seq(Response) /\ Say("SD_CLOSE", "1") \in Seq(Response)
        /\ Say("SD_CLOSE", "0") \in Seq(Response)
    BY SaidIsResponse
  <2>2. Say("SD_WRITE", "0") \o Say("SD_CLOSE", "1") \in Seq(Response)
    BY <2>1
  <2>3. \E rs \in Seq(Response) : SendData(rs)
    BY <1>7, <2>1, <2>2 DEF CloseSD
  <2> QED
    BY <1>4, <1>7, <2>3
<1>8. CASE Close \/ CloseOld
  <2>1. fileIndex' = fileIndex /\ board' \in {"run", "open"} /\ CloseSD /\ StartLeaves
    BY <1>8 DEF Close, CloseOld, BoardLeaves
  <2> QED
    BY <1>7, <2>1
<1>9. CASE WriteArgument
  <2>1. Say("SD_WRITE", IF slot.arg = "1" THEN "1" ELSE "0") \in Seq(Response)
    BY SaidIsResponse
  <2> QED
    BY <1>4, <1>9, <2>1 DEF WriteArgument, BoardLeaves
<1>10. Tested \in Args /\ Say("SD_START", "deadbeef") \in Seq(Response)
  <2>1. slot.arg \in Args
    BY DEF MessageInv, Command
  <2>2. DefaultName \in Args
    BY SdAssumption DEF Args
  <2>3. Say("SD_START", "deadbeef") \in Seq(Response)
    BY SaidIsResponse
  <2> QED
    BY <2>1, <2>2, <2>3 DEF Tested
<1>11. CASE IndexName
  <2>1. CASE Len(fileIndex) < MaxFiles
    <3>1. fileIndex \in Seq(Args) /\ Append(fileIndex, Tested) \in Seq(Args)
          /\ Len(Append(fileIndex, Tested)) = Len(fileIndex) + 1 /\ Len(fileIndex) \in Nat
      BY <1>10 DEF MessageInv
    <3>2. /\ fileIndex' \in {fileIndex, Append(fileIndex, Tested)} /\ board' = "open"
          /\ UNCHANGED <<toBoard, toHost>> /\ StartLeaves
      BY <1>11, <2>1, Zenon DEF IndexName, linkVars
    <3>3. fileIndex' \in Seq(Args) /\ Len(fileIndex') <= MaxFiles
      BY <2>1, <3>1, <3>2, BoundTypes
    <3> QED
      BY <3>2, <3>3 DEF StartLeaves, hostVars, slotVars, MessageInv
  <2>2. CASE ~(Len(fileIndex) < MaxFiles)
    BY <1>4, <1>10, <1>11, <2>2 DEF IndexName
  <2> QED
    BY <2>1, <2>2
<1>12. ASSUME NEW found \in BOOLEAN, CheckSD(found) PROVE MessageInv'
  BY <1>12 DEF CheckSD, StartLeaves, linkVars, hostVars, slotVars, MessageInv
<1>13. ASSUME NEW ok \in BOOLEAN, OpenSD(ok) PROVE MessageInv'
  <2>1. Say("cut", "") \in Seq(Response) /\ Say("SD_START", "name") \in Seq(Response)
    BY SaidIsResponse
  <2>2. \E rs \in Seq(Response) : SendData(rs)
    <3>1. CASE ok /\ Name \in Names
      <4>1. \E n \in Answered :
              SendData(IF n \in LongNames THEN Say("cut", "") ELSE Say("SD_START", "name"))
        BY <1>13, <3>1 DEF OpenSD
      <4> QED
        BY <2>1, <4>1
    <3>2. CASE ~(ok /\ Name \in Names)
      BY <1>10, <1>13, <3>2 DEF OpenSD
    <3> QED
      BY <3>1, <3>2
  <2>3. board' = "run" /\ fileIndex' = fileIndex /\ StartLeaves
    BY <1>13 DEF OpenSD
  <2> QED
    BY <1>4, <2>2, <2>3
<1> QED
  BY <1>1, <1>2, <1>3, <1>5, <1>6, <1>8, <1>9, <1>11, <1>12, <1>13 DEF BoardStep

LEMMA MessageStep == MessageInv /\ [Next]_vars => MessageInv'
<1>1. MessageInv /\ UNCHANGED vars => MessageInv'
  BY DEF vars, MessageInv
<1> QED
  BY <1>1, HostMessages, LinkMessages, BoardMessages DEF Next

----------------------------------------------------------------------------
(* What puts flushed rows at risk                                           *)

LEMMA NameKept == ASSUME UNCHANGED <<slot, defaulted>> PROVE Name' = Name
BY DEF Name

\* What is neither sent, nor received, nor done by the board.
LEMMA RiskKept ==
  ASSUME RiskInv, UNCHANGED <<connected, toBoard, atRisk, newCommand, board, slot,
                              defaulted, exists, files>>
  PROVE  RiskInv'
BY NameKept DEF RiskInv, Bare

\* A user who waits sends to a board that has nothing left to do.
LEMMA RiskSent ==
  ASSUME RiskInv, NEW c, SendCMD(c)
  PROVE  RiskInv'
<1>1. /\ toBoard' = IF connected THEN Append(toBoard, c) ELSE toBoard
      /\ atRisk' = (atRisk \/ (connected /\ Busy))
      /\ UNCHANGED <<connected, newCommand, board, slot, defaulted, exists, files>>
  BY DEF SendCMD, slotVars, runVars, startVars
<1>2. (~atRisk /\ board = "check" /\ Name \in files => exists)'
  BY <1>1, NameKept DEF RiskInv
<1>3. CASE ~connected
  BY <1>1, <1>2, <1>3 DEF RiskInv, Bare
<1>4. CASE connected /\ Busy
  BY <1>1, <1>2, <1>4 DEF RiskInv
<1>5. CASE connected /\ ~Busy
  <2>1. toBoard = <<>> /\ ~newCommand /\ board = "run"
    BY <1>5 DEF Busy
  <2>2. Len(Append(<<>>, c)) = 1
    OBVIOUS
  <2> QED
    BY <1>1, <1>2, <1>5, <2>1, <2>2 DEF RiskInv
<1> QED
  BY <1>3, <1>4, <1>5

\* A greeting has no argument and leaves the slot's as it is; any other command
\* finds the board at rest.
LEMMA RiskReceived ==
  ASSUME MessageInv, RiskInv, CommandArrives
  PROVE  RiskInv'
<1>1. /\ toBoard # <<>> /\ toBoard' = Tail(toBoard)
      /\ UNCHANGED <<connected, atRisk, board, defaulted, exists, files>>
  BY DEF CommandArrives, runVars, startVars
<1>2. toBoard \in Seq(Command) /\ Head(toBoard) = toBoard[1] /\ 1 \in 1 .. Len(toBoard)
      /\ Len(Tail(toBoard)) = Len(toBoard) - 1
      /\ \A i \in 1 .. Len(Tail(toBoard)) : i + 1 \in 1 .. Len(toBoard)
                                          /\ Tail(toBoard)[i] = toBoard[i + 1]
  BY <1>1 DEF MessageInv
<1>3. connected
  BY <1>1 DEF RiskInv
<1>4. CASE atRisk
  BY <1>1, <1>3, <1>4 DEF RiskInv
<1>5. CASE ~atRisk /\ \A i \in 1 .. Len(toBoard) : Bare(toBoard[i])
  <2>1. Bare(Head(toBoard)) => slot'.arg = slot.arg
    BY Zenon DEF CommandArrives, Bare
  <2>2. Name' = Name
    BY <1>1, <1>2, <1>5, <2>1 DEF Name
  <2>3. \A i \in 1 .. Len(toBoard') : Bare(toBoard'[i])
    BY <1>1, <1>2, <1>5
  <2>4. \A i \in 1 .. Len(toBoard') : Bare(toBoard[i])'
    BY <2>3, Zenon DEF Bare
  <2> QED
    BY <1>1, <1>3, <1>5, <2>2, <2>4 DEF RiskInv
<1>6. CASE ~atRisk /\ Len(toBoard) = 1 /\ board = "run"
  <2>1. Len(toBoard') = 0 /\ 1 .. 0 = {}
    BY <1>1, <1>2, <1>6
  <2> QED
    BY <1>1, <1>3, <1>6, <2>1 DEF RiskInv
<1> QED
  BY <1>4, <1>5, <1>6 DEF RiskInv

\* The board at work leaves the link as it is.
LEMMA RiskWorked ==
  ASSUME RiskInv, UNCHANGED <<connected, toBoard, atRisk>>,
         board # "run" \/ (newCommand' = newCommand /\ (~newCommand => board' = "run")),
         board' # "check"
  PROVE  RiskInv'
<1>1. ~connected' => toBoard' = <<>>
  BY DEF RiskInv
<1>2. (\A i \in 1 .. Len(toBoard) : Bare(toBoard[i]))
        => (\A i \in 1 .. Len(toBoard) : Bare(toBoard[i]))'
  BY Zenon DEF Bare
<1> QED
  BY <1>1, <1>2 DEF RiskInv

LEMMA RiskStep == MessageInv /\ RiskInv /\ [Next]_vars => RiskInv'
<1> SUFFICES ASSUME MessageInv, RiskInv, [Next]_vars PROVE RiskInv'
  OBVIOUS
<1>1. CASE TakeResponse \/ TakeRow \/ UNCHANGED vars
  <2>1. UNCHANGED <<connected, toBoard, atRisk, newCommand, board, slot, defaulted, exists,
                    files>>
    BY <1>1 DEF TakeResponse, TakeRow, vars, linkVars, slotVars, runVars, startVars
  <2> QED
    BY <2>1, RiskKept
<1>2. CASE HostStep /\ ~TakeResponse /\ ~TakeRow
  <2>1. \E c : SendCMD(c)
    BY <1>2, Zenon DEF HostStep, PressSyncTime, PressWrite, PressOpenClose,
                       PressCreateFile, TypeCommand
  <2> QED
    BY <2>1, RiskSent
<1>3. CASE Connect
  <2> DEFINE greeting == [kind |-> "STATUS", arg |-> ""]
  <2>1. Bare(greeting)
    BY Zenon DEF Bare
  <2>2. /\ toBoard' = <<greeting>> /\ connected' = TRUE
        /\ UNCHANGED <<atRisk, newCommand, board, slot, defaulted, exists, files>>
    BY <1>3 DEF Connect, slotVars, runVars, startVars
  <2> HIDE DEF greeting
  <2>3. \A i \in 1 .. Len(toBoard') : toBoard'[i] = greeting
    BY <2>2
  <2>4. (\A i \in 1 .. Len(toBoard) : Bare(toBoard[i]))'
    BY <2>1, <2>3, Zenon DEF Bare
  <2> QED
    BY <2>2, <2>4, NameKept DEF RiskInv
<1>4. CASE Disconnect
  <2>1. /\ toBoard' = <<>>
        /\ UNCHANGED <<atRisk, newCommand, board, slot, defaulted, exists, files>>
    BY <1>4 DEF Disconnect, slotVars, runVars, startVars
  <2> QED
    BY <2>1, NameKept DEF RiskInv
<1>5. CASE Reboot
  <2>1. toBoard' = <<>> /\ board' = "run"
    BY <1>5 DEF Reboot
  <2> QED
    BY <2>1 DEF RiskInv
<1>6. CASE CommandArrives
  BY <1>6, RiskReceived
<1>7. ASSUME NEW due \in BOOLEAN, NEW flush \in BOOLEAN, Run(due, flush) PROVE RiskInv'
  <2>1. /\ UNCHANGED <<connected, toBoard, atRisk, newCommand>>
        /\ board' = IF newCommand THEN "take" ELSE "run"
    BY <1>7 DEF Run, linkVars, slotVars
  <2> QED
    BY <2>1, RiskWorked
<1>8. CASE BoardStep /\ ~(\E due, flush \in BOOLEAN : Run(due, flush))
                    /\ ~(\E found \in BOOLEAN : CheckSD(found))
  <2>1. \A rs : SendData(rs) => UNCHANGED <<connected, toBoard>>
    BY DEF SendData
  <2>2. CloseSD => UNCHANGED <<connected, toBoard>>
    BY <2>1 DEF CloseSD
  <2>3. CASE TakeCommand \/ NoAnswer \/ Start \/ Write
    <3>1. UNCHANGED <<connected, toBoard, atRisk>> /\ board # "run" /\ board' # "check"
      BY <2>3 DEF TakeCommand, NoAnswer, Start, Write, BoardLeaves, linkVars
    <3> QED
      BY <3>1, RiskWorked
  <2>4. CASE Sync \/ Unknown \/ Close \/ CloseOld \/ WriteArgument
    <3>1. UNCHANGED <<connected, toBoard, atRisk>> /\ board # "run" /\ board' # "check"
      BY <2>1, <2>2, <2>4 DEF Sync, Unknown, Close, CloseOld, WriteArgument, BoardLeaves,
                              linkVars
    <3> QED
      BY <3>1, RiskWorked
  <2>5. CASE IndexName
    <3>1. UNCHANGED <<connected, toBoard, atRisk>> /\ board # "run" /\ board' # "check"
      BY <2>1, <2>5, Zenon DEF IndexName, linkVars
    <3> QED
      BY <3>1, RiskWorked
  <2>6. ASSUME NEW ok \in BOOLEAN, OpenSD(ok) PROVE RiskInv'
    <3>1. UNCHANGED <<connected, toBoard, atRisk>> /\ board # "run" /\ board' # "check"
      <4>1. UNCHANGED <<connected, toBoard>>
        BY <2>1, <2>6, Zenon DEF OpenSD
      <4> QED
        BY <2>6, <4>1 DEF OpenSD
    <3> QED
      BY <3>1, RiskWorked
  <2> QED
    BY <1>8, <2>3, <2>4, <2>5, <2>6 DEF BoardStep
<1>9. ASSUME NEW found \in BOOLEAN, CheckSD(found) PROVE RiskInv'
  <2>1. /\ exists' = found /\ atRisk' = (atRisk \/ (Name \in files /\ ~found))
        /\ UNCHANGED <<connected, toBoard, slot, defaulted, files>> /\ board # "run"
    BY <1>9 DEF CheckSD, StartLeaves, linkVars, slotVars
  <2>2. Name' = Name
    BY <2>1, NameKept
  <2>3. (\A i \in 1 .. Len(toBoard) : Bare(toBoard[i]))
          => (\A i \in 1 .. Len(toBoard) : Bare(toBoard[i]))'
    BY <2>1, Zenon DEF Bare
  <2> HIDE DEF Name
  <2> QED
    BY <2>1, <2>2, <2>3 DEF RiskInv
<1> QED
  BY <1>1, <1>2, <1>3, <1>4, <1>5, <1>6, <1>7, <1>8, <1>9 DEF Next, LinkStep

----------------------------------------------------------------------------
(* The flags of host, link and board                                        *)

FlagInv ==
  /\ connected \in BOOLEAN /\ IsOpen \in BOOLEAN /\ IsWriting \in BOOLEAN
  /\ partial \in BOOLEAN /\ newCommand \in BOOLEAN /\ isTimeSynced \in BOOLEAN
  /\ isOpen \in BOOLEAN /\ isWrite \in BOOLEAN /\ lost \in BOOLEAN
  /\ defaulted \in BOOLEAN /\ exists \in BOOLEAN /\ atRisk \in BOOLEAN

LEMMA HandledType ==
  ASSUME NEW r, NEW flags \in [open : BOOLEAN, writing : BOOLEAN]
  PROVE  Handled(r, flags) \in [open : BOOLEAN, writing : BOOLEAN]
BY DEF Handled

\* Whatever is sent, lost stays a flag.
LEMMA SendDataFlag ==
  ASSUME FlagInv, NEW rs, SendData(rs)
  PROVE  lost' \in BOOLEAN /\ connected' = connected
BY DEF SendData

LEMMA CloseSDFlags ==
  ASSUME FlagInv, CloseSD
  PROVE  /\ lost' \in BOOLEAN /\ connected' = connected
         /\ isOpen' \in BOOLEAN /\ isWrite' \in BOOLEAN
<1>1. CASE isOpen
  BY <1>1, SendDataFlag, Zenon DEF CloseSD
<1>2. CASE ~isOpen
  <2>1. isOpen' = isOpen /\ isWrite' = isWrite /\ SendData(Say("SD_CLOSE", "0"))
    BY <1>2 DEF CloseSD, sdVars
  <2> QED
    BY <2>1, SendDataFlag DEF FlagInv
<1> QED
  BY <1>1, <1>2

LEMMA HostFlags ==
  ASSUME FlagInv, HostStep
  PROVE  FlagInv'
<1>1. ASSUME NEW c, SendCMD(c) PROVE FlagInv'
  <2>1. atRisk' \in BOOLEAN
    BY <1>1, Zenon DEF SendCMD
  <2>2. UNCHANGED <<connected, IsOpen, IsWriting, partial, newCommand, isTimeSynced, isOpen,
                    isWrite, lost, defaulted, exists>>
    BY <1>1 DEF SendCMD, slotVars, runVars, sdVars, startVars
  <2> QED
    BY <2>1, <2>2 DEF FlagInv
<1>2. CASE PressSyncTime \/ PressWrite \/ PressOpenClose
  BY <1>1, <1>2 DEF PressSyncTime, PressWrite, PressOpenClose
<1>3. CASE \/ \E n \in Names : PressCreateFile(n)
           \/ \E c \in Typed : TypeCommand(c)
  BY <1>1, <1>3 DEF PressCreateFile, TypeCommand
<1>4. CASE TakeResponse
  <2> DEFINE r == Head(toHost)
             h == Handled(r, [open |-> IsOpen, writing |-> IsWriting])
  <2>1. h \in [open : BOOLEAN, writing : BOOLEAN]
    BY HandledType DEF FlagInv
  <2>2. h.open \in BOOLEAN /\ h.writing \in BOOLEAN
    BY <2>1
  <2> HIDE DEF h
  <2>3. /\ partial' = (r.kind = "cut") /\ lost' = (lost \/ partial)
        /\ IF partial \/ r.kind = "cut" THEN UNCHANGED <<IsOpen, IsWriting>>
           ELSE IsOpen' = h.open /\ IsWriting' = h.writing
    BY <1>4 DEF TakeResponse, h
  <2>4. IsOpen' \in BOOLEAN /\ IsWriting' \in BOOLEAN
    <3>1. CASE partial \/ r.kind = "cut"
      <4>1. IsOpen' = IsOpen /\ IsWriting' = IsWriting
        BY <2>3, <3>1
      <4> QED
        BY <4>1 DEF FlagInv
    <3>2. CASE ~(partial \/ r.kind = "cut")
      <4>1. IsOpen' = h.open /\ IsWriting' = h.writing
        BY <2>3, <3>2
      <4> QED
        BY <2>2, <4>1
    <3> QED
      BY <3>1, <3>2
  <2>5. partial' \in BOOLEAN /\ lost' \in BOOLEAN
    BY <2>3, Zenon
  <2>6. UNCHANGED <<connected, newCommand, isTimeSynced, isOpen, isWrite, defaulted, exists,
                    atRisk>>
    BY <1>4 DEF TakeResponse, slotVars, runVars, sdVars, startVars
  <2> QED
    BY <2>4, <2>5, <2>6 DEF FlagInv
<1>5. CASE TakeRow
  BY <1>5 DEF TakeRow, linkVars, slotVars, runVars, sdVars, startVars, FlagInv
<1> QED
  BY <1>2, <1>3, <1>4, <1>5 DEF HostStep

LEMMA LinkFlags ==
  ASSUME FlagInv, LinkStep
  PROVE  FlagInv'
<1>1. CASE Connect
  BY <1>1 DEF Connect, hostVars, slotVars, runVars, sdVars, startVars, FlagInv
<1>2. CASE Disconnect
  <2>1. lost' = (lost \/ toHost # <<>>) /\ connected' = FALSE
    BY <1>2 DEF Disconnect
  <2>2. lost' \in BOOLEAN
    BY <2>1, Zenon
  <2> QED
    BY <1>2, <2>1, <2>2 DEF Disconnect, hostVars, slotVars, runVars, sdVars, startVars, FlagInv
<1>3. CASE Reboot
  BY <1>3 DEF Reboot, hostVars, FlagInv
<1>4. CASE CommandArrives
  BY <1>4 DEF CommandArrives, hostVars, runVars, sdVars, startVars, FlagInv
<1> QED
  BY <1>1, <1>2, <1>3, <1>4 DEF LinkStep

LEMMA BoardFlags ==
  ASSUME FlagInv, BoardStep
  PROVE  FlagInv'
<1>1. ASSUME NEW due \in BOOLEAN, NEW flush \in BOOLEAN, Run(due, flush) PROVE FlagInv'
  BY <1>1 DEF Run, linkVars, hostVars, slotVars, startVars, FlagInv
<1>2. CASE TakeCommand
  BY <1>2 DEF TakeCommand, linkVars, hostVars, sdVars, startVars, FlagInv
<1>3. CASE NoAnswer \/ Start \/ Write
  BY <1>3 DEF NoAnswer, Start, Write, BoardLeaves, StartLeaves, linkVars, hostVars, slotVars,
              sdVars, startVars, FlagInv
<1>4. ASSUME BoardLeaves, lost' \in BOOLEAN, connected' = connected,
             isTimeSynced' \in BOOLEAN, isOpen' \in BOOLEAN, isWrite' \in BOOLEAN
      PROVE  FlagInv'
  BY <1>4 DEF BoardLeaves, StartLeaves, hostVars, slotVars, startVars, FlagInv
<1>5. CASE Sync
  <2>1. BoardLeaves /\ isTimeSynced' = TRUE /\ UNCHANGED <<isOpen, isWrite>>
    BY <1>5 DEF Sync, sdVars
  <2>2. lost' \in BOOLEAN /\ connected' = connected
    <3>1. CASE slot.arg = "time"
      BY <1>5, <3>1, SendDataFlag DEF Sync
    <3>2. CASE slot.arg # "time"
      <4>1. lost' = lost /\ connected' = connected
        BY <1>5, <3>2 DEF Sync, linkVars
      <4> QED
        BY <4>1 DEF FlagInv
    <3> QED
      BY <3>1, <3>2
  <2> QED
    BY <1>4, <2>1, <2>2 DEF FlagInv
<1>6. CASE Unknown
  <2>1. BoardLeaves /\ UNCHANGED <<isTimeSynced, isOpen, isWrite>> /\ SendData(Say("error", ""))
    BY <1>6 DEF Unknown, sdVars
  <2> QED
    BY <1>4, <2>1, SendDataFlag DEF FlagInv
<1>7. CASE Close \/ CloseOld
  <2>1. BoardLeaves /\ CloseSD /\ isTimeSynced' = isTimeSynced
    BY <1>7 DEF Close, CloseOld
  <2> QED
    BY <1>4, <2>1, CloseSDFlags DEF FlagInv
<1>8. CASE WriteArgument
  <2>1. /\ BoardLeaves /\ UNCHANGED <<isTimeSynced, isOpen>>
        /\ isWrite' = (slot.arg = "1")
        /\ SendData(Say("SD_WRITE", IF slot.arg = "1" THEN "1" ELSE "0"))
    BY <1>8 DEF WriteArgument
  <2>2. isWrite' \in BOOLEAN
    BY <2>1, Zenon
  <2> QED
    BY <1>4, <2>1, <2>2, SendDataFlag DEF FlagInv
<1>9. CASE IndexName
  <2>1. StartLeaves /\ UNCHANGED <<isTimeSynced, isOpen, isWrite, exists, atRisk>>
    BY <1>9 DEF IndexName, sdVars
  <2>2. lost' \in BOOLEAN /\ connected' = connected /\ defaulted' \in BOOLEAN
    <3>1. CASE Len(fileIndex) < MaxFiles
      <4>1. lost' = lost /\ connected' = connected
        BY <1>9, <3>1 DEF IndexName, linkVars
      <4>2. defaulted' \in BOOLEAN
        BY <1>9, <3>1, Zenon DEF IndexName
      <4> QED
        BY <4>1, <4>2 DEF FlagInv
    <3>2. CASE ~(Len(fileIndex) < MaxFiles)
      <4>1. SendData(Say("SD_START", "deadbeef")) /\ defaulted' = defaulted
        BY <1>9, <3>2 DEF IndexName
      <4> QED
        BY <4>1, SendDataFlag DEF FlagInv
    <3> QED
      BY <3>1, <3>2
  <2> QED
    BY <2>1, <2>2 DEF StartLeaves, hostVars, slotVars, FlagInv
<1>10. ASSUME NEW found \in BOOLEAN, CheckSD(found) PROVE FlagInv'
  <2>1. exists' = found /\ atRisk' \in BOOLEAN
    BY <1>10, Zenon DEF CheckSD
  <2>2. /\ StartLeaves
        /\ UNCHANGED <<connected, lost, isTimeSynced, isOpen, isWrite, defaulted>>
    BY <1>10 DEF CheckSD, linkVars, sdVars
  <2> QED
    BY <2>1, <2>2 DEF StartLeaves, hostVars, slotVars, FlagInv
<1>11. ASSUME NEW ok \in BOOLEAN, OpenSD(ok) PROVE FlagInv'
  <2>1. /\ StartLeaves /\ UNCHANGED <<isTimeSynced, isWrite, atRisk>>
        /\ defaulted' = FALSE /\ exists' = FALSE
    BY <1>11 DEF OpenSD
  <2>2. isOpen' \in BOOLEAN /\ \E rs : SendData(rs)
    <3>1. CASE ok /\ Name \in Names
      BY <1>11, <3>1, Zenon DEF OpenSD
    <3>2. CASE ~(ok /\ Name \in Names)
      <4>1. isOpen' = isOpen /\ SendData(Say("SD_START", "deadbeef"))
        BY <1>11, <3>2 DEF OpenSD
      <4> QED
        BY <4>1 DEF FlagInv
    <3> QED
      BY <3>1, <3>2
  <2>3. lost' \in BOOLEAN /\ connected' = connected
    BY <2>2, SendDataFlag
  <2> QED
    BY <2>1, <2>2, <2>3 DEF StartLeaves, hostVars, slotVars, FlagInv
<1> QED
  BY <1>1, <1>2, <1>3, <1>5, <1>6, <1>7, <1>8, <1>9, <1>10, <1>11 DEF BoardStep

LEMMA FlagStep == FlagInv /\ [Next]_vars => FlagInv'
<1>1. FlagInv /\ UNCHANGED vars => FlagInv'
  BY DEF vars, FlagInv
<1> QED
  BY <1>1, HostFlags, LinkFlags, BoardFlags DEF Next

----------------------------------------------------------------------------
(* What the host will know once it has read the responses under way         *)

Flags == [open : BOOLEAN, writing : BOOLEAN]

\* Reading is an iteration of Handled along q.
Reads(u, q, flags) ==
  /\ u \in [Nat -> Flags] /\ u[0] = flags
  /\ \A n \in Nat : u[n + 1] = Handled(q[n + 1], u[n])

LEMMA ReadingReads ==
  ASSUME NEW q, NEW flags \in Flags
  PROVE  Reads(Reading(q, flags), q, flags)
<1>1. PICK f \in [Nat -> Flags] :
        f[0] = flags /\ \A n \in Nat : f[n + 1] = Handled(q[n + 1], f[n])
  <2> DEFINE g == [n \in Nat |-> [h \in Flags |-> Handled(q[n], h)]]
  <2>1. g \in [Nat -> [Flags -> Flags]]
    BY HandledType DEF Flags
  <2>2. \A n \in Nat, h \in Flags : g[n + 1][h] = Handled(q[n + 1], h)
    OBVIOUS
  <2> HIDE DEF g
  <2>3. PICK f : Iterates(f, Flags, flags, g)
    BY <2>1, Iteration
  <2> QED
    BY <2>2, <2>3 DEF Iterates
<1> DEFINE Is(u) == u = [i \in Nat |-> IF i = 0 THEN flags ELSE Handled(q[i], u[i - 1])]
           upTo == CHOOSE u : Is(u)
<1>4. Is(f)
  <2>1. ASSUME NEW i \in Nat, i # 0 PROVE f[i] = Handled(q[i], f[i - 1])
    <3>1. i - 1 \in Nat /\ i - 1 + 1 = i
      BY <2>1
    <3> QED
      BY <1>1, <3>1
  <2>2. \A i \in Nat : f[i] = IF i = 0 THEN flags ELSE Handled(q[i], f[i - 1])
    BY <1>1, <2>1
  <2> QED
    BY <1>1, <2>2
<1>5. Is(upTo)
  <2> HIDE DEF Is
  <2> QED
    BY <1>4
<1>6. Reading(q, flags) = upTo
  BY DEF Reading
<1> HIDE DEF upTo
<1>7. upTo[0] = flags /\ \A n \in Nat : upTo[n + 1] = Handled(q[n + 1], upTo[n])
  <2>1. \A i \in Nat : upTo[i] = IF i = 0 THEN flags ELSE Handled(q[i], upTo[i - 1])
    BY <1>5
  <2>2. ASSUME NEW n \in Nat PROVE upTo[n + 1] = Handled(q[n + 1], upTo[n])
    <3>1. n + 1 \in Nat /\ n + 1 # 0 /\ n + 1 - 1 = n
      OBVIOUS
    <3> QED
      BY <2>1, <3>1
  <2> QED
    BY <2>1, <2>2
<1>8. upTo \in [Nat -> Flags]
  <2> DEFINE Good == {n \in Nat : upTo[n] \in Flags}
  <2>1. 0 \in Good
    BY <1>7
  <2>2. \A n \in Nat : n \in Good => n + 1 \in Good
    BY <1>7, HandledType DEF Flags
  <2>3. Nat \subseteq Good
    <3> HIDE DEF Good
    <3> QED
      BY <2>1, <2>2, SetInduction
  <2>4. \E e : upTo = [i \in Nat |-> e[i]]
    BY <1>5
  <2> QED
    BY <2>3, <2>4
<1> QED
  BY <1>6, <1>7, <1>8 DEF Reads

LEMMA AfterEmpty ==
  ASSUME NEW flags \in Flags
  PROVE  After(<<>>, flags) = flags
<1>1. Reads(Reading(<<>>, flags), <<>>, flags)
  BY ReadingReads
<1> QED
  BY <1>1 DEF After, Reads

\* What is read first does not depend on what comes after it.
LEMMA SameReading ==
  ASSUME NEW q \in Seq(Response), NEW r \in Response, NEW flags \in Flags,
         NEW i \in 0 .. Len(q)
  PROVE  Reading(Append(q, r), flags)[i] = Reading(q, flags)[i]
<1> DEFINE q1 == Append(q, r)
           u == Reading(q, flags)
           v == Reading(q1, flags)
<1>1. Reads(u, q, flags) /\ Reads(v, q1, flags)
  BY ReadingReads
<1>2. \A n \in Nat : n + 1 <= Len(q) => q1[n + 1] = q[n + 1]
  OBVIOUS
<1> HIDE DEF q1, u, v
<1> DEFINE Same == {n \in Nat : n <= Len(q) => u[n] = v[n]}
<1>3. 0 \in Same
  BY <1>1 DEF Reads
<1>4. ASSUME NEW n \in Nat, n \in Same PROVE n + 1 \in Same
  <2>1. CASE n + 1 <= Len(q)
    <3>1. u[n] = v[n] /\ q1[n + 1] = q[n + 1]
      BY <1>2, <1>4, <2>1
    <3>2. u[n + 1] = Handled(q[n + 1], u[n]) /\ v[n + 1] = Handled(q1[n + 1], v[n])
      BY <1>1 DEF Reads
    <3> QED
      BY <3>1, <3>2
  <2>2. CASE ~(n + 1 <= Len(q))
    BY <2>2
  <2> QED
    BY <2>1, <2>2
<1> HIDE DEF Same
<1>5. i \in Same
  <2>1. i \in Nat
    OBVIOUS
  <2> QED
    BY <1>3, <1>4, <2>1, SetInduction
<1> QED
  BY <1>5 DEF Same, q1, u, v

LEMMA AfterAppend ==
  ASSUME NEW q \in Seq(Response), NEW r \in Response, NEW flags \in Flags
  PROVE  /\ After(q, flags) \in Flags
         /\ After(Append(q, r), flags) = Handled(r, After(q, flags))
<1> DEFINE q1 == Append(q, r)
           u == Reading(q, flags)
           v == Reading(q1, flags)
<1>1. Reads(u, q, flags) /\ Reads(v, q1, flags)
  BY ReadingReads
<1>2. Len(q) \in Nat /\ Len(q1) = Len(q) + 1 /\ q1[Len(q) + 1] = r
  OBVIOUS
<1>3. u[Len(q)] = v[Len(q)]
  BY <1>2, SameReading
<1> HIDE DEF q1, u, v
<1>4. v[Len(q) + 1] = Handled(r, v[Len(q)]) /\ u[Len(q)] \in Flags
  BY <1>1, <1>2 DEF Reads
<1> QED
  BY <1>2, <1>3, <1>4 DEF After, q1, u, v

\* Reading one response less from the flags it leaves.
LEMMA RestReading ==
  ASSUME NEW q \in Seq(Response), q # <<>>, NEW flags \in Flags,
         NEW i \in 0 .. Len(q) - 1
  PROVE  Reading(Tail(q), Handled(Head(q), flags))[i] = Reading(q, flags)[i + 1]
<1> DEFINE q1 == Tail(q)
           flags1 == Handled(Head(q), flags)
           u == Reading(q, flags)
           v == Reading(q1, flags1)
<1>1. flags1 \in Flags
  BY HandledType DEF Flags
<1>2. Reads(u, q, flags) /\ Reads(v, q1, flags1)
  <2> HIDE DEF q1, flags1
  <2> QED
    BY <1>1, ReadingReads
<1>3. /\ Len(q) \in Nat \ {0} /\ Len(q1) = Len(q) - 1 /\ Head(q) = q[1]
      /\ \A n \in Nat : n + 1 <= Len(q1) => q1[n + 1] = q[n + 2]
  OBVIOUS
<1> HIDE DEF q1, u, v
<1>4. u[1] = flags1
  <2>1. u[0 + 1] = Handled(q[0 + 1], u[0]) /\ u[0] = flags
    BY <1>2 DEF Reads
  <2> QED
    BY <1>3, <2>1
<1> HIDE DEF flags1
<1> DEFINE Same == {n \in Nat : n <= Len(q1) => v[n] = u[n + 1]}
<1>5. 0 \in Same
  <2>1. v[0] = flags1
    BY <1>2 DEF Reads
  <2>2. v[0] = u[0 + 1]
    BY <1>4, <2>1
  <2> QED
    BY <2>2
<1>6. ASSUME NEW n \in Nat, n \in Same PROVE n + 1 \in Same
  <2>1. CASE n + 1 <= Len(q1)
    <3>1. v[n] = u[n + 1] /\ q1[n + 1] = q[n + 2]
      BY <1>3, <1>6, <2>1
    <3>2. v[n + 1] = Handled(q1[n + 1], v[n])
      BY <1>2 DEF Reads
    <3>3. u[(n + 1) + 1] = Handled(q[(n + 1) + 1], u[n + 1])
      BY <1>2 DEF Reads
    <3>4. (n + 1) + 1 = n + 2
      OBVIOUS
    <3> QED
      BY <3>1, <3>2, <3>3, <3>4
  <2>2. CASE ~(n + 1 <= Len(q1))
    BY <1>3, <2>2
  <2> QED
    BY <2>1, <2>2
<1> HIDE DEF Same
<1>7. i \in Same /\ i <= Len(q1)
  <2>1. i \in Nat /\ i <= Len(q1)
    BY <1>3
  <2> QED
    BY <1>5, <1>6, <2>1, SetInduction
<1> QED
  BY <1>7 DEF Same, q1, u, v, flags1

LEMMA AfterTail ==
  ASSUME NEW q \in Seq(Response), q # <<>>, NEW flags \in Flags
  PROVE  After(Tail(q), Handled(Head(q), flags)) = After(q, flags)
<1>1. Len(Tail(q)) = Len(q) - 1 /\ Len(q) - 1 \in 0 .. Len(q) - 1 /\ Len(q) - 1 + 1 = Len(q)
  OBVIOUS
<1>2. Reading(Tail(q), Handled(Head(q), flags))[Len(q) - 1] = Reading(q, flags)[Len(q) - 1 + 1]
  BY <1>1, RestReading
<1> QED
  BY <1>1, <1>2 DEF After

----------------------------------------------------------------------------
(* The host follows the board                                               *)

ShownFlags == [open |-> IsOpen, writing |-> IsWriting]
CardFlags  == [open |-> isOpen, writing |-> isWrite]

\* As long as nothing is lost nothing is cut, so that every response is read.
NothingCut ==
  ~lost => ~partial /\ \A i \in 1 .. Len(toHost) : toHost[i].kind # "cut"

FollowInv == MessageInv /\ FlagInv /\ LookedFor /\ NothingCut /\ HostFollows

LEMMA FlagsType == FlagInv => ShownFlags \in Flags /\ CardFlags \in Flags
BY DEF FlagInv, ShownFlags, CardFlags, Flags

LEMMA Single == \A x : Len(<<x>>) = 1 /\ <<x>>[1] = x
OBVIOUS

\* One response that says what has changed.
LEMMA Answer ==
  ASSUME FollowInv, NEW r \in Response, SendData(<<r>>), UNCHANGED hostVars,
         Handled(r, CardFlags) = CardFlags'
  PROVE  NothingCut' /\ HostFollows'
<1> SUFFICES ASSUME ~lost' PROVE NothingCut' /\ HostFollows'
  BY DEF NothingCut, HostFollows
<1>1. ~lost /\ connected /\ toHost' = toHost \o <<r>> /\ r.kind # "cut"
  <2> DEFINE rs == <<r>>
  <2>1. 1 \in 1 .. Len(rs) /\ rs[1] = r
    BY Single
  <2> HIDE DEF rs
  <2>2. ~lost /\ connected /\ toHost' = toHost \o rs /\ r.kind # "cut"
    BY <2>1 DEF SendData, rs
  <2> QED
    BY <2>2 DEF rs
<1>2. toHost \in Seq(Response) /\ toHost \o <<r>> = Append(toHost, r)
  BY DEF FollowInv, MessageInv
<1>3. ShownFlags' = ShownFlags /\ ShownFlags \in Flags
  BY FlagsType DEF ShownFlags, hostVars, FollowInv
<1>4. After(toHost', ShownFlags) = Handled(r, After(toHost, ShownFlags))
  BY <1>1, <1>2, <1>3, AfterAppend
<1>5. After(toHost, ShownFlags) = CardFlags
  BY <1>1 DEF FollowInv, HostFollows, ShownFlags, CardFlags
<1>6. HostFollows'
  BY <1>3, <1>4, <1>5 DEF HostFollows, ShownFlags, CardFlags
<1>7. NothingCut'
  <2>1. ~partial' /\ \A i \in 1 .. Len(toHost) : toHost[i].kind # "cut"
    BY <1>1 DEF FollowInv, NothingCut, hostVars
  <2>2. \A i \in 1 .. Len(toHost') : toHost'[i] = r \/ (i \in 1 .. Len(toHost) /\ toHost'[i] = toHost[i])
    BY <1>1, <1>2
  <2> QED
    BY <1>1, <2>1, <2>2 DEF NothingCut
<1> QED
  BY <1>6, <1>7

\* Two of them, in one send as far as the queue is concerned.
LEMMA TwoAnswers ==
  ASSUME FollowInv, NEW r1 \in Response, NEW r2 \in Response, SendData(<<r1>> \o <<r2>>),
         UNCHANGED hostVars, Handled(r2, Handled(r1, CardFlags)) = CardFlags'
  PROVE  NothingCut' /\ HostFollows'
<1> SUFFICES ASSUME ~lost' PROVE NothingCut' /\ HostFollows'
  BY DEF NothingCut, HostFollows
<1> DEFINE rs == <<r1>> \o <<r2>>
<1>0. Len(rs) = 2 /\ rs[1] = r1 /\ rs[2] = r2 /\ rs \in Seq(Response)
  OBVIOUS
<1> HIDE DEF rs
<1>1. /\ ~lost /\ connected /\ toHost' = toHost \o rs
      /\ \A i \in 1 .. Len(rs) : rs[i].kind # "cut"
  BY DEF SendData, rs
<1>2. r1.kind # "cut" /\ r2.kind # "cut"
  BY <1>0, <1>1
<1>3. toHost \in Seq(Response) /\ Append(toHost, r1) \in Seq(Response)
      /\ toHost' = Append(Append(toHost, r1), r2)
  BY <1>1 DEF FollowInv, MessageInv, rs
<1>4. ShownFlags' = ShownFlags /\ ShownFlags \in Flags
  BY FlagsType DEF ShownFlags, hostVars, FollowInv
<1>5. After(toHost', ShownFlags) = Handled(r2, Handled(r1, After(toHost, ShownFlags)))
  <2>1. After(Append(toHost, r1), ShownFlags) = Handled(r1, After(toHost, ShownFlags))
    BY <1>3, <1>4, AfterAppend
  <2>2. After(Append(Append(toHost, r1), r2), ShownFlags)
          = Handled(r2, After(Append(toHost, r1), ShownFlags))
    BY <1>3, <1>4, AfterAppend
  <2> QED
    BY <1>3, <2>1, <2>2
<1>6. After(toHost, ShownFlags) = CardFlags
  BY <1>1 DEF FollowInv, HostFollows, ShownFlags, CardFlags
<1>7. HostFollows'
  BY <1>4, <1>5, <1>6 DEF HostFollows, ShownFlags, CardFlags
<1>8. NothingCut'
  <2>1. ~partial' /\ \A i \in 1 .. Len(toHost) : toHost[i].kind # "cut"
    BY <1>1 DEF FollowInv, NothingCut, hostVars
  <2>2. \A i \in 1 .. Len(toHost') :
          toHost'[i] \in {r1, r2} \/ (i \in 1 .. Len(toHost) /\ toHost'[i] = toHost[i])
    BY <1>3
  <2> QED
    BY <1>2, <2>1, <2>2 DEF NothingCut
<1> QED
  BY <1>7, <1>8

\* The host reads the next response.
LEMMA FollowTake ==
  ASSUME FollowInv, TakeResponse
  PROVE  NothingCut' /\ HostFollows'
<1> SUFFICES ASSUME ~lost' PROVE NothingCut' /\ HostFollows'
  BY DEF NothingCut, HostFollows
<1> DEFINE h == Handled(Head(toHost), ShownFlags)
<1>1. /\ toHost # <<>> /\ toHost' = Tail(toHost) /\ lost' = (lost \/ partial)
      /\ partial' = (Head(toHost).kind = "cut")
      /\ UNCHANGED <<isOpen, isWrite>>
  BY DEF TakeResponse, sdVars
<1>2. ~lost /\ ~partial
  BY <1>1
<1>3. toHost \in Seq(Response) /\ Len(toHost) \in Nat \ {0} /\ Head(toHost) = toHost[1]
  BY <1>1 DEF FollowInv, MessageInv
<1>4. Head(toHost).kind # "cut"
  BY <1>2, <1>3 DEF FollowInv, NothingCut
<1>5. IsOpen' = h.open /\ IsWriting' = h.writing
  BY <1>2, <1>4 DEF TakeResponse, ShownFlags
<1>6. ShownFlags \in Flags /\ h \in Flags
  BY FlagsType, HandledType DEF FollowInv, Flags
<1>7. ShownFlags' = h
  <2> HIDE DEF h
  <2>1. [open |-> h.open, writing |-> h.writing] = h
    BY <1>6 DEF Flags
  <2> QED
    BY <1>5, <2>1 DEF ShownFlags
<1>8. After(toHost', h) = After(toHost, ShownFlags)
  BY <1>1, <1>3, <1>6, AfterTail
<1>9. HostFollows'
  <2> HIDE DEF h
  <2>1. After(toHost, ShownFlags) = CardFlags /\ CardFlags' = CardFlags
    BY <1>1, <1>2 DEF FollowInv, HostFollows, ShownFlags, CardFlags
  <2> QED
    BY <1>7, <1>8, <2>1 DEF HostFollows, ShownFlags, CardFlags
<1>10. NothingCut'
  <2>1. \A i \in 1 .. Len(toHost') : i + 1 \in 1 .. Len(toHost) /\ toHost'[i] = toHost[i + 1]
    BY <1>1, <1>3
  <2>2. \A i \in 1 .. Len(toHost) : toHost[i].kind # "cut"
    BY <1>2 DEF FollowInv, NothingCut
  <2>3. ~partial'
    BY <1>1, <1>4
  <2> QED
    BY <2>1, <2>2, <2>3 DEF NothingCut
<1> QED
  BY <1>9, <1>10

LEMMA FollowClose ==
  ASSUME FollowInv, CloseSD, UNCHANGED hostVars
  PROVE  NothingCut' /\ HostFollows'
<1> DEFINE r(k, a) == [kind |-> k, arg |-> a]
<1>1. /\ r("SD_WRITE", "0") \in Response /\ r("SD_CLOSE", "1") \in Response
      /\ r("SD_CLOSE", "0") \in Response
  BY DEF Response
<1>2. CASE isOpen
  <2>1. /\ SendData(<<r("SD_WRITE", "0")>> \o <<r("SD_CLOSE", "1")>>)
        /\ isOpen' = FALSE /\ isWrite' = FALSE
    BY <1>2 DEF CloseSD, Say
  <2>2. Handled(r("SD_CLOSE", "1"), Handled(r("SD_WRITE", "0"), CardFlags)) = CardFlags'
    BY <2>1 DEF Handled, CardFlags
  <2> QED
    BY <1>1, <2>1, <2>2, TwoAnswers
<1>3. CASE ~isOpen
  <2>1. SendData(<<r("SD_CLOSE", "0")>>) /\ UNCHANGED <<isOpen, isWrite>>
    BY <1>3 DEF CloseSD, Say, sdVars
  <2>2. Handled(r("SD_CLOSE", "0"), CardFlags) = CardFlags'
    BY <2>1 DEF Handled, CardFlags
  <2> QED
    BY <1>1, <2>1, <2>2, Answer
<1> QED
  BY <1>2, <1>3

\* One response, with what it says: a flag has changed, or none.
OneAnswer ==
  \E r \in Response :
    /\ SendData(<<r>>) /\ Handled(r, CardFlags) = CardFlags'
    /\ \/ UNCHANGED <<isOpen, isWrite>>
       \/ ~isOpen /\ isOpen' = TRUE /\ isWrite' = isWrite
       \/ isOpen' = isOpen /\ isWrite' = ~isWrite

Answers == UNCHANGED hostVars /\ (OneAnswer \/ CloseSD)

\* Both sides and what is between them are left alone.
Idle == UNCHANGED <<toHost, IsOpen, IsWriting, partial, isOpen, isWrite, lost>>

\* What a step of the loop task is for the host.
LEMMA BoardSays ==
  ASSUME FollowInv, BoardStep
  PROVE  Idle \/ Answers \/ lost'
<1>0. UNCHANGED hostVars
  BY DEF BoardStep, Run, TakeCommand, Sync, NoAnswer, Unknown, Close, Start,
         IndexName, CloseOld, CheckSD, OpenSD, Write, WriteArgument, BoardLeaves,
         StartLeaves
<1>1. ASSUME UNCHANGED <<linkVars, lost, isOpen, isWrite>>
      PROVE  Idle \/ Answers \/ lost'
  BY <1>0, <1>1 DEF Idle, linkVars, hostVars
<1>2. CASE \/ \E due, flush \in BOOLEAN : Run(due, flush)
           \/ TakeCommand \/ NoAnswer \/ Start \/ Write
           \/ \E found \in BOOLEAN : CheckSD(found)
  <2>1. UNCHANGED <<linkVars, lost, isOpen, isWrite>>
    BY <1>2 DEF Run, TakeCommand, NoAnswer, Start, Write, CheckSD, sdVars
  <2> QED
    BY <1>1, <2>1
<1>3. CASE Close \/ CloseOld
  BY <1>0, <1>3 DEF Answers, Close, CloseOld
<1>4. ASSUME NEW r \in Response, SendData(<<r>>), UNCHANGED <<isOpen, isWrite>>,
             Handled(r, CardFlags) = CardFlags
      PROVE  Idle \/ Answers \/ lost'
  <2>1. CardFlags' = CardFlags
    BY <1>4 DEF CardFlags
  <2> QED
    BY <1>0, <1>4, <2>1 DEF Answers, OneAnswer
<1>5. ASSUME NEW k \in {"SYNC", "error", "cut"}, NEW a \in {"", "time"}, SendData(Say(k, a)),
             UNCHANGED <<isOpen, isWrite>>
      PROVE  Idle \/ Answers \/ lost'
  <2>1. [kind |-> k, arg |-> a] \in Response
    BY DEF Response
  <2>2. Handled([kind |-> k, arg |-> a], CardFlags) = CardFlags
    BY DEF Handled
  <2> QED
    BY <1>4, <1>5, <2>1, <2>2 DEF Say
<1>6. CASE Sync
  <2>1. CASE slot.arg = "time"
    <3>1. SendData(Say("SYNC", "time")) /\ UNCHANGED <<isOpen, isWrite>>
      BY <1>6, <2>1 DEF Sync, sdVars
    <3> QED
      BY <1>5, <3>1
  <2>2. CASE slot.arg # "time"
    BY <1>1, <1>6, <2>2 DEF Sync, sdVars
  <2> QED
    BY <2>1, <2>2
<1>7. CASE Unknown
  <2>1. SendData(Say("error", "")) /\ UNCHANGED <<isOpen, isWrite>>
    BY <1>7 DEF Unknown, sdVars
  <2> QED
    BY <1>5, <2>1
<1>8. CASE WriteArgument
  <2> DEFINE a == IF slot.arg = "1" THEN "1" ELSE "0"
  <2>1. SendData(<<[kind |-> "SD_WRITE", arg |-> a]>>) /\ isOpen' = isOpen
        /\ isWrite' = (slot.arg = "1")
    BY <1>8 DEF WriteArgument, Say
  <2>2. [kind |-> "SD_WRITE", arg |-> a] \in Response
    BY DEF Response
  <2>3. Handled([kind |-> "SD_WRITE", arg |-> a], CardFlags) = CardFlags'
    <3>1. CASE slot.arg = "1"
      BY <2>1, <3>1 DEF Handled, CardFlags
    <3>2. CASE slot.arg # "1"
      BY <2>1, <3>2 DEF Handled, CardFlags
    <3> QED
      BY <3>1, <3>2
  <2> HIDE DEF a
  <2>4. isWrite \in BOOLEAN /\ isWrite' \in BOOLEAN
    BY <2>1 DEF FollowInv, FlagInv
  <2>5. UNCHANGED <<isOpen, isWrite>> \/ (isOpen' = isOpen /\ isWrite' = ~isWrite)
    BY <2>1, <2>4
  <2> QED
    BY <1>0, <2>1, <2>2, <2>3, <2>5 DEF Answers, OneAnswer
<1>9. [kind |-> "SD_START", arg |-> "deadbeef"] \in Response
      /\ Handled([kind |-> "SD_START", arg |-> "deadbeef"], CardFlags) = CardFlags
  BY DEF Response, Handled
<1>10. CASE IndexName
  <2>1. CASE Len(fileIndex) < MaxFiles
    BY <1>1, <1>10, <2>1 DEF IndexName, sdVars
  <2>2. CASE ~(Len(fileIndex) < MaxFiles)
    <3>1. SendData(Say("SD_START", "deadbeef")) /\ UNCHANGED <<isOpen, isWrite>>
      BY <1>10, <2>2 DEF IndexName, sdVars
    <3> QED
      BY <1>4, <1>9, <3>1 DEF Say
  <2> QED
    BY <2>1, <2>2
<1>11. ASSUME NEW ok \in BOOLEAN, OpenSD(ok) PROVE Idle \/ Answers \/ lost'
  <2>1. CASE ~(ok /\ Name \in Names)
    <3>1. SendData(Say("SD_START", "deadbeef")) /\ UNCHANGED <<isOpen, isWrite>>
      BY <1>11, <2>1 DEF OpenSD
    <3> QED
      BY <1>4, <1>9, <3>1 DEF Say
  <2>2. CASE ok /\ Name \in Names
    <3>1. /\ ~isOpen /\ isOpen' = TRUE /\ isWrite' = isWrite
          /\ \E n \in Answered :
               SendData(IF n \in LongNames THEN Say("cut", "") ELSE Say("SD_START", "name"))
      BY <1>11, <2>2 DEF OpenSD, FollowInv, LookedFor
    <3>2. CASE SendData(Say("cut", ""))
      <4> DEFINE r == [kind |-> "cut", arg |-> ""]
                 rs == <<r>>
      <4>1. r.kind = "cut"
        BY Zenon
      <4>2. SendData(rs)
        BY <3>2 DEF Say
      <4> HIDE DEF r
      <4>3. 1 \in 1 .. Len(rs) /\ rs[1] = r
        BY Single
      <4> HIDE DEF rs
      <4> QED
        BY <4>1, <4>2, <4>3 DEF SendData
    <3>3. CASE SendData(Say("SD_START", "name"))
      <4> DEFINE r == [kind |-> "SD_START", arg |-> "name"]
      <4>1. r \in Response
        BY DEF Response
      <4>2. Handled(r, CardFlags) = CardFlags'
        BY <3>1 DEF Handled, CardFlags
      <4>3. SendData(<<r>>)
        BY <3>3 DEF Say
      <4> HIDE DEF r
      <4> QED
        BY <1>0, <3>1, <4>1, <4>2, <4>3 DEF Answers, OneAnswer
    <3> QED
      BY <3>1, <3>2, <3>3
  <2> QED
    BY <2>1, <2>2
<1> QED
  BY <1>2, <1>3, <1>6, <1>7, <1>8, <1>10, <1>11 DEF BoardStep

\* What any step is for it.
LEMMA WhatSteps ==
  ASSUME FollowInv, [Next]_vars
  PROVE  Idle \/ Answers \/ TakeResponse \/ lost'
<1>1. CASE TakeRow
  <2>1. partial /\ UNCHANGED lost
    BY <1>1 DEF TakeRow
  <2> QED
    BY <2>1 DEF FollowInv, NothingCut
<1>2. CASE HostStep /\ ~TakeResponse /\ ~TakeRow
  BY <1>2 DEF HostStep, PressSyncTime, PressWrite, PressOpenClose, PressCreateFile,
              TypeCommand, SendCMD, sdVars, Idle
<1>3. CASE Connect \/ CommandArrives
  BY <1>3 DEF Connect, CommandArrives, hostVars, sdVars, Idle
<1>4. CASE Disconnect
  <2>1. /\ toHost' = <<>> /\ lost' = (lost \/ toHost # <<>>)
        /\ UNCHANGED <<IsOpen, IsWriting, partial, isOpen, isWrite>>
    BY <1>4 DEF Disconnect, hostVars, sdVars
  <2>2. CASE ~lost'
    <3>1. UNCHANGED <<toHost, lost>>
      BY <2>1, <2>2 DEF FollowInv, FlagInv
    <3> QED
      BY <2>1, <3>1 DEF Idle
  <2> QED
    BY <2>2
<1>5. CASE Reboot
  BY <1>5 DEF Reboot
<1>6. CASE UNCHANGED vars
  BY <1>6 DEF vars, Idle
<1> QED
  BY <1>1, <1>2, <1>3, <1>4, <1>5, <1>6, BoardSays DEF Next, HostStep, LinkStep

LEMMA FollowStep == FollowInv /\ [Next]_vars => FollowInv'
<1> SUFFICES ASSUME FollowInv, [Next]_vars PROVE NothingCut' /\ HostFollows'
  BY MessageStep, FlagStep, LookedForStep DEF FollowInv
<1>1. CASE lost'
  BY <1>1 DEF NothingCut, HostFollows
<1>2. CASE Idle
  BY <1>2 DEF Idle, FollowInv, NothingCut, HostFollows
<1>3. CASE TakeResponse
  BY <1>3, FollowTake
<1>4. CASE Answers
  BY <1>4, Answer, FollowClose DEF Answers, OneAnswer
<1> QED
  BY <1>1, <1>2, <1>3, <1>4, WhatSteps

----------------------------------------------------------------------------
(* The host shows every state of the card                                   *)

\* The flags the host shows after one response of q and the next.
Shows(q, flags) == [i \in 1 .. Len(q) |-> Reading(q, flags)[i]]

LEMMA AheadShows == Ahead = Shows(toHost, ShownFlags)
BY DEF Ahead, Shows, ShownFlags

LEMMA ReadingType ==
  ASSUME NEW q \in Seq(Response), NEW flags \in Flags
  PROVE  Shows(q, flags) \in Seq(Flags) /\ Len(Shows(q, flags)) = Len(q)
<1>1. Reading(q, flags) \in [Nat -> Flags]
  BY ReadingReads DEF Reads
<1>2. \A i \in 1 .. Len(q) : Reading(q, flags)[i] \in Flags
  BY <1>1
<1> QED
  BY <1>2 DEF Shows

\* A response sent is one more state for the host to show ...
LEMMA ShowsAppend ==
  ASSUME NEW q \in Seq(Response), NEW r \in Response, NEW flags \in Flags
  PROVE  Shows(Append(q, r), flags) = Append(Shows(q, flags), Handled(r, After(q, flags)))
<1> DEFINE s == Shows(q, flags)
           h == Handled(r, After(q, flags))
           t == Shows(Append(q, r), flags)
<1>1. /\ Append(q, r) \in Seq(Response) /\ Len(q) \in Nat
      /\ Len(Append(q, r)) = Len(q) + 1
  OBVIOUS
<1>2. s \in Seq(Flags) /\ Len(s) = Len(q) /\ t \in Seq(Flags) /\ Len(t) = Len(q) + 1
  BY <1>1, ReadingType
<1>3. h \in Flags
  BY AfterAppend, HandledType DEF Flags
<1>4. ASSUME NEW i \in 1 .. Len(q) PROVE t[i] = s[i]
  <2>1. i \in 0 .. Len(q) /\ i \in 1 .. Len(Append(q, r))
    BY <1>1
  <2> QED
    BY <2>1, SameReading DEF Shows
<1>5. t[Len(q) + 1] = h
  <2>1. Len(q) + 1 \in 1 .. Len(Append(q, r))
    BY <1>1
  <2>2. t[Len(q) + 1] = After(Append(q, r), flags)
    BY <1>1, <2>1 DEF Shows, After
  <2> QED
    BY <2>2, AfterAppend
<1> HIDE DEF s, h, t
<1>6. /\ Append(s, h) \in Seq(Flags) /\ Len(Append(s, h)) = Len(q) + 1
      /\ \A i \in 1 .. Len(q) : Append(s, h)[i] = s[i]
      /\ Append(s, h)[Len(q) + 1] = h
  BY <1>2, <1>3
<1>7. \A i \in 1 .. Len(q) + 1 : t[i] = Append(s, h)[i]
  <2>1. \A i \in 1 .. Len(q) + 1 : i \in 1 .. Len(q) \/ i = Len(q) + 1
    BY <1>1
  <2> QED
    BY <1>4, <1>5, <1>6, <2>1
<1>8. t = Append(s, h)
  BY <1>2, <1>6, <1>7
<1> QED
  BY <1>8 DEF s, h, t

\* ... and a response read is the state shown.
LEMMA ShowsTail ==
  ASSUME NEW q \in Seq(Response), q # <<>>, NEW flags \in Flags
  PROVE  /\ Shows(q, flags) # <<>>
         /\ Head(Shows(q, flags)) = Handled(Head(q), flags)
         /\ Tail(Shows(q, flags)) = Shows(Tail(q), Handled(Head(q), flags))
<1> DEFINE s == Shows(q, flags)
           h == Handled(Head(q), flags)
           t == Shows(Tail(q), h)
<1>1. /\ Tail(q) \in Seq(Response) /\ Len(q) \in Nat \ {0}
      /\ Len(Tail(q)) = Len(q) - 1 /\ Head(q) = q[1]
  OBVIOUS
<1>2. h \in Flags
  BY HandledType DEF Flags
<1>3. s \in Seq(Flags) /\ Len(s) = Len(q) /\ t \in Seq(Flags) /\ Len(t) = Len(q) - 1
  BY <1>1, <1>2, ReadingType
<1>4. s[1] = h
  <2> DEFINE u == Reading(q, flags)
  <2>1. Reads(u, q, flags)
    BY ReadingReads
  <2>2. 1 \in 1 .. Len(q)
    BY <1>1
  <2>3. s[1] = u[1]
    BY <2>2 DEF Shows
  <2> HIDE DEF u
  <2>4. u[0 + 1] = Handled(q[0 + 1], u[0]) /\ u[0] = flags
    BY <2>1 DEF Reads
  <2> QED
    BY <1>1, <2>3, <2>4
<1>5. ASSUME NEW i \in 1 .. Len(q) - 1 PROVE t[i] = s[i + 1]
  <2>1. i \in 0 .. Len(q) - 1 /\ i + 1 \in 1 .. Len(q) /\ i \in 1 .. Len(Tail(q))
    BY <1>1
  <2> QED
    BY <2>1, RestReading DEF Shows
<1> HIDE DEF s, h, t
<1>6. s # <<>> /\ Head(s) = s[1]
  BY <1>1, <1>3
<1>7. /\ Tail(s) \in Seq(Flags) /\ Len(Tail(s)) = Len(q) - 1
      /\ \A i \in 1 .. Len(q) - 1 : Tail(s)[i] = s[i + 1]
  BY <1>1, <1>3, <1>6
<1>8. Tail(s) = t
  BY <1>3, <1>5, <1>7
<1> QED
  BY <1>4, <1>6, <1>8 DEF s, h, t

LEMMA ShowsEmpty == ASSUME NEW flags PROVE Shows(<<>>, flags) = <<>>
BY DEF Shows

\* The response to a command carries the state of the card after it.
LEMMA AnswerAhead ==
  ASSUME FollowInv, NEW r \in Response, SendData(<<r>>), UNCHANGED hostVars,
         Handled(r, CardFlags) = CardFlags', ~lost'
  PROVE  /\ Ahead' = Append(Ahead, CardFlags')
         /\ UNCHANGED <<IsOpen, IsWriting, lost>>
<1>1. ~lost /\ connected /\ toHost' = toHost \o <<r>>
  <2> DEFINE rs == <<r>>
  <2> HIDE DEF rs
  <2>1. ~lost /\ connected /\ toHost' = toHost \o rs
    BY DEF SendData, rs
  <2> QED
    BY <2>1 DEF rs
<1>2. toHost \in Seq(Response) /\ toHost \o <<r>> = Append(toHost, r)
  BY DEF FollowInv, MessageInv
<1>3. ShownFlags' = ShownFlags /\ ShownFlags \in Flags
  BY FlagsType DEF ShownFlags, hostVars, FollowInv
<1>4. After(toHost, ShownFlags) = CardFlags
  BY <1>1 DEF FollowInv, HostFollows, ShownFlags, CardFlags
<1>5. Shows(toHost', ShownFlags') = Append(Shows(toHost, ShownFlags), CardFlags')
  BY <1>1, <1>2, <1>3, <1>4, ShowsAppend
<1>6. Ahead' = Shows(toHost', ShownFlags')
  BY DEF Ahead, Shows, ShownFlags
<1>7. lost' = lost
  BY <1>1, SendDataFlag DEF FollowInv, FlagInv
<1> QED
  BY <1>5, <1>6, <1>7, AheadShows DEF hostVars

LEMMA TwoAnswersAhead ==
  ASSUME FollowInv, NEW r1 \in Response, NEW r2 \in Response, SendData(<<r1>> \o <<r2>>),
         UNCHANGED hostVars, Handled(r2, Handled(r1, CardFlags)) = CardFlags', ~lost'
  PROVE  /\ Ahead' = Append(Append(Ahead, Handled(r1, CardFlags)), CardFlags')
         /\ UNCHANGED <<IsOpen, IsWriting, lost>>
<1>1. ~lost /\ connected /\ toHost' = toHost \o (<<r1>> \o <<r2>>)
  <2> DEFINE rs == <<r1>> \o <<r2>>
  <2> HIDE DEF rs
  <2>1. ~lost /\ connected /\ toHost' = toHost \o rs
    BY DEF SendData, rs
  <2> QED
    BY <2>1 DEF rs
<1>2. /\ toHost \in Seq(Response) /\ Append(toHost, r1) \in Seq(Response)
      /\ toHost \o (<<r1>> \o <<r2>>) = Append(Append(toHost, r1), r2)
  BY DEF FollowInv, MessageInv
<1>3. ShownFlags' = ShownFlags /\ ShownFlags \in Flags
  BY FlagsType DEF ShownFlags, hostVars, FollowInv
<1>4. After(toHost, ShownFlags) = CardFlags
  BY <1>1 DEF FollowInv, HostFollows, ShownFlags, CardFlags
<1>5. /\ Shows(Append(toHost, r1), ShownFlags)
           = Append(Shows(toHost, ShownFlags), Handled(r1, CardFlags))
      /\ After(Append(toHost, r1), ShownFlags) = Handled(r1, CardFlags)
  BY <1>2, <1>3, <1>4, ShowsAppend, AfterAppend
<1>6. Shows(toHost', ShownFlags')
        = Append(Append(Shows(toHost, ShownFlags), Handled(r1, CardFlags)), CardFlags')
  BY <1>1, <1>2, <1>3, <1>5, ShowsAppend
<1>7. Ahead' = Shows(toHost', ShownFlags')
  BY DEF Ahead, Shows, ShownFlags
<1>8. lost' = lost
  BY <1>1, SendDataFlag DEF FollowInv, FlagInv
<1> QED
  BY <1>6, <1>7, <1>8, AheadShows DEF hostVars

\* From the first loss on.
LEMMA MirrorBroken ==
  ASSUME lost' PROVE [Mirror!Next]_(Mirror!mirrorVars)
BY DEF Mirror!Next, Mirror!Break

LEMMA Opened ==
  ASSUME NEW f, f \in Flags
  PROVE  [f EXCEPT !.open = TRUE] = [open |-> TRUE, writing |-> f.writing]
<1> DEFINE g == [f EXCEPT !.open = TRUE]
           h == [open |-> TRUE, writing |-> f.writing]
<1>1. g \in Flags /\ g.open = TRUE /\ g.writing = f.writing
  BY DEF Flags
<1>2. h \in Flags /\ h.open = TRUE /\ h.writing = f.writing
  BY DEF Flags
<1> HIDE DEF g, h
<1>3. g = h
  BY <1>1, <1>2 DEF Flags
<1> QED
  BY <1>3 DEF g, h

LEMMA MirrorAnswer ==
  ASSUME FollowInv, NEW r \in Response, SendData(<<r>>), UNCHANGED hostVars,
         Handled(r, CardFlags) = CardFlags',
         \/ UNCHANGED <<isOpen, isWrite>>
         \/ ~isOpen /\ isOpen' = TRUE /\ isWrite' = isWrite
         \/ isOpen' = isOpen /\ isWrite' = ~isWrite
  PROVE  [Mirror!Next]_(Mirror!mirrorVars)
<1> SUFFICES ASSUME ~lost' PROVE Mirror!Next
  BY MirrorBroken
<1>1. Ahead' = Append(Ahead, CardFlags') /\ UNCHANGED <<IsOpen, IsWriting, lost>>
  BY AnswerAhead
<1>2. Ahead \in Seq(Flags) /\ CardFlags \in Flags
  BY AheadShows, ReadingType, FlagsType DEF FollowInv, MessageInv
<1>3. Append(Ahead, CardFlags') = Ahead \o <<CardFlags'>>
  BY <1>2
<1>4. Ahead' = Ahead \o <<[open |-> isOpen', writing |-> isWrite']>>
  BY <1>1, <1>3 DEF CardFlags
<1>5. CASE UNCHANGED <<isOpen, isWrite>>
  <2>1. Mirror!Confirm
    BY <1>1, <1>4, <1>5 DEF Mirror!Confirm, Mirror!Tell
  <2> QED
    BY <2>1 DEF Mirror!Next
<1>6. CASE ~isOpen /\ isOpen' = TRUE /\ isWrite' = isWrite
  <2>1. [open |-> isOpen', writing |-> isWrite']
          = [[open |-> isOpen, writing |-> isWrite] EXCEPT !.open = TRUE]
    <3>1. [CardFlags EXCEPT !.open = TRUE] = [open |-> TRUE, writing |-> isWrite]
      BY <1>2, Opened DEF CardFlags
    <3> QED
      BY <1>6, <3>1, Zenon DEF CardFlags
  <2>2. ~[open |-> isOpen, writing |-> isWrite].open
    BY <1>6
  <2>3. Mirror!Open
    BY <1>1, <1>4, <2>1, <2>2, Zenon DEF Mirror!Open, Mirror!Tell
  <2> QED
    BY <2>3 DEF Mirror!Next
<1>7. CASE isOpen' = isOpen /\ isWrite' = ~isWrite
  <2>1. Mirror!SetWriting
    BY <1>1, <1>4, <1>7 DEF Mirror!SetWriting, Mirror!Tell
  <2> QED
    BY <2>1 DEF Mirror!Next
<1> QED
  BY <1>5, <1>6, <1>7

\* Closing a file ends writing first.
LEMMA MirrorClose ==
  ASSUME FollowInv, CloseSD, UNCHANGED hostVars
  PROVE  [Mirror!Next]_(Mirror!mirrorVars)
<1> DEFINE r(k, a) == [kind |-> k, arg |-> a]
<1>1. /\ r("SD_WRITE", "0") \in Response /\ r("SD_CLOSE", "1") \in Response
      /\ r("SD_CLOSE", "0") \in Response
  BY DEF Response
<1>2. CASE isOpen
  <2> SUFFICES ASSUME ~lost' PROVE Mirror!Next
    BY MirrorBroken
  <2>1. /\ SendData(<<r("SD_WRITE", "0")>> \o <<r("SD_CLOSE", "1")>>)
        /\ isOpen' = FALSE /\ isWrite' = FALSE
    BY <1>2 DEF CloseSD, Say
  <2>2. /\ Handled(r("SD_WRITE", "0"), CardFlags) = [CardFlags EXCEPT !.writing = FALSE]
        /\ Handled(r("SD_CLOSE", "1"), Handled(r("SD_WRITE", "0"), CardFlags)) = CardFlags'
    BY <2>1 DEF Handled, CardFlags
  <2>3. /\ Ahead' = Append(Append(Ahead, [CardFlags EXCEPT !.writing = FALSE]), CardFlags')
        /\ UNCHANGED <<IsOpen, IsWriting, lost>>
    BY <1>1, <2>1, <2>2, TwoAnswersAhead
  <2>4. Ahead \in Seq(Flags) /\ CardFlags \in Flags
    BY AheadShows, ReadingType, FlagsType DEF FollowInv, MessageInv
  <2> DEFINE c == [CardFlags EXCEPT !.writing = FALSE]
             d == CardFlags'
  <2>5. Append(Append(Ahead, c), d) = Ahead \o <<c, d>>
    <3>1. c \in Flags /\ d \in Flags
      BY <2>1, <2>4 DEF Flags, CardFlags
    <3> HIDE DEF c, d
    <3> QED
      BY <2>4, <3>1
  <2>6. Mirror!Close
    BY <1>2, <2>1, <2>3, <2>5 DEF Mirror!Close, Mirror!Tell, Mirror!Off, CardFlags
  <2> QED
    BY <2>6 DEF Mirror!Next
<1>3. CASE ~isOpen
  <2>1. SendData(<<r("SD_CLOSE", "0")>>) /\ UNCHANGED <<isOpen, isWrite>>
    BY <1>3 DEF CloseSD, Say, sdVars
  <2>2. Handled(r("SD_CLOSE", "0"), CardFlags) = CardFlags'
    BY <2>1 DEF Handled, CardFlags
  <2> QED
    BY <1>1, <2>1, <2>2, MirrorAnswer
<1> QED
  BY <1>2, <1>3

\* Reading a response shows the next state.
LEMMA MirrorTake ==
  ASSUME FollowInv, TakeResponse
  PROVE  [Mirror!Next]_(Mirror!mirrorVars)
<1> SUFFICES ASSUME ~lost' PROVE Mirror!Next
  BY MirrorBroken
<1> DEFINE h == Handled(Head(toHost), ShownFlags)
<1>1. /\ toHost # <<>> /\ toHost' = Tail(toHost) /\ lost' = (lost \/ partial)
      /\ partial' = (Head(toHost).kind = "cut")
      /\ UNCHANGED <<isOpen, isWrite>>
  BY DEF TakeResponse, sdVars
<1>2. ~lost /\ ~partial /\ lost' = lost
  BY <1>1 DEF FollowInv, FlagInv
<1>3. toHost \in Seq(Response) /\ Len(toHost) \in Nat \ {0} /\ Head(toHost) = toHost[1]
  BY <1>1 DEF FollowInv, MessageInv
<1>4. Head(toHost).kind # "cut"
  BY <1>2, <1>3 DEF FollowInv, NothingCut
<1>5. IsOpen' = h.open /\ IsWriting' = h.writing
  BY <1>2, <1>4 DEF TakeResponse, ShownFlags
<1>6. ShownFlags \in Flags /\ h \in Flags
  BY FlagsType, HandledType DEF FollowInv, Flags
<1>7. ShownFlags' = h
  <2> HIDE DEF h
  <2>1. [open |-> h.open, writing |-> h.writing] = h
    BY <1>6 DEF Flags
  <2> QED
    BY <1>5, <2>1 DEF ShownFlags
<1>8. /\ Shows(toHost, ShownFlags) # <<>> /\ Head(Shows(toHost, ShownFlags)) = h
      /\ Tail(Shows(toHost, ShownFlags)) = Shows(toHost', h)
  BY <1>1, <1>3, <1>6, ShowsTail
<1> HIDE DEF h
<1>9. Ahead' = Shows(toHost', h)
  <2>1. Ahead' = Shows(toHost', ShownFlags')
    BY DEF Ahead, Shows, ShownFlags
  <2> QED
    BY <1>7, <2>1
<1>10. Ahead # <<>> /\ Head(Ahead) = ShownFlags' /\ Ahead' = Tail(Ahead)
  BY <1>7, <1>8, <1>9, AheadShows
<1>11. Mirror!See
  BY <1>1, <1>2, <1>10 DEF Mirror!See, ShownFlags
<1> QED
  BY <1>11 DEF Mirror!Next

LEMMA MirrorStep ==
  ASSUME FollowInv, [Next]_vars
  PROVE  [Mirror!Next]_(Mirror!mirrorVars)
<1>1. CASE Idle
  BY <1>1 DEF Idle, Ahead, Mirror!mirrorVars
<1>2. CASE TakeResponse
  BY <1>2, MirrorTake
<1>3. CASE Answers
  BY <1>3, MirrorAnswer, MirrorClose DEF Answers, OneAnswer
<1> QED
  BY <1>1, <1>2, <1>3, WhatSteps, MirrorBroken

----------------------------------------------------------------------------
(* The theorems                                                             *)

LEMMA StartsRight == Init => CardInv /\ RiskInv /\ MessageInv /\ FlagInv
<1> SUFFICES ASSUME Init PROVE CardInv /\ RiskInv /\ MessageInv /\ FlagInv
  OBVIOUS
<1>1. CardInv
  <2>1. /\ isOpen = FALSE /\ file = NoFile /\ unflushed = 0 /\ files = {}
        /\ card = [n \in Names |-> 0]
    BY DEF Init
  <2>2. 0 \in 0 .. MaxRows
    BY BoundTypes
  <2> QED
    BY <2>1, <2>2 DEF CardInv, LookedFor
<1>0. RiskInv
  <2>1. toBoard = <<>> /\ board = "run"
    BY DEF Init
  <2> QED
    BY <2>1 DEF RiskInv
<1>2. slot \in Command
  BY DEF Init, Command, Kinds, Args
<1>3. /\ toBoard = <<>> /\ toHost = <<>> /\ fileIndex = <<>> /\ sdName = NoFile
      /\ board = "run" /\ commands = 0 /\ breaks = 0
  BY DEF Init
<1>4. MessageInv
  <2>1. 0 \in 0 .. MaxCommands /\ 0 \in 0 .. MaxBreaks /\ 0 <= MaxFiles
    BY BoundTypes
  <2>2. toBoard \in Seq(Command) /\ toHost \in Seq(Response)
    BY <1>3, EmptySeqs
  <2>3. fileIndex \in Seq(Args) /\ Len(fileIndex) <= MaxFiles
    BY <1>3, <2>1, EmptySeqs
  <2> QED
    BY <1>2, <1>3, <2>1, <2>2, <2>3 DEF MessageInv
<1>5. FlagInv
  BY DEF Init, FlagInv
<1> QED
  BY <1>0, <1>1, <1>4, <1>5

LEMMA FollowStarts == Init => FollowInv
<1> SUFFICES ASSUME Init PROVE NothingCut /\ HostFollows
  BY StartsRight DEF FollowInv, CardInv
<1>1. toHost = <<>> /\ ShownFlags = CardFlags /\ partial = FALSE
  BY DEF Init, ShownFlags, CardFlags
<1>2. After(<<>>, ShownFlags) = ShownFlags
  BY StartsRight, FlagsType, AfterEmpty
<1> QED
  BY <1>1, <1>2, EmptySeqs DEF NothingCut, HostFollows, ShownFlags, CardFlags

\* Type correctness: commands, responses, the slot, the index, the counts of rows
\* and every flag keep to their ranges, and the board holds the name of a file
\* exactly while the file is open, for any set of names and any length of run.
THEOREM TypeCorrect == Spec => []TypeOK
<1>1. CardInv /\ MessageInv /\ FlagInv => TypeOK
  BY DEF CardInv, MessageInv, FlagInv, TypeOK
<1>2. CardInv /\ RiskInv /\ [Next]_vars => CardInv'
  BY CardStep
<1> QED
  BY <1>1, <1>2, StartsRight, MessageStep, RiskStep, FlagStep, PTL DEF Spec

\* BoardBackend (SD_START) never writes past m_FileIndex, whatever the capacity and
\* however the network task overwrites the slot under it.
THEOREM IndexStaysBounded == Spec => []IndexBounded
<1>1. MessageInv => IndexBounded
  BY DEF MessageInv, IndexBounded
<1> QED
  BY <1>1, StartsRight, MessageStep, PTL DEF Spec

\* OpenSD (sd.cpp) appends to a file it finds and starts one it does not find, which
\* takes the rows of a file it should have found. For a user who waits until the
\* board is done, and a card that denies no file it has, closing, opening again,
\* flushing, broken connections and reboots leave every flushed row on the card.
THEOREM CardNeverLoses == Spec => CardKeepsRows
<1>1. CardInv /\ RiskInv /\ [Next]_vars => CardInv'
  BY CardStep
<1>2. CardInv /\ RiskInv /\ [Next]_vars
        => [~atRisk' => \A n \in Names : card'[n] >= card[n]]_vars
  BY CardStep
<1> QED
  BY <1>1, <1>2, StartsRight, MessageStep, RiskStep, PTL DEF Spec, CardKeepsRows

\* TelemetryBackend::HandleCommand: as long as no response is lost, IsOpen and
\* IsWriting will be the card's isOpen and isWrite once the responses under way
\* are read, however commands overwrite each other in the board's slot.
THEOREM HostAlwaysFollows == Spec => []HostFollows
<1>1. FollowInv => HostFollows
  BY DEF FollowInv
<1> QED
  BY <1>1, FollowStarts, FollowStep, PTL DEF Spec

\* BoardBackend and TelemetryBackend::HandleCommand implement CardMirror: until a
\* response is lost the host shows every state the card has been in, one after
\* the other and no other, a file that is closed first ceasing to be written.
THEOREM ImplementsCardMirror == Spec => MirrorSpec
<1>1. Init => Mirror!Init
  <2> SUFFICES ASSUME Init PROVE Mirror!Init
    OBVIOUS
  <2>1. toHost = <<>> /\ isOpen = FALSE /\ isWrite = FALSE /\ IsOpen = FALSE
        /\ IsWriting = FALSE /\ lost = FALSE
    BY DEF Init
  <2>2. Ahead = <<>>
    BY <2>1, AheadShows, ShowsEmpty
  <2> QED
    BY <2>1, <2>2 DEF Mirror!Init, Mirror!Off
<1> QED
  BY <1>1, FollowStarts, FollowStep, MirrorStep, PTL DEF Spec, MirrorSpec, Mirror!Spec
=============================================================================
