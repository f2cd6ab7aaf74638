----------------------------- MODULE SdProtocol -----------------------------
(***************************************************************************)
(* The SD card, operated over the link: the buttons of the home page, the  *)
(* one command slot that the board's network task fills and its loop task  *)
(* empties (board_wifi.cpp, BoardBackend::Run and ReceiveData), the card   *)
(* (sd.cpp), and TelemetryBackend::HandleCommand, which keeps IsOpen and   *)
(* IsWriting up to date from the board's responses alone.                  *)
(*                                                                         *)
(* The link delivers in order and loses what is under way when it breaks.  *)
(***************************************************************************)
EXTENDS Naturals, Sequences

CONSTANTS Names,        \* files of the card
          LongNames,    \* those whose response overruns res[64] and is cut
          DefaultName,  \* "/data.txt"
          Typed,        \* commands the user types into the "Send CMD" box
          MaxFiles,     \* MAX_FILES
          MaxCommands, MaxTyped, MaxBreaks, MaxRows   \* bounds of the model

Kinds == {"SYNC", "SD_START", "SD_WRITE", "SD_CLOSE", "STATUS", "other"}
Args  == Names \cup {"", "0", "1", "time", "zero"}
\* A command without an argument leaves the rest of the slot as it was.
Command == [kind : Kinds, arg : Args]
\* The host does not look at the name in a response.
Response == [kind : {"SYNC", "SD_START", "SD_WRITE", "SD_CLOSE", "error", "cut"},
             arg : {"", "0", "1", "time", "name", "deadbeef"}]

ASSUME SdAssumption ==
  /\ DefaultName \in Names /\ LongNames \subseteq Names \ {DefaultName}
  /\ Typed \subseteq Command
  /\ MaxFiles \in Nat /\ MaxCommands \in Nat /\ MaxTyped \in Nat /\ MaxBreaks \in Nat
  /\ MaxRows \in Nat
  /\ Names \cap {"", "0", "1", "time", "zero", "deadbeef"} = {}

VARIABLES
  connected, toBoard, toHost,           \* the link
  sdName, IsOpen, IsWriting, partial,   \* host; partial: m_Buffer ends within a line
  slot, newCommand,                     \* m_CommandValue, m_NewCommand
  board, isTimeSynced, fileIndex,       \* loop task: where it is, its memory
  defaulted, exists,                    \* loop task, in SD_START: nameStr is the default; check
  isOpen, isWrite, file, unflushed,     \* SDCard: the file and its rows not yet flushed
  files, card,                          \* the files there are on the card, rows of each
  commands, breaks,                     \* how much has happened
  lost,      \* history: a response has not reached the host
  atRisk     \* history: a command was sent before the board was done with the
             \* last one, or the card denied a file that is there

linkVars == <<connected, toBoard, toHost>>
hostVars == <<sdName, IsOpen, IsWriting, partial>>
slotVars == <<slot, newCommand>>
sdVars   == <<isOpen, isWrite, file, unflushed, card>>
runVars  == <<board, isTimeSynced, fileIndex>>
startVars == <<defaulted, exists, files>>
vars == <<connected, toBoard, toHost, sdName, IsOpen, IsWriting, partial, slot,
          newCommand, board, isTimeSynced, fileIndex, defaulted, exists, isOpen,
          isWrite, file, unflushed, files, card, commands, breaks, lost, atRisk>>

NoFile == ""

Init ==
  /\ connected = FALSE /\ toBoard = <<>> /\ toHost = <<>>
  /\ sdName = NoFile /\ IsOpen = FALSE /\ IsWriting = FALSE /\ partial = FALSE
  /\ slot = [kind |-> "other", arg |-> ""] /\ newCommand = FALSE
  /\ board = "run" /\ isTimeSynced = FALSE /\ fileIndex = <<>>
  /\ isOpen = FALSE /\ isWrite = FALSE /\ file = NoFile /\ unflushed = 0
  /\ defaulted = FALSE /\ exists = FALSE
  /\ files = {} /\ card = [n \in Names |-> 0]
  /\ commands = 0 /\ breaks = 0 /\ lost = FALSE /\ atRisk = FALSE

----------------------------------------------------------------------------
(* Host: home page, menu bar and SendCMD                                    *)

\* The board is at work on a command, or one is under way to it.
Busy == toBoard # <<>> \/ newCommand \/ board # "run"

\* A command is sent only while the WebSocket is open.
SendCMD(c) ==
  /\ commands < MaxCommands /\ commands' = commands + 1
  /\ toBoard' = IF connected THEN Append(toBoard, c) ELSE toBoard
  /\ atRisk' = (atRisk \/ (connected /\ Busy))
  /\ UNCHANGED <<connected, toHost, IsOpen, IsWriting, partial, slotVars, runVars, startVars,
                 sdVars, breaks, lost>>

PressSyncTime == SendCMD([kind |-> "SYNC", arg |-> "time"]) /\ UNCHANGED sdName

PressCreateFile(n) == SendCMD([kind |-> "SD_START", arg |-> n]) /\ sdName' = n

PressWrite ==
  /\ SendCMD([kind |-> "SD_WRITE", arg |-> IF IsWriting THEN "0" ELSE "1"])
  /\ UNCHANGED sdName

PressOpenClose ==
  /\ sdName # NoFile
  /\ SendCMD(IF IsOpen THEN [kind |-> "SD_CLOSE", arg |-> ""]
                       ELSE [kind |-> "SD_START", arg |-> sdName])
  /\ UNCHANGED sdName

TypeCommand(c) == commands < MaxTyped /\ SendCMD(c) /\ UNCHANGED sdName

\* HandleCommand: what a response makes of the two flags.
Handled(r, flags) ==
  CASE r.kind = "SD_START" /\ r.arg # "deadbeef" -> [flags EXCEPT !.open = TRUE]
    [] r.kind = "SD_WRITE" /\ r.arg = "1" -> [flags EXCEPT !.writing = TRUE]
    [] r.kind = "SD_WRITE" /\ r.arg = "0" -> [flags EXCEPT !.writing = FALSE]
    [] r.kind = "SD_CLOSE" /\ r.arg = "1" -> [flags EXCEPT !.open = FALSE]
    [] OTHER -> flags

\* OnMessage: a cut response waits in m_Buffer, a response that is run
\* together with it is dropped by ValidatePacket with it.
TakeResponse ==
  /\ toHost # <<>> /\ toHost' = Tail(toHost)
  /\ LET r == Head(toHost)
         h == Handled(r, [open |-> IsOpen, writing |-> IsWriting])
     IN  /\ partial' = (r.kind = "cut")
         /\ IF partial \/ r.kind = "cut" THEN UNCHANGED <<IsOpen, IsWriting>>
            ELSE IsOpen' = h.open /\ IsWriting' = h.writing
         /\ lost' = (lost \/ partial)
  /\ UNCHANGED <<connected, toBoard, sdName, slotVars, runVars, startVars, sdVars, commands,
                 breaks, atRisk>>

\* The next packet of telemetry completes the cut line, which is dropped.
TakeRow ==
  /\ partial /\ connected /\ isTimeSynced /\ toHost = <<>>
  /\ partial' = FALSE
  /\ UNCHANGED <<linkVars, sdName, IsOpen, IsWriting, slotVars, runVars, startVars, sdVars,
                 commands, breaks, lost, atRisk>>

----------------------------------------------------------------------------
(* The link                                                                 *)

\* The host greets the board with STATUS.
Connect ==
  /\ ~connected /\ connected' = TRUE
  /\ toBoard' = <<[kind |-> "STATUS", arg |-> ""]>>
  /\ UNCHANGED <<toHost, hostVars, slotVars, runVars, startVars, sdVars, commands, breaks,
                 lost, atRisk>>

Disconnect ==
  /\ connected /\ breaks < MaxBreaks /\ breaks' = breaks + 1
  /\ connected' = FALSE /\ toBoard' = <<>> /\ toHost' = <<>>
  /\ lost' = (lost \/ toHost # <<>>)
  /\ UNCHANGED <<hostVars, slotVars, runVars, startVars, sdVars, commands, atRisk>>

\* Rows that were not flushed are gone, and so is all the board knew.
Reboot ==
  /\ breaks < MaxBreaks /\ breaks' = breaks + 1
  /\ connected' = FALSE /\ toBoard' = <<>> /\ toHost' = <<>>
  /\ slot' = [kind |-> "other", arg |-> ""] /\ newCommand' = FALSE
  /\ board' = "run" /\ isTimeSynced' = FALSE /\ fileIndex' = <<>>
  /\ defaulted' = FALSE /\ exists' = FALSE
  /\ isOpen' = FALSE /\ isWrite' = FALSE /\ file' = NoFile /\ unflushed' = 0
  /\ lost' = TRUE
  /\ UNCHANGED <<hostVars, files, card, commands, atRisk>>

\* WS_EVT_DATA, in the network task: the slot is overwritten, read or not.
CommandArrives ==
  /\ toBoard # <<>> /\ toBoard' = Tail(toBoard)
  /\ slot' = [kind |-> Head(toBoard).kind,
              arg  |-> IF Head(toBoard).arg = "" THEN slot.arg ELSE Head(toBoard).arg]
  /\ newCommand' = TRUE
  /\ UNCHANGED <<connected, toHost, hostVars, runVars, startVars, sdVars, commands, breaks,
                 lost, atRisk>>

----------------------------------------------------------------------------
(* The board's loop task                                                    *)

\* textAll to the clients there are.
SendData(rs) ==
  /\ toHost' = IF connected THEN toHost \o rs ELSE toHost
  /\ lost' = (lost \/ ~connected \/ \E i \in 1 .. Len(rs) : rs[i].kind = "cut")
  /\ UNCHANGED <<connected, toBoard>>

Say(k, a) == <<[kind |-> k, arg |-> a]>>

\* WriteSD: the row is buffered; all of them are flushed every five seconds.
WriteSD(flush) ==
  /\ card[file] + unflushed < MaxRows
  /\ unflushed' = IF flush THEN 0 ELSE unflushed + 1
  /\ card' = IF flush THEN [card EXCEPT ![file] = @ + unflushed + 1] ELSE card

\* One turn of Run: a row, when it is due and the clock is set, then a look
\* at m_NewCommand.
Run(due, flush) ==
  /\ board = "run"
  /\ board' = IF newCommand THEN "take" ELSE "run"
  /\ IF due /\ isTimeSynced /\ isOpen /\ isWrite THEN WriteSD(flush)
     ELSE UNCHANGED <<unflushed, card>>
  /\ UNCHANGED <<linkVars, hostVars, slotVars, isTimeSynced, fileIndex, startVars, isOpen,
                 isWrite, file, commands, breaks, lost, atRisk>>

TakeCommand ==
  /\ board = "take" /\ board' = "dispatch"
  /\ newCommand' = FALSE
  /\ UNCHANGED <<linkVars, hostVars, slot, isTimeSynced, fileIndex, startVars, sdVars, commands,
                 breaks, lost, atRisk>>

StartLeaves == UNCHANGED <<hostVars, slotVars, commands, breaks>>
BoardLeaves == StartLeaves /\ UNCHANGED <<startVars, atRisk>>

\* SYNC: the clock counts as set whatever the number, an answer needs one.
Sync ==
  /\ board = "dispatch" /\ slot.kind = "SYNC" /\ board' = "run"
  /\ isTimeSynced' = TRUE
  /\ IF slot.arg = "time" THEN SendData(Say("SYNC", "time")) ELSE UNCHANGED <<linkVars, lost>>
  /\ UNCHANGED <<fileIndex, sdVars>> /\ BoardLeaves

\* STATUS is taken and not answered.
NoAnswer ==
  /\ board = "dispatch" /\ slot.kind = "STATUS" /\ board' = "run"
  /\ UNCHANGED <<linkVars, lost, isTimeSynced, fileIndex, sdVars>> /\ BoardLeaves

Unknown ==
  /\ board = "dispatch" /\ slot.kind = "other" /\ board' = "run"
  /\ SendData(Say("error", ""))
  /\ UNCHANGED <<isTimeSynced, fileIndex, sdVars>> /\ BoardLeaves

\* Slip: the board forgets to say that closing ends writing.
CloseSD_Silent ==
  IF isOpen
  THEN /\ card' = [card EXCEPT ![file] = @ + unflushed]
       /\ isOpen' = FALSE /\ isWrite' = FALSE /\ file' = NoFile /\ unflushed' = 0
       /\ SendData(Say("SD_CLOSE", "1"))
  ELSE /\ UNCHANGED sdVars
       /\ SendData(Say("SD_CLOSE", "0"))

\* Slip: the two responses are sent in the order of the host's buttons.
CloseSD_Swapped ==
  IF isOpen
  THEN /\ card' = [card EXCEPT ![file] = @ + unflushed]
       /\ isOpen' = FALSE /\ isWrite' = FALSE /\ file' = NoFile /\ unflushed' = 0
       /\ SendData(Say("SD_CLOSE", "1") \o Say("SD_WRITE", "0"))
  ELSE /\ UNCHANGED sdVars
       /\ SendData(Say("SD_CLOSE", "0"))

\* Slip: the name of the closed file stays.
CloseSD_KeepFile ==
  IF isOpen
  THEN /\ card' = [card EXCEPT ![file] = @ + unflushed]
       /\ isOpen' = FALSE /\ isWrite' = FALSE /\ file' = file /\ unflushed' = 0
       /\ SendData(Say("SD_WRITE", "0") \o Say("SD_CLOSE", "1"))
  ELSE /\ UNCHANGED sdVars
       /\ SendData(Say("SD_CLOSE", "0"))

\* CloseSD with the responses both of its callers send.
CloseSD ==
  IF isOpen
  THEN /\ card' = [card EXCEPT ![file] = @ + unflushed]
       /\ isOpen' = FALSE /\ isWrite' = FALSE /\ file' = NoFile /\ unflushed' = 0
       /\ SendData(Say("SD_WRITE", "0") \o Say("SD_CLOSE", "1"))
  ELSE /\ UNCHANGED sdVars
       /\ SendData(Say("SD_CLOSE", "0"))

Close ==
  /\ board = "dispatch" /\ slot.kind = "SD_CLOSE" /\ board' = "run"
  /\ CloseSD
  /\ UNCHANGED <<isTimeSynced, fileIndex>> /\ BoardLeaves

\* The commands with an argument read the slot a second time, further on.
Start == /\ board = "dispatch" /\ slot.kind = "SD_START" /\ board' = "index"
         /\ UNCHANGED <<linkVars, lost, isTimeSynced, fileIndex, sdVars>> /\ BoardLeaves
Write == /\ board = "dispatch" /\ slot.kind = "SD_WRITE" /\ board' = "write"
         /\ UNCHANGED <<linkVars, lost, isTimeSynced, fileIndex, sdVars>> /\ BoardLeaves

WriteArgument ==
  /\ board = "write" /\ board' = "run"
  /\ isWrite' = (slot.arg = "1")
  /\ SendData(Say("SD_WRITE", IF slot.arg = "1" THEN "1" ELSE "0"))
  /\ UNCHANGED <<isTimeSynced, fileIndex, isOpen, file, unflushed, card>> /\ BoardLeaves

\* The name is read anew, from the slot, wherever nameStr is used: only that it
\* was empty, and nameStr set to the default, is settled once, at the start.
Name   == IF defaulted THEN DefaultName ELSE slot.arg
Tested == IF slot.arg = "" THEN DefaultName ELSE slot.arg

Known(n) == n \notin LongNames /\ \E i \in 1 .. Len(fileIndex) : fileIndex[i] = n

\* Slip: one file too many.
IndexName_OffByOne ==
  /\ board = "index"
  /\ IF Len(fileIndex) <= MaxFiles
     THEN /\ fileIndex' = IF Known(Tested) THEN fileIndex ELSE Append(fileIndex, Tested)
          /\ defaulted' = (slot.arg = "")
          /\ board' = "open" /\ UNCHANGED <<linkVars, lost>>
     ELSE /\ board' = "run" /\ SendData(Say("SD_START", "deadbeef"))
          /\ UNCHANGED <<fileIndex, defaulted>>
  /\ UNCHANGED <<isTimeSynced, exists, files, sdVars, atRisk>> /\ StartLeaves

\* A name is kept in the index once, unless it is too long to be found again;
\* a full index refuses known names as well.
IndexName ==
  /\ board = "index"
  /\ IF Len(fileIndex) < MaxFiles
     THEN /\ fileIndex' = IF Known(Tested) THEN fileIndex ELSE Append(fileIndex, Tested)
          /\ defaulted' = (slot.arg = "")
          /\ board' = "open" /\ UNCHANGED <<linkVars, lost>>
     ELSE /\ board' = "run" /\ SendData(Say("SD_START", "deadbeef"))
          /\ UNCHANGED <<fileIndex, defaulted>>
  /\ UNCHANGED <<isTimeSynced, exists, files, sdVars, atRisk>> /\ StartLeaves

CloseOld ==
  /\ board = "open" /\ isOpen
  /\ CloseSD
  /\ UNCHANGED <<board, isTimeSynced, fileIndex>> /\ BoardLeaves

\* Opening to read finds out whether the file exists; it may fail on one that
\* does.
CheckSD(found) ==
  /\ board = "open" /\ ~isOpen /\ board' = "check"
  /\ found => Name \in files
  /\ exists' = found
  /\ atRisk' = (atRisk \/ (Name \in files /\ ~found))
  /\ UNCHANGED <<linkVars, lost, isTimeSynced, fileIndex, defaulted, files, sdVars>> /\ StartLeaves

\* The names the response may be written with: commands under way may overtake
\* the last reading of the slot.
Answered == {Name} \cup {toBoard[i].arg : i \in {j \in 1 .. Len(toBoard) :
                                                   ~defaulted /\ toBoard[j].arg # ""}}

\* Slip: a file is opened for writing, not appending, even if it exists.
OpenSD_Truncate(ok) ==
  /\ board = "check" /\ board' = "run"
  /\ IF ok /\ Name \in Names
     THEN /\ isOpen' = TRUE /\ file' = Name /\ files' = files \cup {Name}
          /\ card' = [card EXCEPT ![Name] = 0]
          /\ \E n \in Answered :
               SendData(IF n \in LongNames THEN Say("cut", "") ELSE Say("SD_START", "name"))
     ELSE UNCHANGED <<isOpen, file, files, card>> /\ SendData(Say("SD_START", "deadbeef"))
  /\ defaulted' = FALSE /\ exists' = FALSE
  /\ UNCHANGED <<isWrite, unflushed, isTimeSynced, fileIndex, atRisk>> /\ StartLeaves

\* The card opens the file or does not: appending to one that was found, else
\* writing, which creates it or takes all its rows.
OpenSD(ok) ==
  /\ board = "check" /\ board' = "run"
  /\ IF ok /\ Name \in Names
     THEN /\ isOpen' = TRUE /\ file' = Name /\ files' = files \cup {Name}
          /\ card' = IF exists THEN card ELSE [card EXCEPT ![Name] = 0]
          /\ \E n \in Answered :
               SendData(IF n \in LongNames THEN Say("cut", "") ELSE Say("SD_START", "name"))
     ELSE UNCHANGED <<isOpen, file, files, card>> /\ SendData(Say("SD_START", "deadbeef"))
  /\ defaulted' = FALSE /\ exists' = FALSE
  /\ UNCHANGED <<isWrite, unflushed, isTimeSynced, fileIndex, atRisk>> /\ StartLeaves

----------------------------------------------------------------------------
HostStep ==
  \/ PressSyncTime \/ PressWrite \/ PressOpenClose
  \/ \E n \in Names : PressCreateFile(n)
  \/ \E c \in Typed : TypeCommand(c)
  \/ TakeResponse \/ TakeRow
LinkStep == Connect \/ Disconnect \/ Reboot \/ CommandArrives
BoardStep ==
  \/ \E due, flush \in BOOLEAN : Run(due, flush)
  \/ TakeCommand \/ Sync \/ NoAnswer \/ Unknown \/ Close
  \/ Start \/ IndexName \/ CloseOld
  \/ \E found \in BOOLEAN : CheckSD(found)
  \/ \E ok \in BOOLEAN : OpenSD(ok)
  \/ Write \/ WriteArgument

Next == HostStep \/ LinkStep \/ BoardStep

Spec == Init /\ [][Next]_vars

----------------------------------------------------------------------------
(* Properties                                                               *)

\* Type invariant: every variable keeps to the values its declaration allows,
\* and the open file is a file.
TypeOK ==
  /\ connected \in BOOLEAN /\ toBoard \in Seq(Command) /\ toHost \in Seq(Response)
  /\ sdName \in Names \cup {NoFile}
  /\ IsOpen \in BOOLEAN /\ IsWriting \in BOOLEAN /\ partial \in BOOLEAN
  /\ slot \in Command /\ newCommand \in BOOLEAN
  /\ board \in {"run", "take", "dispatch", "index", "open", "check", "write"}
  /\ isTimeSynced \in BOOLEAN /\ fileIndex \in Seq(Args)
  /\ isOpen \in BOOLEAN /\ isWrite \in BOOLEAN
  /\ file \in IF isOpen THEN Names ELSE {NoFile}
  /\ unflushed \in 0 .. MaxRows /\ card \in [Names -> 0 .. MaxRows]
  /\ defaulted \in BOOLEAN /\ exists \in BOOLEAN /\ files \in SUBSET Names
  /\ commands \in 0 .. MaxCommands /\ breaks \in 0 .. MaxBreaks
  /\ lost \in BOOLEAN /\ atRisk \in BOOLEAN

\* The flags the host has after the first i responses of q, for every i.
Reading(q, flags) ==
  LET upTo[i \in Nat] == IF i = 0 THEN flags ELSE Handled(q[i], upTo[i - 1])
  IN  upTo

\* The flags the host will have after the responses of q.
After(q, flags) == Reading(q, flags)[Len(q)]

\* Commands may be overwritten in the slot, torn between two of them, refused
\* or repeated by an impatient user: as long as no response is lost, the host,
\* once it has read the responses under way, shows the state of the card.
HostFollows ==
  ~lost => After(toHost, [open |-> IsOpen, writing |-> IsWriting])
             = [open |-> isOpen, writing |-> isWrite]

\* More than in the end: the host shows every state the card has been in, in
\* order and none besides, see CardMirror.
Ahead == LET r == Reading(toHost, [open |-> IsOpen, writing |-> IsWriting])
         IN  [i \in 1 .. Len(toHost) |-> r[i]]
Mirror == INSTANCE CardMirror
            WITH state <- [open |-> isOpen, writing |-> isWrite],
                 seen <- [open |-> IsOpen, writing |-> IsWriting],
                 ahead <- Ahead, broken <- lost
MirrorSpec == Mirror!Spec

\* m_FileIndex is written only within its bounds.
IndexBounded == Len(fileIndex) <= MaxFiles

\* A row that was flushed stays on the card, whatever files are opened, closed
\* and opened again over broken connections, reboots and refusals, for a user
\* who waits until the board is done with one command before the next, and on a
\* card that never denies a file it has: the name that was looked for is then
\* the name that is opened, and a file that was not found has no rows to lose.
CardKeepsRows == [][~atRisk' => \A n \in Names : card'[n] >= card[n]]_vars

\* backend.cpp reports that the "SD Card Has Begun Writing" and the button turns
\* green: then the board has a file to write to.
WritingHasFile == ~lost /\ toHost = <<>> /\ IsWriting => isOpen
=============================================================================
