---------------------------- MODULE TelemetryLog ----------------------------
(***************************************************************************)
(* The log of telemetry rows: the WebSocket thread takes lines apart       *)
(* (TelemetryBackend::OnMessage) and writes the columns of TelemetryData,  *)
(* while the GUI thread snapshots, clears, loads and trims the same        *)
(* columns and a file dialog thread hands over a file and ends logging.    *)
(*                                                                         *)
(* A row is the packet or file line it came from; a column is the sequence *)
(* of the rows that have a value in it.  The WebSocket thread holds        *)
(* DataMutex exactly while wsPc = "write".  The time of day of a row is    *)
(* that of the n-th second after its log began, so it may pass midnight.   *)
(***************************************************************************)
EXTENDS PacketGrammar, LocalTime

CONSTANTS PacketFields,   \* the fields of a packet, in order, "T" first
          ColumnOrder,    \* the value columns, as RPMData and ShockData clear them
          FileLen,        \* rows of the file a user may load
          FileStart, LiveStart,   \* when the file and the live rows begin
          TypedTexts,     \* what may stand in the box for the video's time
          MaxPackets,     \* bound: packets the board sends
          MaxResponses    \* bound: responses the board sends

Columns     == {ColumnOrder[i] : i \in 1 .. Len(ColumnOrder)}
SentColumns == {PacketFields[i] : i \in 2 .. Len(PacketFields)}

ASSUME LogAssumption ==
  /\ PacketFields \in Seq(Columns \cup {"T"}) /\ Len(PacketFields) > 0
  /\ PacketFields[1] = "T" /\ "T" \notin Columns
  /\ \A i \in 2 .. Len(PacketFields) : PacketFields[i] \in Columns
  /\ \A i, j \in 1 .. Len(PacketFields) : PacketFields[i] = PacketFields[j] => i = j
  /\ ColumnOrder \in Seq(Columns) /\ {"raw", "time", "micros"} \cap Columns = {}
  /\ {"T", "RES", "SD_START"} \subseteq KnownFields /\ SentColumns \subseteq KnownFields
  /\ FileStart \in Nat /\ LiveStart \in Nat /\ FileLen \in Nat /\ MaxPackets \in Nat /\ MaxResponses \in Nat

VARIABLES
  sent, responses,                   \* the board: how much it has sent
  wsPc, buffer, line, field,         \* WebSocket thread: m_Buffer, the line in hand
  isLogging,
  data,                              \* TelemetryData
  gui, creation, erasePos,           \* GUI thread: m_VideoCreationTimestamp, position
  txtPath, txtLoaded, selectedTxt, dialogRunning,   \* members of the View page
  cleared,                           \* how far the menu's clear has come
  resumed,       \* history: logging was turned on since a dialog handed over a file
  torn           \* history: a clear met a push in one vector, nothing was loaded since

boardVars == <<sent, responses>>
guiVars   == <<creation, erasePos, cleared>>
history   == <<resumed, torn>>
wsVars    == <<wsPc, buffer, line, field>>
txtVars   == <<txtPath, txtLoaded, selectedTxt, dialogRunning>>
vars == <<sent, responses, wsPc, buffer, line, field, isLogging, data, gui,
          creation, erasePos, txtPath, txtLoaded, selectedTxt, dialogRunning, cleared,
          resumed, torn>>

Midnight == FromString(<<0, 0, 0>>)

Live(n)  == <<"live", n>>
FileRows == [n \in 1 .. FileLen |-> <<"file", n>>]
Row      == {"live", "file"} \X Nat
Response == <<"res", 0>>
Newline  == <<"newline", 0>>
Piece    == Row \cup {Response, Newline}
NoLine   == <<>>

NoData == [micros |-> <<>>, time |-> <<>>, col |-> [c \in Columns |-> <<>>],
           raw |-> <<>>, currentLine |-> NoLine]

Init ==
  /\ sent = 0 /\ responses = 0
  /\ wsPc = "idle" /\ buffer = <<>> /\ line = NoLine /\ field = 0
  /\ isLogging = FALSE /\ data = NoData
  /\ gui = "idle" /\ creation = Midnight /\ erasePos = 0
  /\ txtPath = FALSE /\ txtLoaded = FALSE /\ selectedTxt = FALSE /\ dialogRunning = FALSE
  /\ cleared = 0 /\ resumed = TRUE /\ torn = FALSE

DataMutexFree == wsPc # "write"

\* The value of "T" in a row's packet, and what WriteData keeps of it.
Sent(row) == (IF row[1] = "live" THEN LiveStart ELSE FileStart) + row[2] * MicrosPerSecond
TimeNoNormal(row) == MicrosSinceMidnight(FromMicros(Sent(row)))

----------------------------------------------------------------------------
(* TelemetryData                                                            *)

\* One value goes to its column; the time goes to two.
WriteData(d, f, row) ==
  IF f = "T" THEN [d EXCEPT !.micros = Append(@, row), !.time = Append(@, row)]
  ELSE [d EXCEPT !.col[f] = Append(@, row)]

\* A whole Clear, as LoadData makes it under DataMutex.  m_CurrentLine is not
\* cleared.
Clear(d) == [NoData EXCEPT !.currentLine = d.currentLine]

\* Clear, then WriteData for each pair of the file, which a download of this
\* program or the board's card has written; raw lines are not restored.
Loaded(d) ==
  [Clear(d) EXCEPT !.micros = FileRows, !.time = FileRows,
                   !.col = [c \in Columns |-> IF c \in SentColumns THEN FileRows ELSE <<>>]]

\* DeleteExtra gives up when any column, filled or not, is too short; raw
\* lines and m_TimeNoNormalMicros keep their rows.
Erased(s, n) == SubSeq(s, n + 1, Len(s))

Trimmed(d, n) ==
  IF Len(d.time) < n \/ \E c \in Columns : Len(d.col[c]) < n
  THEN d
  ELSE [d EXCEPT !.time = Erased(@, n), !.col = [c \in Columns |-> Erased(d.col[c], n)]]

----------------------------------------------------------------------------
(* The board and the WebSocket thread                                       *)

\* A WebSocket message arrives whole and is appended to m_Buffer.
Receive(pieces) ==
  /\ wsPc = "idle"
  /\ wsPc' = "lines" /\ buffer' = buffer \o pieces
  /\ UNCHANGED <<line, field, isLogging, data, gui, guiVars, txtVars, history>>

ReceivePacket ==
  /\ sent < MaxPackets /\ sent' = sent + 1
  /\ Receive(<<Live(sent + 1), Newline>>)
  /\ UNCHANGED responses

\* The board cuts a response at 63 characters and may lose its newline.
ReceiveResponse(ended) ==
  /\ responses < MaxResponses /\ responses' = responses + 1
  /\ Receive(IF ended THEN <<Response, Newline>> ELSE <<Response>>)
  /\ UNCHANGED sent

\* The link is down: the packet is sent to nobody.  m_Buffer keeps what it has.
LosePacket ==
  /\ sent < MaxPackets /\ sent' = sent + 1
  /\ UNCHANGED <<responses, wsVars, isLogging, data, gui, guiVars, txtVars, history>>

FirstNewline == CHOOSE i \in 1 .. Len(buffer) :
                  buffer[i] = Newline /\ \A j \in 1 .. i - 1 : buffer[j] # Newline

\* What the board prints: a value for each field; "RES 0 SD_START <name>".
Words(piece) ==
  IF piece = Response THEN <<"RES", "0", "SD_START", "name">>
  ELSE [i \in 1 .. 2 * Len(PacketFields) |->
          IF i % 2 = 1 THEN PacketFields[(i + 1) \div 2] ELSE "1"]

\* The next complete line leaves the buffer; an invalid one is dropped.
TakeLine ==
  /\ wsPc = "lines" /\ \E i \in 1 .. Len(buffer) : buffer[i] = Newline
  /\ LET l     == SubSeq(buffer, 1, FirstNewline - 1)
         valid == ValidatePacket(RunTogether([i \in 1 .. Len(l) |-> Words(l[i])]))
     IN  /\ buffer' = SubSeq(buffer, FirstNewline + 1, Len(buffer))
         /\ line' = IF valid THEN l ELSE NoLine
         /\ wsPc' = IF valid THEN "lock" ELSE "lines"
  /\ UNCHANGED <<boardVars, field, isLogging, data, gui, guiVars, txtVars, history>>

LinesDone ==
  /\ wsPc = "lines" /\ \A i \in 1 .. Len(buffer) : buffer[i] # Newline
  /\ wsPc' = "idle"
  /\ UNCHANGED <<boardVars, buffer, line, field, isLogging, data, gui, guiVars,
                 txtVars, history>>

\* Slip: the raw line is kept before the test of IsLogging.
LockAndTest_RawFirst ==
  /\ wsPc = "lock"
  /\ IF line[1] = Response
     THEN wsPc' = "lines" /\ line' = NoLine /\ UNCHANGED <<field, data>>
     ELSE IF ~isLogging
     THEN /\ data' = [data EXCEPT !.raw = Append(@, line[1])]
          /\ wsPc' = "lines" /\ line' = NoLine /\ UNCHANGED field
     ELSE wsPc' = "write" /\ field' = 1 /\ UNCHANGED <<line, data>>
  /\ UNCHANGED <<boardVars, buffer, isLogging, gui, guiVars, txtVars, history>>

\* DataMutex is taken; HandleCommand and the test of IsLogging run under it.
LockAndTest ==
  /\ wsPc = "lock"
  /\ IF line[1] = Response \/ ~isLogging
     THEN wsPc' = "lines" /\ line' = NoLine /\ UNCHANGED field
     ELSE wsPc' = "write" /\ field' = 1 /\ UNCHANGED line
  /\ UNCHANGED <<boardVars, buffer, isLogging, data, gui, guiVars, txtVars, history>>

\* What the next write leaves and where the thread goes on: a field of the
\* packet, then WriteRawLine, SaveCurrentLine (packets carry "W") and the
\* unlock.  The two vectors that "T" goes to are as good as written at once:
\* the clear comes to m_TimeNoNormalMicros last, to m_Time just before.
FieldWritten == WriteData(data, PacketFields[field], line[1])
NextField    == field' = field + 1 /\ UNCHANGED <<wsPc, line>>
LineWritten  == [data EXCEPT !.raw = Append(@, line[1]), !.currentLine = line]
NextLine     == wsPc' = "lines" /\ line' = NoLine /\ field' = 0

WriteField ==
  /\ wsPc = "write" /\ field <= Len(PacketFields)
  /\ data' = FieldWritten /\ NextField
  /\ UNCHANGED <<boardVars, buffer, isLogging, gui, guiVars, txtVars, history>>

WriteRawLine ==
  /\ wsPc = "write" /\ field > Len(PacketFields)
  /\ data' = LineWritten /\ NextLine
  /\ UNCHANGED <<boardVars, buffer, isLogging, gui, guiVars, txtVars, history>>

----------------------------------------------------------------------------
(* GUI thread                                                               *)

\* The menu bar clears without taking DataMutex, one vector after the other.
\* Slip: the time axis is cleared before the columns.
ClearOrder_TimeFirst == <<"time">> \o <<"raw">> \o ColumnOrder \o <<"micros">>

ClearOrder == <<"raw">> \o ColumnOrder \o <<"time", "micros">>
ClearNext  == ClearOrder[cleared + 1]

Vector(d, v)        == IF v \in Columns THEN d.col[v] ELSE d[v]
WithVector(d, v, s) == IF v \in Columns THEN [d EXCEPT !.col[v] = s] ELSE [d EXCEPT ![v] = s]

ClearGoesOn ==
  /\ cleared' = IF cleared + 1 < Len(ClearOrder) THEN cleared + 1 ELSE 0
  /\ gui' = IF cleared + 1 < Len(ClearOrder) THEN "clear" ELSE "idle"
  /\ UNCHANGED <<boardVars, buffer, isLogging, creation, erasePos, txtVars, resumed>>

PressClearData ==
  /\ gui = "idle" /\ gui' = "clear"
  /\ UNCHANGED <<boardVars, wsVars, isLogging, data, guiVars, txtVars, history>>

ClearVector ==
  /\ gui = "clear"
  /\ data' = WithVector(data, ClearNext, <<>>)
  /\ ClearGoesOn
  /\ UNCHANGED <<wsVars, torn>>

\* The data race: OnMessage pushes to the very vector that is cleared.  Either
\* store of the vector's end may come last, read before the other or after:
\* the clear is lost, or an old element is counted again.
Torn(written) ==
  LET pushed == Vector(written, ClearNext)
  IN  /\ pushed # Vector(data, ClearNext)
      /\ \E left \in {pushed, SubSeq(pushed, 1, 1)} :
           data' = WithVector(written, ClearNext, left)

ClearMeetsPush ==
  /\ gui = "clear" /\ wsPc = "write"
  /\ IF field <= Len(PacketFields) THEN NextField /\ Torn(FieldWritten)
                                   ELSE NextLine /\ Torn(LineWritten)
  /\ ClearGoesOn
  /\ torn' = TRUE

ToggleLogging ==
  /\ gui = "idle"
  /\ isLogging' = ~isLogging
  /\ resumed' = (resumed \/ ~isLogging)
  /\ UNCHANGED <<boardVars, wsVars, data, gui, guiVars, txtVars, torn>>

\* Slip: the file is loaded without DataMutex, as the menu's clear is.
LoadData_NoLock(path) ==
  IF path THEN data' = Loaded(data) /\ torn' = FALSE ELSE UNCHANGED <<data, torn>>

\* LoadData: a path that does not open loads nothing.
LoadData(path) ==
  IF path THEN /\ DataMutexFree
               /\ data' = Loaded(data) /\ torn' = FALSE
          ELSE UNCHANGED <<data, torn>>

TakeSelectedTxt ==
  /\ gui = "idle" /\ selectedTxt
  /\ txtPath' = TRUE /\ selectedTxt' = FALSE /\ txtLoaded' = TRUE
  /\ LoadData(TRUE)
  /\ UNCHANGED <<boardVars, wsVars, isLogging, gui, guiVars, dialogRunning, resumed>>

PressOpenTextFile ==
  /\ gui = "idle" /\ ~dialogRunning
  /\ dialogRunning' = TRUE /\ txtLoaded' = FALSE
  /\ UNCHANGED <<boardVars, wsVars, isLogging, data, gui, guiVars, txtPath,
                 selectedTxt, history>>

\* "Sync Data/Video" reloads the file whatever else it then refuses to do: a
\* video may not be loaded, the text not be a time.
PressSync ==
  /\ gui = "idle"
  /\ LoadData(txtPath)
  /\ \/ gui' = "idle" /\ UNCHANGED creation
     \/ /\ txtLoaded /\ gui' = "sync"
        /\ \E text \in TypedTexts : Readable(text) /\ creation' = FromString(text)
  /\ UNCHANGED <<boardVars, wsVars, isLogging, erasePos, cleared, txtVars, resumed>>

\* std::ranges::lower_bound bisects, whether the times are sorted or not: the
\* len rows after the first ones are still to be searched.
Halve(times, t, s) ==
  LET half == s.len \div 2
  IN  IF s.len = 0 THEN s
      ELSE IF times[s.first + half + 1] < t
      THEN [first |-> s.first + half + 1, len |-> s.len - half - 1]
      ELSE [first |-> s.first, len |-> half]

LowerBound(times, t) ==
  LET search[i \in Nat] == IF i = 0 THEN [first |-> 0, len |-> Len(times)]
                           ELSE Halve(times, t, search[i - 1])
  IN  search[Len(times)].first

Position == LowerBound([i \in 1 .. Len(data.micros) |-> TimeNoNormal(data.micros[i])],
                       MicrosSinceMidnight(creation))

\* Slip: one row before the video is to be kept.
SyncDataVideo_OneBack ==
  /\ gui = "sync" /\ DataMutexFree
  /\ IF Position < Len(data.micros) THEN gui' = "trim" /\ erasePos' = Position - 1
     ELSE gui' = "idle" /\ UNCHANGED erasePos
  /\ creation' = Midnight
  /\ UNCHANGED <<boardVars, wsVars, isLogging, data, cleared, txtVars, history>>

\* Slip: the last row before the video is taken for the first after it.
SyncDataVideo_UpperBound ==
  /\ gui = "sync" /\ DataMutexFree
  /\ IF Position + 1 < Len(data.micros) THEN gui' = "trim" /\ erasePos' = Position + 1
     ELSE gui' = "idle" /\ UNCHANGED erasePos
  /\ creation' = Midnight
  /\ UNCHANGED <<boardVars, wsVars, isLogging, data, cleared, txtVars, history>>

\* SyncDataVideo: the first row not before the video, if there is one.  (The
\* time stamp is not read again.)
SyncDataVideo ==
  /\ gui = "sync" /\ DataMutexFree
  /\ IF Position < Len(data.micros) THEN gui' = "trim" /\ erasePos' = Position
     ELSE gui' = "idle" /\ UNCHANGED erasePos
  /\ creation' = Midnight
  /\ UNCHANGED <<boardVars, wsVars, isLogging, data, cleared, txtVars, history>>

\* The mutex was released since the position was found.
DeleteExtra ==
  /\ gui = "trim" /\ DataMutexFree
  /\ data' = Trimmed(data, erasePos)
  /\ gui' = "idle" /\ erasePos' = 0
  /\ UNCHANGED <<boardVars, wsVars, isLogging, creation, cleared, txtVars, history>>

\* Leaving the View page destroys its members; the log stays.
LeaveView ==
  /\ gui = "idle"
  /\ txtPath' = FALSE /\ txtLoaded' = FALSE /\ selectedTxt' = FALSE /\ dialogRunning' = FALSE
  /\ UNCHANGED <<boardVars, wsVars, isLogging, data, gui, guiVars, history>>

----------------------------------------------------------------------------
(* File dialog thread; m_TxtPathMutex makes its three stores one step for   *)
(* the GUI, and of the three the WebSocket thread reads only IsLogging.  A  *)
(* second dialog, opened before the GUI looks, takes back a first choice.   *)

DialogReturns(chosen) ==
  /\ dialogRunning
  /\ selectedTxt' = chosen /\ dialogRunning' = FALSE /\ isLogging' = FALSE
  /\ resumed' = IF chosen THEN FALSE ELSE resumed \/ selectedTxt
  /\ UNCHANGED <<boardVars, wsVars, data, gui, guiVars, txtPath, txtLoaded, torn>>

----------------------------------------------------------------------------
WebSocketStep ==
  \/ ReceivePacket \/ LosePacket \/ \E ended \in BOOLEAN : ReceiveResponse(ended)
  \/ TakeLine \/ LinesDone \/ LockAndTest \/ WriteField \/ WriteRawLine
GuiStep ==
  \/ PressClearData \/ ClearVector \/ ToggleLogging \/ TakeSelectedTxt \/ PressOpenTextFile
  \/ PressSync \/ SyncDataVideo \/ DeleteExtra \/ LeaveView

Next ==
  WebSocketStep \/ GuiStep \/ ClearMeetsPush \/ \E chosen \in BOOLEAN : DialogReturns(chosen)

Spec == Init /\ [][Next]_vars

----------------------------------------------------------------------------
(* Properties                                                               *)

\* Type invariant: every variable keeps to the values its declaration allows.
TypeOK ==
  /\ sent \in 0 .. MaxPackets /\ responses \in 0 .. MaxResponses
  /\ wsPc \in {"idle", "lines", "lock", "write"}
  /\ buffer \in Seq(Piece) /\ line \in Seq(Piece) /\ field \in 0 .. Len(PacketFields) + 1
  /\ isLogging \in BOOLEAN
  /\ data \in [micros : Seq(Row), time : Seq(Row), col : [Columns -> Seq(Row)],
               raw : Seq(Row), currentLine : Seq(Piece)]
  /\ gui \in {"idle", "clear", "sync", "trim"} /\ creation \in TimeOfDay /\ erasePos \in Nat
  /\ txtPath \in BOOLEAN /\ txtLoaded \in BOOLEAN /\ selectedTxt \in BOOLEAN
  /\ dialogRunning \in BOOLEAN
  /\ cleared \in 0 .. Len(ClearOrder) - 1 /\ resumed \in BOOLEAN /\ torn \in BOOLEAN

\* Nothing that was run together is taken for a packet or a response: a cut
\* response and what follows it are dropped, whatever they add up to.
LineIsWhole == wsPc \in {"lock", "write"} => Len(line) = 1

\* The search for the video's first row ends between a row before the video
\* and one that is not, with times that start again at midnight too; where
\* the times are sorted that is the first row of the video.
SyncFindsRow ==
  [][gui = "sync" /\ gui' = "trim" =>
       LET time(i) == TimeNoNormal(data.micros[i])
           video   == MicrosSinceMidnight(creation)
       IN  /\ time(erasePos' + 1) >= video
           /\ erasePos' > 0 => time(erasePos') < video
           /\ (\A i, j \in 1 .. Len(data.micros) : i < j => time(i) <= time(j))
              => \A i \in 1 .. erasePos' : time(i) < video]_vars

\* From the last row backwards two columns hold values of the same rows.
SameTail(s, t) ==
  \A i \in 0 .. Len(s) - 1 : i < Len(t) => s[Len(s) - i] = t[Len(t) - i]

\* A page takes its snapshot under DataMutex and outside its own clear.  Unless
\* a clear met a push, the columns a packet fills agree row by row counted from
\* the newest, however many packets came between two of its vectors, and every
\* time has its values: what they are shifted by lies at the front of a column.
TailsAgree ==
  DataMutexFree /\ gui # "clear" /\ ~torn =>
    \A c \in SentColumns :
      SameTail(data.time, data.col[c]) /\ Len(data.time) <= Len(data.col[c])

\* The lines that can be downloaded are the lines of the live rows shown: the
\* newest line belongs to the newest row, and so on back to the loaded rows,
\* in the middle of a clear too unless it met a push.
RawLinesMatch ==
  DataMutexFree /\ ~torn =>
    \A i \in 0 .. Len(data.raw) - 1 :
      i < Len(data.time) /\ data.time[Len(data.time) - i][1] = "live"
      => data.raw[Len(data.raw) - i] = data.time[Len(data.time) - i]

\* A file the dialog hands over is not mixed with live packets unless the user
\* turns logging on again: a packet that was being written when the dialog
\* turned it off is finished before the load, and later ones are not written.
LoadedDataIsTheFile ==
  txtPath /\ ~selectedTxt /\ ~resumed =>
    \A s \in {data.time} \cup {data.col[c] : c \in SentColumns} :
      SameTail(s, FileRows) /\ Len(s) <= FileLen

\* backend.hpp: PackData returns "a safely accessible grouping of relevant
\* data": the i-th time and the i-th value of a snapshot are of one packet, at
\* least where no clear met a push in the same vector.
SnapshotAligned ==
  DataMutexFree /\ gui # "clear" /\ ~torn =>
    \A c \in SentColumns :
      \A i \in 1 .. Len(data.time) : i <= Len(data.col[c]) => data.time[i] = data.col[c][i]

\* The button "Sync Data/Video" of view.cpp trims the rows before the time the
\* video was created, as the help text kept in a comment of home.cpp tells the
\* user: once it is pressed and a row was found, those rows are gone.
SyncTrims ==
  [][gui = "trim" /\ gui' = "idle" => Len(data'.time) = Len(data.time) - erasePos]_vars
=============================================================================
