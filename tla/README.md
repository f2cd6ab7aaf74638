# Verification of MBR-DAQ

MBR-DAQ is the data acquisition program of a Baja racing team. An ESP32 board
measures wheel and engine speed and sends rows over a WebSocket; a desktop
program shows and logs them, plays a video beside them, controls the board's SD
card and talks to serial ports. This directory holds TLA+ models of its
concurrent and protocol parts, TLC configurations, and proofs checked by TLAPS.
Paths below are relative to the repository; `view.cpp` is
`src/app/pages/view.cpp`, `backend.cpp` is `src/esp32/backend.cpp`.

## The system

### Threads

| thread | made by | what it runs |
| --- | --- | --- |
| GUI | sokol | one frame callback after another (`gui.cpp` OnFrame): menu bar, current page, then the test of TryConnection |
| WebSocket | IXWebSocket | connects, reconnects, and the message callback (`backend.cpp` 41-66) |
| worker | `TelemetryBackend::Start` | WorkerLoop, every 10 ms |
| decoder | `ViewPage::StartDecodingThread` | reads video frames into a bounded queue |
| dialogs | `DrawOpenVideo`, `DrawOpenText` | one detached thread per open file dialog |
| serial worker, cleanup | `SerialManager::Start`, `Stop` | polls ports; closes them |
| board loop task, board network task | Arduino, AsyncTCP | `BoardBackend::Run`; the WebSocket event handler |

### Components

| component | state | operations | interacts by |
| --- | --- | --- | --- |
| video player (`view.cpp`) | frame queue, seek target, flags, selected file | open, clear, play, pause, loop, seek, step, leave page; decode, push | m_FrameMutex and m_QueueCV; atomics; m_VideoPathMutex with the dialog |
| telemetry log (`backend.cpp` OnMessage, `data.cpp`, `view.cpp`) | columns, raw lines, m_Buffer, IsLogging | receive, write a row, snapshot, clear, load, sync and trim | DataMutex, not taken by the menu's clear; m_TxtPathMutex with the dialog |
| connection (`backend.cpp`) | IsConnected, IsReceiving, address, TryConnection, threads | start, kill, set address, send, callback, poll | atomics; joins |
| SD card and commands (`boardcode/`, `home.cpp`) | command slot, file index, card; IsOpen and IsWriting | sync, start, write, close, status; responses | ordered messages that may be lost |
| serial manager (`serial.cpp`) | open and chosen ports, worker | start, stop, open, close, send, receive | m_Mutex, not always taken |
| RPM collector (`rpm.cpp`) | last pulse, speed | GetRPM | polled by the loop task |
| time (`time.cpp`), packet grammar (`ValidatePacket`), addresses (`ip.cpp`) | none | pure functions | |
| pages, plots, style, log | what is drawn | drawing | snapshots |

What makes them hard: a condition variable whose predicate is changed without
its mutex; flags stored by three threads; a clear, vector by vector, without the lock all
others take; one file dialog thread reaching into a page that may be gone; a one-place
command slot that is overwritten; responses that are cut or lost with the
connection; a board that forgets everything at a reboot.

What makes them right, in a line each: the video's queue is bounded, in order
and of the open file, and seeks are answered; the columns of the log describe
the same rows; the indicator tells the truth about the connection and a restart
restarts; the buttons of the SD card show the card's state and flushed rows stay on it;
no deleted serial port is used, and a stopped manager ends with every port
closed; a speed is that of one turn and not older than the time-out;
the host reads from a row the time of day at which it was measured.

## Modules

| module | models | notes |
| --- | --- | --- |
| `FrameQueue` | what the queue between GUI and decoder promises | abstract specification: put in file order, drop at the front, flush |
| `VideoPlayer` | the View page's video half | implements `FrameQueue` |
| `VideoPlayer_proofs` | | theorems about `VideoPlayer` |
| `LocalTime` | a time of day made from microseconds or a text, and read back | the radices of its fields are constants |
| `LocalTime_proofs` | | theorems about the conversions |
| `PacketGrammar` | ValidatePacket, lines run together in m_Buffer | a line is its sequence of words |
| `TelemetryLog` | OnMessage, TelemetryData, LoadData, SyncDataVideo, DeleteExtra, text dialog | uses `PacketGrammar` and `LocalTime` |
| `TelemetryLog_proofs` | | theorems about `TelemetryLog` and `PacketGrammar` |
| `ConnectionLight` | what the connection indicator promises | abstract specification: on with a session, off before the next |
| `TelemetryLink` | Start, Kill, SetIp, SendCMD, callback, WorkerLoop | implements `ConnectionLight`, extends `IpV4` |
| `TelemetryLink_proofs` | | theorems about `TelemetryLink` |
| `IpV4` | IpV4::Valid | with the word's width; what an address is, as a reference |
| `SerialManager` | the serial manager's threads and the serial page | |
| `SerialManager_proofs` | | theorems about `SerialManager` |
| `BoardSampling` | GetRPM, the loop's turns, SYNC, GetRealTime | uses `LocalTime` |
| `BoardSampling_proofs` | | theorems about `BoardSampling` |
| `CardMirror` | what the host's picture of the card promises | abstract specification: the card's states are shown in order, until news is lost |
| `SdProtocol` | home page buttons, HandleCommand, command slot, ReceiveData, SDCard | implements `CardMirror` |
| `SdProtocol_proofs` | | theorems about `SdProtocol` |
| `NatFacts` | | lemmas: induction and recursion on the natural numbers |
| `MC...` | values for TLC | |

Variables have the names of the members (without `m_`), actions those of the
functions or buttons. Program counters (`gui`, `decoder`, `ws`, `worker`,
`board`, `wsPc`) say where a thread is; one step is one critical section or one
access to something another thread can see. Operators whose name has a suffix
(`StopJoin_KeepQueue`) are slips: variants of the definition they precede with a
plausible mistake, used to see that a property notices it, never by a
specification.

**VideoPlayer.** The GUI's frame is a path through `gui`: menu bar (where the
page may be left), DrawOpenVideo, the left half with timer tick and
UpdateTexture, the controls, the right half. StopDecodingThread is three steps
(flag, notify, join and flush) with the caller kept in `after`; RequestSeek is
three (clear, publish, notify). The decoder's wait is modelled in full: it
evaluates the predicate holding the mutex, and only in a later step sleeps;
`blocking` is the time between, in which others may store flags and notify but
not take the mutex. Frames are pairs of file and index; the time accumulator is
the number of frame periods that have passed. The player's totalFrames and
lengths are small numbers.

**TelemetryLog.** A row is the packet it came from; a column is a sequence of
rows, so alignment can be stated without numbers. The WebSocket thread holds
DataMutex from its test of IsLogging to the end of the raw line. The clear of
the menu bar, which takes no mutex, empties one vector per step, in the order of
`data.cpp` (`ClearOrder`; `ColumnOrder` is that of the columns in it), so that
parts of a packet and whole packets come in between. Where it meets a push to
the very vector it empties there is a data race (`ClearMeetsPush`): the clear of
that vector is lost, or one old element is counted again; a push that moves the
vector's storage at that moment, after which anything may happen, is left out.
`torn` remembers such a meeting until a file is loaded. `m_Time` and the
microseconds of a packet are written in one step, which no property can tell
from two. The board's packets and responses are bounded.
A line is what lies between two newlines, several pieces included; ValidatePacket
is applied to their words. A row's time of day is that of the n-th second after
its log began, computed as WriteData does, and lower_bound is the bisection it
is, so unsorted times are searched as the code searches them.

**TelemetryLink.** The callback and the worker are modelled store by store. The
library is external: its thread connects, fails, is cut off and exits once stop()
was called; the ready state changes before the callback hears of it. The
addresses are the typed ones that Valid (`IpV4`) accepts, sequences of digits
and other characters; what they denote (Number, IsAddress) is defined without a
word's width, to compare with. `Light` maps the flags to `ConnectionLight`.

**SdProtocol.** The slot has a keyword and an argument. A command without an
argument leaves the old one behind, as memcpy does, and the loop task reads the
slot more than once, so commands are overwritten and torn. ReceiveData keeps a
pointer to the name: that it was empty, and the default is used, is settled
once (`defaulted`), while a name from the slot is read anew by IndexName, which
takes its readings as one step, by CheckSD and by OpenSD; the response may be
written with a still later one (`Answered`), and the host only looks whether it
is "deadbeef". Opening a file is two steps, as in `sd.cpp`: CheckSD tries to
read it, which may fail on a file that is there, and OpenSD appends to it if
that succeeded and otherwise opens it with FILE_WRITE, which creates the file or
takes all its rows (the ESP32's FILE_WRITE truncates). Rows are counted: those
flushed and those not. `atRisk` remembers that a command was sent while the
board was still at work, or that the card denied a file it has. A response for a
long name is cut and waits in
m_Buffer for the next line, which it takes with it. `Mirror` maps the card's flags
to the state of `CardMirror` and the responses under way to what the host is
still to show (`Ahead`); the first loss of a response ends the promise.

**SerialManager.** Worker w is the thread of the w-th Start; cleanup w is the
detached thread that Stop leaves for it, cleanup 0 the destructor. CleanPorts,
SendData and ReceiveData are critical sections of m_Mutex, in two steps: look at
the ports, then close those noted. CloseAll deletes one port per step, since it
does not take the mutex, and then forgets all entries. An entry of m_Ports is
open, deleted, or not there; the use of a deleted object sets `crashed` and ends
the behaviour. The race on the map itself is undefined behaviour; the mildest
outcomes are modelled, in which an operation of the map is whole; so is the copy
of it that the page makes in every frame (`serialmon.cpp` 59).

**BoardSampling.** The board's timer is `now`, the host's clock HostStart + now.
A turn of the loop takes one of a few times and reads one level of the pin. One
turn of a wheel is the interval between two pulses: that the board halves the
wheel's speed (`board_backend.cpp` 26) is left out.
`samples`, `delay`, `row.at` and `row.delay` are history, so that the properties
can say what was measured when.

## Runs

| run | checks | shows |
| --- | --- | --- |
| `video` | safety and refinement | bounded, ordered, no stale file, a thread started, the running flag raised, the path changed or the page destroyed only when no decode thread is left, sought frame in front after the flush, asleep only on a full queue and never over a seek, implements `FrameQueue` |
| `video_live` | liveness | a seek wakes a sleeping decoder and is answered |
| `video_stop` | finding | the lost wake-up in StopDecodingThread |
| `video_seek` | finding | an old frame answers a seek |
| `log` | safety | columns agree from the newest row backwards, however many packets come between two vectors of a clear; raw lines belong to rows; a loaded file is not mixed with live packets; nothing run together is taken for a packet; the search for the video's row ends at a change |
| `log_snapshot` | finding | a clear without the mutex, with a packet between two of its vectors, shifts a column |
| `log_sync` | finding | the trim is always refused for this board's data |
| `link` | safety, liveness | flags end with the session, no thread is doubled, restarts complete, the green light goes out, the flags implement `ConnectionLight`, only addresses are connected to |
| `link_shown` | finding | a live connection shown as not connected for good |
| `sd` | safety and refinement | the host's flags, with the responses under way, equal the card's; index bounded; flushed rows kept until the card denies a file it has or a command comes while the board is at work; implements `CardMirror` |
| `sd_write` | finding | writing confirmed without a file |
| `ports_sampling` | safety, liveness | serial: for a user who waits no deleted port is used, none is lost open; for any user no port is left in the map with nothing to close it; a stopped manager ends with all ports closed; an unplugged port is closed. Board: speeds of one interval between pulses, fresh; times of rows right over midnight |

The findings quote the sentences of the repository they contradict in
`PROJECT.json`. A run that finds a violation has that one property only; the
passing runs state what does hold of the same code, for example that the
columns, though shifted by the clear, still agree counted from the end
(`TailsAgree`), and that a seek's answer is right once the decoder has flushed
(`SoughtFrameFirst`). Two of the sentences quoted also stand in the help text of
`home.cpp`, which the repository keeps in a comment; the findings quote the live
button and label.

Some passing properties hold under a condition, since the code has no guard
beyond it and no sentence of the repository claims more:

* SeekServed is about the frames there are; the index totalFrames, which the
  slider lets through, is none of them.
* TailsAgree and RawLinesMatch hold until a clear meets a push in one vector.
  They say where columns of different lengths are shifted, at the front, and
  bound no length: two packets or more may come between two vectors.
* HostFollows and MirrorSpec end with the first response that is lost: nothing
  restores the flags.
* CardKeepsRows is for a user who waits for the board and a card that does not
  deny a file it has. Without either half of `atRisk` TLC finds flushed rows
  truncated, with five commands: after a failed test for the file, and after a
  command that changes the name between the test and the opening.
* PatienceIsSafe has the hypothesis described below.
* UrlIsAnAddress is about numbers that fit the machine's word.

### Bounds

* `video`: two files of three and two frames, queue of two, steps of one. The
  queue can be empty, partly filled and full, the end of a file is reached with
  and without looping, and the longer file is left for the shorter one. The real
  bound (10) and steps (1, 5, 10) differ only in size; the theorems are for all.
  `video_live` has a queue of one and a file that does not open.
* `log`: three packets, two responses, a file of two rows, a day of eight seconds
  that ends within the file or the live rows. Two packets and a response show
  lines run together; three packets show what a clear leaves behind when two of
  them come between two of its vectors; five rows, the file's and the live ones,
  give the bisection a choice. `log_snapshot` needs two packets; `log_sync` adds a
  column that is never sent.
* `link`: eight typed addresses at the edges of what is accepted, one of them a
  long number that wraps to 1 in the word; nothing else is bounded. The word has
  2^27 values instead of 2^64. The code lets a number through that wraps, so
  UrlIsAnAddress is about texts whose number fits the word; the one that wraps
  is accepted and connected to in the run.
* `ports_sampling`: two ports and two Starts, so that a cleanup meets a second
  worker and a second cleanup; five turns of three lengths, one SYNC, a time-out
  of four units, a row every three, and a day of 32 units that ends in the run.
  The two parts share nothing; a behaviour is one of either.
* `sd`: four commands from the user (synchronise, start, write, start again),
  one broken connection or reboot, two places in the index, one row, one name
  that is too long. Four commands are what it takes to re-open a file with a
  flushed row. The run has six million states and is the longest, about two
  minutes. The typed commands are the odd ones: SYNC without a number,
  SD_START without a name, an unknown word; they come while fewer than two
  commands have been given (`MaxTyped`), so that buttons follow on them.

### Fairness

* Video: the decoder is scheduled (weak fairness), and the GUI gets a mutex it
  keeps asking for and goes on with its frame (strong fairness, since the
  decoder holds the mutex again and again). The user, the dialogs and spurious
  wake-ups owe nothing.
* Connection: the three threads are scheduled, time passes, a connection that
  stop() closes does end; the end-of-frame test of TryConnection comes in every
  frame, whatever the user did in it (strong fairness). The peer and the network
  owe nothing.
* Serial: the GUI and the workers get the mutex they keep asking for (strong
  fairness: each holder gives it back, and a worker sleeps a millisecond without
  it in every round); the cleanup threads, which take no mutex, are scheduled
  (weak fairness). Devices and the user owe nothing.
* The log, the card and the board's sampling have safety properties only.

### What the serial properties assume

PatienceIsSafe has a hypothesis: `hasty` is false. It is set when the user
starts, sends or exits while a cleanup is under way, or changes the baud rate
while a worker lives. Without it TLC finds a deleted port used within a few
steps: the code has no guard against it, and no sentence of the repository
claims one, so it is listed under hazards and not as a finding. NoneAbandoned holds
for hasty users too, and so do StopsForGood and UnpluggedCloses, up to a crash.

## Proofs

Seven modules hold theorems, and NatFacts the lemmas three of them share. They
are proved for every value of the constants that the named assumptions of the
modules allow.

| Module | Theorems | States |
|---|---|---|
| `VideoPlayer_proofs` | TypeCorrect, QueueStaysBounded, NeverStaleVideo, NeverTwoDecoders, SoughtComesFirst, WakesForRoom, NeverSleepsOverSeek, ImplementsFrameQueue | all of run `video` |
| `TelemetryLink_proofs` | TypeCorrect, FlagsEndWithSession, NeverDoubled, UsesNewAddress, ImplementsConnectionLight, ConnectsToAnAddress; ValueIsNumber | the safety half of run `link`; what validate_digit computes for every text |
| `LocalTime_proofs` | RoundTrip, FieldsInRange, DaysDropped | what the conversions return for every input |
| `SerialManager_proofs` | SerialTypes, NoPortAbandoned, PatiencePays | the ports' safety half of run `ports_sampling` |
| `BoardSampling_proofs` | SamplingTypes, RowTimesTrue, SpeedsFresh, SpeedsOfOneTurn | the board's half of run `ports_sampling` |
| `SdProtocol_proofs` | TypeCorrect, IndexStaysBounded, CardNeverLoses, HostAlwaysFollows, ImplementsCardMirror | all of run `sd` |
| `TelemetryLog_proofs` | TypeCorrect, LinesAreWhole, TailsAlwaysAgree, RawLinesAlwaysMatch, FileStaysTheFile, SyncAlwaysFindsRow | all of run `log` |

*Player.* QueueBounded alone is not inductive: the decoder pushes on the strength
of a size it saw under an earlier lock. RoomInv remembers that: from the
predicate to the push there is room, since only the decoder adds. ControlInv
ties `after` to the GUI's position, so that the thread is known to have ended
where a file is opened or the page destroyed; with ThreadSteps, which names the
steps that start a thread, raise its flag or change the path, that is OneDecoder,
for every caller of StopDecodingThread. FileInv says that capture, frame
in hand and queue are of videoPath, which changes only when there is no thread
and no queue. OrderInv, needed for the refinement, says that the frame that
will be pushed next follows the last one queued; it is suspended between a
seek's repositioning and its flush. `Inductive` proves the conjunction with
TypeOK; the refinement maps each step to Put, Drop, Flush or a stutter. The
Boolean variables' types are proved apart (FlagStep), for the prover's sake.
SoughtFrameFirst needs SoughtInv besides, which follows a seek from the user to
the screen: a target not yet taken is the frame the page shows as current; once
it is taken and a frame is awaited, that frame is the next to be read as long as
the queue is empty or about to be emptied, and in front of it afterwards. That
the read succeeds follows from the thread's totalFrames being the file's length,
and the next file cannot inherit the claim since its screen begins empty.

*Wake-ups.* SleepsWhenFull is about the thread asleep; FullInv adds the time
between its predicate and its sleep, in which it holds the mutex and the queue
cannot change. That a tick of one frame, which takes no mutex, leaves the queue as
long as it was is TickOfOne. SeekNotSleptOver needs PendingInv: when a frame of
the old position has ended the forced update before the target was taken (the
finding of `video_seek`), it has made room at that moment, so the thread reaches
its exchange before it can find the queue full.

*Connection.* KillInv adds how far Kill has come: the WebSocket's thread is gone
from the first join on, the worker from the second. With it
FlagsOnlyInSession, which needs no assumption on who stores last, is inductive.
The refinement to ConnectionLight is by cases on who stores: every store opens
the session, closes it, sets receiving while it lasts, puts out one of the two
flags, or changes nothing the light shows.

*Addresses.* Value and Number are recursive functions over a text; ScanExists
builds the iteration they are defined by, ValueScan and NumberScan show that they
are its end. ValueIsNumber is then an induction over the prefixes of the text: a
prefix of a number that fits the word fits it too, so no step wraps. With it
what Valid accepts is an address (ValidIsAddress), and the type invariant says
that the URL is one Valid accepts.

*Times.* A time of day is a number in mixed radix, and the proofs go digit by
digit from the hour down (Horner's form): one lemma on `\div` and `%` by one
radix, used at each digit. The radices are constants, so nothing rests on 60
or 1 000 000.

*Serial ports.* ThreadInv holds for every user: a worker that lives is the one in
m_Worker or has a cleanup that will join it. For a patient user there is one
cleanup at a time, with neither a worker in m_Worker nor a use of the ports
beside it (WaitInv). So, while CloseAll walks, nobody lives who could take
m_Mutex (Alone), whoever holds m_Mutex finds no deleted port (NoneDeleted), and
the walk divides the ports into those deleted behind it and those open before it
(WalkInv): none is deleted twice, and none is open when the maps are cleared.
NoneAbandoned is for every user: ports are opened in the critical section of a
worker, which lives, and ThreadInv names who is to stop it (CloserInv).

*Board's clock.* RowTimeTrue is not inductive: it speaks of the row alone.
ClockInvariant says of the board what it needs to: the clock's base and the
time of the last SYNC give the host's clock, late by the command's delay
(ClockInv), a command still in the slot carries the time it was sent at
(CommandInv), and the row was made from one such reading (RowInv). The day's
roll-over is DaysDropped. For SpeedIsFresh, PulseInvariant keeps the witness: a
speed that is not zero has the collector's last pulse, a fall of the pin, within
the time-out (FreshInv); and a collector that waits for a second pulse was last
shown a high level, so that the low level it counts next is a fall (ArmedInv).
SpeedOfOneTurn speaks of all readings there have been. TurnInv says the same of
the pulse that the collector counts from (CountsFrom: the last fall, or a low
reading after a time-out) and of what the next low reading will be (Expects);
falls, starts and turns, once in the history, stay in it when a reading is added
(StartsStay, OneReadingMore).

*Card.* CardInv counts the rows of the open file that are flushed and those that
are not together, below MaxRows, has nothing left to flush when no file is open
(none is while one is looked for, LookedFor), and knows that a file that is not
on the card has no rows; that makes TypeOK's bounds inductive. A row can then be
lost in one step only: OpenSD, of a file that was looked for and not found.
RiskInv excludes it as long as `atRisk` is false: what is under way to a board
at work is at most a greeting without an argument, which leaves the name in the
slot alone, so the name opened is the name looked for, and a file that is there
was found. RiskKept, RiskSent, RiskReceived and RiskWorked carry it through the
user's, the link's and the board's steps.
MessageInv carries the queues, the slot and the index with its
bound: the index grows only in IndexName, behind its test, and the test and
the write are one step of one task although the slot is read anew. As with the
player, the flags are proved apart (FlagInv).

*Host.* HostFollows compares the card's flags with those the host will have
after all responses under way, however many there are. Reading is a recursive
function; ReadingReads shows, by induction, that it is an iteration of Handled
along the queue, SameReading and RestReading what a response more at the back
and one less in front do to it. WhatSteps sorts the steps into those that
answer, read, lose or do neither. With NothingCut (while nothing is lost nothing
is cut) HostFollows is inductive: a command appends the response that turns the
card's old flags into its new ones, or two of them. The refinement to
`CardMirror` needs no further invariant: a response appended to the queue is one
state more ahead (ShowsAppend), the state of the card by HostFollows; a response
read is the next state shown (ShowsTail). Closing is the step with two.

*Log.* None of the properties about columns is inductive, since they hold only
while DataMutex is free. IInv therefore speaks of the columns as they will be
when the row in hand is written: ColumnThen adds the value a column is still
owed, RawThen the raw line. In that form agreement from the newest row backwards
holds in every state in which no clear has met a push, whatever the clear has
emptied so far (TailInv, RawInv): emptying a vector keeps its agreement with
every other, and a packet adds the same row at the end of each. That no time
lacks its values is suspended from the first emptied column to the emptied times
(TimePending), and holds again because the times come after the columns in
ClearOrder. FileInv adds that logging is off, and no row in
hand, from the hand-over on. LineIsWhole rests on the packet grammar:
TogetherSpoils shows that two lines or more run together have a word no packet
may have where a key belongs, or a key without a value, by induction on their
number; BufferInv that no line in m_Buffer is empty. SyncFindsRow rests on
HalveKeeps, the loop invariant of the bisection, which needs no sorted times.

*Induction.* The library's induction theorems take an operator as a parameter,
which the provers cannot instantiate. NatFacts derives what is needed from
well-foundedness of `<`, in terms of sets: a set with 0 and with every successor
holds every natural number (SetInduction), and a function can be iterated
(Iteration), so that a recursive function equals its definition.

Only model-checked: all liveness (SeekTaken, SeekServed, RestartHappens,
GreenGoesOut, StopsForGood, UnpluggedCloses). Fairness and ENABLED are beyond
the prover; no module has a RECURSIVE operator.

## Not modelled

- Drawing, plots, fonts, style and the log's text; the WebSocket, OpenCV, file
  dialog, serial and MP4 libraries, except for what they may do to the modules
  above; floating point (FromMinutes, MinutesSinceMidnight) and the formatting
  of DateTime.
- Tearing of values that are not integers, what a data race on a map may do
  beyond a stale or a missed entry, and a clear that races the reallocation of
  the vector it empties.
- The halving of the wheel's speed; a speed is kept as the interval it is computed
  from.
- The received text of the serial page and spaces within a packet: lines are
  sequences of words.
- Text files that are neither this program's downloads nor the card's (LoadData
  does not look at line ends), and rows with a value that `stod` cannot read.
- A page that is destroyed between a dialog thread's test of `*alive` and its
  use (a known hazard, see the plan).

## Plan

1. `MediaDialogs`: the page's life against both dialog threads; cancelled
   dialogs.
2. TelemetryLog: rows with missing or unreadable values, and files cut on the
   card.
3. Abstract specifications of the serial manager (a port is closed or open, and
   closed in the end) and of the log (a list of rows, of which the newest agree),
   and their implementation proved.
