---------------------------- MODULE SerialManager ----------------------------
(***************************************************************************)
(* The serial ports of the desktop program: SerialManager's worker, the    *)
(* detached thread that Stop leaves behind, and the serial page on the GUI *)
(* thread.  CleanPorts, SendData and ReceiveData run under m_Mutex;        *)
(* CloseAll and ChangeBaudRate walk over the same map without it, port by  *)
(* port.  Of the outcomes of that race the mildest are modelled: an        *)
(* operation of the map is whole, and only the use of an object that has   *)
(* been deleted ends the program.                                          *)
(*                                                                         *)
(* Worker w is the thread of the w-th Start; thread 0 is the GUI.          *)
(***************************************************************************)
EXTENDS Integers

CONSTANTS Ports,        \* names of ports, in the order of std::map
          MaxStarts     \* bound: how often the worker is started

ASSUME SerialAssumption == Ports \subseteq Nat \ {0} /\ MaxStarts \in Nat

Workers == 1 .. MaxStarts
GUI     == 0

VARIABLES
  present,                     \* what serial::list_ports() finds
  ports,                       \* m_Ports: no entry, or what its object is
  leaked,                      \* open objects that no entry points to
  chosen,                      \* m_ChosenPorts
  mutex,                       \* m_Mutex: its owner and how far that is
  keepRunning, handle,         \* m_KeepRunning, m_Worker (0: not joinable)
  worker, cleanup, visited,    \* threads; cleanup[0] is the destructor
  gui, listed, hand,           \* GUI: ports in the open dropdown, object of ChangeBaudRate
  crashed,
  hasty     \* history: the GUI used the map while another thread may have closed ports

threads    == <<keepRunning, handle, worker, cleanup, visited>>
guiLocals  == <<listed, hand>>
serialVars == <<present, ports, leaked, chosen, mutex, keepRunning, handle, worker,
                cleanup, visited, gui, listed, hand, crashed, hasty>>

NoOne    == -1
Dangling == -1
Free     == [owner |-> NoOne, at |-> "free", todo |-> {}]

SerialInit ==
  /\ present = {} /\ ports = [p \in Ports |-> "none"] /\ leaked = {} /\ chosen = {}
  /\ mutex = Free /\ keepRunning = TRUE /\ handle = 0
  /\ worker = [w \in Workers |-> "unborn"]
  /\ cleanup = [c \in {GUI} \cup Workers |-> "none"]
  /\ visited = [c \in {GUI} \cup Workers |-> 0]
  /\ gui = "idle" /\ listed = {} /\ hand = 0 /\ crashed = FALSE /\ hasty = FALSE

Entries       == {p \in Ports : ports[p] # "none"}
CleanupUnderWay == \E w \in Workers : cleanup[w] \in {"join", "close"}
Alive(w)      == worker[w] \notin {"unborn", "exited"}
Destroyed     == cleanup[GUI] = "done"
Runs          == ~crashed /\ ~Destroyed
\* The button that starts and stops the worker toggles it.
IsSerialWrite == handle # 0

----------------------------------------------------------------------------
(* Critical sections, for whoever holds m_Mutex                             *)

\* Slip: m_Mutex is not waited for.
Lock_NoWait(t, at, todo) == mutex' = [owner |-> t, at |-> at, todo |-> todo]
Lock(t, at, todo) == mutex = Free /\ mutex' = [owner |-> t, at |-> at, todo |-> todo]

\* CleanPorts, first loop: what has appeared is opened, which may fail; what
\* has disappeared is noted.
OpenAppeared ==
  /\ Runs /\ mutex.at = "open"
  /\ \E opened \in SUBSET (mutex.todo \ Entries) :
       /\ ports' = [p \in Ports |-> IF p \in opened THEN "open" ELSE ports[p]]
       /\ mutex' = [mutex EXCEPT !.at = "close", !.todo = (Entries \cup opened) \ @]
  /\ UNCHANGED <<present, leaked, chosen, threads, gui, guiLocals, crashed, hasty>>

\* SendData, ReceiveData: every chosen port with an entry is used; an
\* exception is noted.
UseChosen ==
  /\ Runs /\ mutex.at = "use"
  /\ crashed' = \E p \in chosen : ports[p] = "deleted"
  /\ \E failed \in SUBSET (chosen \cap Entries) :
       mutex' = [mutex EXCEPT !.at = "close", !.todo = failed]
  /\ UNCHANGED <<present, ports, leaked, chosen, threads, gui, guiLocals, hasty>>

\* The object of a port in the GUI's hand may be deleted by others.
HandAfter(deleted) == IF hand \in deleted THEN Dangling ELSE hand

SectionLeft ==
  /\ mutex' = Free
  /\ gui' = IF mutex.owner = GUI THEN "idle" ELSE gui
  /\ worker' = [w \in Workers |->
       IF mutex.owner # w THEN worker[w]
       ELSE IF worker[w] = "inClean" THEN "read" ELSE "test"]

\* Slip: the entry keeps pointing to the object.
ClosePorts_NoErase ==
  /\ Runs /\ mutex.at = "close"
  /\ crashed' = \E p \in mutex.todo : ports[p] = "deleted"
  /\ ports' = [p \in Ports |-> IF p \in mutex.todo \cap Entries THEN "deleted" ELSE ports[p]]
  /\ chosen' = chosen \ (mutex.todo \cap Entries)
  /\ hand' = HandAfter(mutex.todo \cap Entries)
  /\ SectionLeft
  /\ UNCHANGED <<present, leaked, keepRunning, handle, cleanup, visited, listed, hasty>>

\* Slip: only failed ports are closed, not those that have disappeared.
ClosePorts_OnlyFailed ==
  LET closed == IF mutex.owner \in Workers /\ worker[mutex.owner] = "inClean" THEN {}
                 ELSE mutex.todo \cap Entries
  IN  /\ Runs /\ mutex.at = "close"
      /\ crashed' = \E p \in closed : ports[p] = "deleted"
      /\ ports' = [p \in Ports |-> IF p \in closed THEN "none" ELSE ports[p]]
      /\ chosen' = chosen \ closed
      /\ hand' = HandAfter(closed)
      /\ SectionLeft
      /\ UNCHANGED <<present, leaked, keepRunning, handle, cleanup, visited, listed, hasty>>

\* ClosePort for every port noted that still has an entry, and the unlock.
ClosePorts ==
  LET closed == mutex.todo \cap Entries
  IN  /\ Runs /\ mutex.at = "close"
      /\ crashed' = \E p \in closed : ports[p] = "deleted"
      /\ ports' = [p \in Ports |-> IF p \in closed THEN "none" ELSE ports[p]]
      /\ chosen' = chosen \ closed
      /\ hand' = HandAfter(closed)
      /\ SectionLeft
      /\ UNCHANGED <<present, leaked, keepRunning, handle, cleanup, visited, listed, hasty>>

Section(t) == mutex.owner = t /\ (OpenAppeared \/ UseChosen \/ ClosePorts)

----------------------------------------------------------------------------
(* Worker threads                                                           *)

WorkerGoes(w, from, to) ==
  /\ Runs /\ worker[w] = from /\ worker' = [worker EXCEPT ![w] = to]
  /\ UNCHANGED <<present, ports, leaked, chosen, keepRunning, handle, cleanup, visited,
                 gui, guiLocals, crashed, hasty>>

TestKeepRunning(w) ==
  WorkerGoes(w, "test", IF keepRunning THEN "clean" ELSE "exited") /\ UNCHANGED mutex
CleanPorts(w) == WorkerGoes(w, "clean", "inClean") /\ Lock(w, "open", present)
ReadSerialWrite(w) ==
  WorkerGoes(w, "read", IF IsSerialWrite THEN "receive" ELSE "test") /\ UNCHANGED mutex
ReceiveData(w) == WorkerGoes(w, "receive", "inReceive") /\ Lock(w, "use", {})

WorkerStep(w) ==
  TestKeepRunning(w) \/ CleanPorts(w) \/ ReadSerialWrite(w) \/ ReceiveData(w) \/ Section(w)

----------------------------------------------------------------------------
(* Cleanup threads of Stop, and the destructor                              *)

\* Slip: a cleanup does not wait for its worker.
JoinWorker_None(c) ==
  /\ Runs /\ cleanup[c] = "join"
  /\ cleanup' = [cleanup EXCEPT ![c] = "close"]
  /\ handle' = IF c = GUI THEN 0 ELSE handle
  /\ UNCHANGED <<present, ports, leaked, chosen, mutex, keepRunning, worker, visited,
                 gui, guiLocals, crashed, hasty>>

\* A cleanup joins its own worker, the destructor the one m_Worker has.
JoinWorker(c) ==
  /\ Runs /\ cleanup[c] = "join"
  /\ \A w \in Workers : w = (IF c = GUI THEN handle ELSE c) => worker[w] = "exited"
  /\ cleanup' = [cleanup EXCEPT ![c] = "close"]
  /\ handle' = IF c = GUI THEN 0 ELSE handle
  /\ UNCHANGED <<present, ports, leaked, chosen, mutex, keepRunning, worker, visited,
                 gui, guiLocals, crashed, hasty>>

\* CloseAll closes and deletes one object after the other, ...
CloseNext(c) ==
  /\ Runs /\ cleanup[c] = "close"
  /\ \E p \in Entries :
       /\ p > visited[c] /\ \A q \in Entries : q > visited[c] => p <= q
       /\ visited' = [visited EXCEPT ![c] = p]
       /\ crashed' = (ports[p] = "deleted")
       /\ ports' = [ports EXCEPT ![p] = "deleted"]
       /\ hand' = HandAfter({p})
  /\ UNCHANGED <<present, leaked, chosen, mutex, keepRunning, handle, worker, cleanup,
                 gui, listed, hasty>>

\* ... then forgets all entries, those that others have added included.
ClearPorts(c) ==
  /\ Runs /\ cleanup[c] = "close" /\ \A p \in Entries : p <= visited[c]
  /\ leaked' = leaked \cup {p \in Ports : ports[p] = "open"}
  /\ ports' = [p \in Ports |-> "none"] /\ chosen' = {}
  /\ cleanup' = [cleanup EXCEPT ![c] = "done"] /\ visited' = [visited EXCEPT ![c] = 0]
  /\ UNCHANGED <<present, mutex, keepRunning, handle, worker, gui, guiLocals, crashed,
                 hasty>>

CleanupStep(c) == JoinWorker(c) \/ CloseNext(c) \/ ClearPorts(c)

\* The object is gone, a thread that nobody joined goes on using it.
UseAfterDestruction ==
  /\ Destroyed /\ ~crashed
  /\ CleanupUnderWay \/ \E w \in Workers : Alive(w)
  /\ crashed' = TRUE
  /\ UNCHANGED <<present, ports, leaked, chosen, mutex, threads, gui, guiLocals, hasty>>

----------------------------------------------------------------------------
(* GUI thread: the serial page                                              *)

GuiActs ==
  /\ Runs /\ gui = "idle"
  /\ UNCHANGED <<present, ports, leaked, crashed>>

\* "Start Serial": a thread that was told to stop and has not looked goes on.
Start ==
  /\ GuiActs /\ handle = 0
  /\ \E w \in Workers :
       /\ worker[w] = "unborn" /\ \A v \in 1 .. w - 1 : worker[v] # "unborn"
       /\ handle' = w /\ worker' = [worker EXCEPT ![w] = "test"]
  /\ keepRunning' = TRUE
  /\ hasty' = (hasty \/ CleanupUnderWay)
  /\ UNCHANGED <<chosen, mutex, cleanup, visited, gui, guiLocals>>

\* Slip: m_KeepRunning is left as it is.
Stop_KeepRunning ==
  /\ GuiActs /\ handle # 0
  /\ keepRunning' = keepRunning
  /\ cleanup' = [cleanup EXCEPT ![handle] = "join"] /\ handle' = 0
  /\ UNCHANGED <<chosen, mutex, worker, visited, gui, guiLocals, hasty>>

\* "Stop Serial": the worker moves to a detached thread that joins it.
Stop ==
  /\ GuiActs /\ handle # 0
  /\ keepRunning' = FALSE
  /\ cleanup' = [cleanup EXCEPT ![handle] = "join"] /\ handle' = 0
  /\ UNCHANGED <<chosen, mutex, worker, visited, gui, guiLocals, hasty>>

\* A typed command, or a frame with "Send Data" on.
PressSend ==
  /\ GuiActs /\ gui' = "send"
  /\ hasty' = (hasty \/ CleanupUnderWay)
  /\ UNCHANGED <<chosen, mutex, threads, guiLocals>>
SendData ==
  /\ Runs /\ gui = "send" /\ gui' = "inSend" /\ Lock(GUI, "use", {})
  /\ UNCHANGED <<present, ports, leaked, chosen, threads, guiLocals, crashed, hasty>>

\* The dropdown shows a copy of the map, made without the mutex and taken as one
\* step; what is clicked may be closed by now.
ExportPorts ==
  /\ GuiActs /\ gui' = "dropdown" /\ listed' = Entries
  /\ UNCHANGED <<chosen, mutex, threads, hand, hasty>>
SelectPort ==
  /\ Runs /\ gui = "dropdown" /\ gui' = "idle" /\ listed' = {}
  /\ \/ UNCHANGED chosen
     \/ \E p \in listed : chosen' = IF p \in chosen THEN chosen \ {p} ELSE chosen \cup {p}
  /\ UNCHANGED <<present, ports, leaked, mutex, threads, hand, crashed, hasty>>

\* ChangeBaudRate takes an object from the map, then calls it.
ChangeBaudRate ==
  /\ GuiActs /\ gui' = "baud" /\ hand' \in Entries
  /\ hasty' = (hasty \/ CleanupUnderWay \/ \E w \in Workers : Alive(w))
  /\ UNCHANGED <<chosen, mutex, threads, listed>>
SetBaudrate ==
  /\ Runs /\ gui = "baud" /\ gui' = "idle" /\ hand' = 0
  /\ crashed' = (hand = Dangling \/ ports[hand] = "deleted")
  /\ UNCHANGED <<present, ports, leaked, chosen, mutex, threads, listed, hasty>>

\* ~SerialManager at the end of the program.
Exit ==
  /\ GuiActs /\ gui' = "exit"
  /\ keepRunning' = FALSE /\ cleanup' = [cleanup EXCEPT ![GUI] = "join"]
  /\ hasty' = (hasty \/ CleanupUnderWay)
  /\ UNCHANGED <<chosen, mutex, handle, worker, visited, guiLocals>>

GuiProceeds == SendData \/ Section(GUI) \/ SelectPort \/ SetBaudrate \/ CleanupStep(GUI)
UserActs    == Start \/ Stop \/ PressSend \/ ExportPorts \/ ChangeBaudRate \/ Exit

\* Devices come and go; a port that failed may still be listed.
PlugOrUnplug ==
  /\ Runs
  /\ \E p \in Ports : present' = IF p \in present THEN present \ {p} ELSE present \cup {p}
  /\ UNCHANGED <<ports, leaked, chosen, mutex, threads, gui, guiLocals, crashed, hasty>>

Over == ~Runs /\ UNCHANGED serialVars

SerialNext ==
  \/ GuiProceeds \/ UserActs \/ PlugOrUnplug \/ UseAfterDestruction \/ Over
  \/ \E w \in Workers : WorkerStep(w) \/ CleanupStep(w)

\* Threads run, and one that keeps asking for m_Mutex gets it: whoever holds
\* it gives it back, and the worker sleeps without it in every round.
SerialFairness ==
  /\ SF_serialVars(GuiProceeds)
  /\ \A w \in Workers : SF_serialVars(WorkerStep(w)) /\ WF_serialVars(CleanupStep(w))

SerialSpec == SerialInit /\ [][SerialNext]_serialVars /\ SerialFairness

----------------------------------------------------------------------------
(* Properties                                                               *)

\* Type invariant; a thread is in a critical section when it owns m_Mutex.
SerialTypeOK ==
  /\ present \subseteq Ports /\ leaked \subseteq Ports /\ chosen \subseteq Ports
  /\ ports \in [Ports -> {"none", "open", "deleted"}]
  /\ mutex = Free \/ mutex \in [owner : {GUI} \cup Workers, at : {"open", "use", "close"},
                                todo : SUBSET Ports]
  /\ keepRunning \in BOOLEAN /\ handle \in {0} \cup Workers
  /\ worker \in [Workers -> {"unborn", "test", "clean", "inClean", "read", "receive",
                             "inReceive", "exited"}]
  /\ \A w \in Workers : worker[w] \in {"inClean", "inReceive"} <=> mutex.owner = w
  /\ gui \in {"idle", "send", "inSend", "dropdown", "baud", "exit"}
  /\ gui = "inSend" <=> mutex.owner = GUI
  /\ cleanup \in [{GUI} \cup Workers -> {"none", "join", "close", "done"}]
  /\ visited \in [{GUI} \cup Workers -> {0} \cup Ports]
  /\ listed \subseteq Ports /\ hand \in {0, Dangling} \cup Ports
  /\ crashed \in BOOLEAN /\ hasty \in BOOLEAN

\* The unlocked CloseAll is safe for a user who waits: as long as nothing is
\* started, sent or ended while a stopped worker is being cleaned up, and the
\* baud rate changed only when no worker lives, no deleted port is used, none
\* is lost open, and only a CloseAll at work leaves entries of deleted ones.
PatienceIsSafe ==
  ~hasty => /\ ~crashed /\ leaked = {}
            /\ (\A c \in DOMAIN cleanup : cleanup[c] # "close")
               => \A p \in Ports : ports[p] # "deleted"

\* A port is never left open without a closer, not even by a user who does not
\* wait: the manager runs, and a Stop is still to come, or the thread of an
\* earlier Stop or the destructor has not cleared the map yet.
NoneAbandoned ==
  Entries # {} =>
    handle # 0 \/ \E c \in {GUI} \cup Workers : cleanup[c] \in {"join", "close"}

\* A worker that is stopped for good ends, revived ones and their cleanups
\* too, and in the end no port is open.
StopsForGood ==
  <>[](handle = 0) =>
    <>[](\/ crashed \/ Destroyed
         \/ /\ \A w \in Workers : ~Alive(w)
            /\ ~CleanupUnderWay /\ Entries = {})

\* While the manager runs, a port whose device is gone for good is closed.
UnpluggedCloses ==
  \A p \in Ports :
    <>[](handle # 0 /\ p \notin present) => <>[](crashed \/ ports[p] = "none")
=============================================================================
