------------------------ MODULE SerialManager_proofs ------------------------
(***************************************************************************)
(* Proofs about SerialManager, for any ports and any number of starts: the *)
(* types of its variables, and that CloseAll, which takes no lock, does no *)
(* harm to a user who waits for it.                                        *)
(***************************************************************************)
EXTENDS SerialManager, TLAPS

\* Every worker that lives has somebody to join it, and nobody is told to join
\* one that was never started.
ThreadInv ==
  /\ gui = "exit" <=> cleanup[GUI] # "none"
  /\ cleanup[GUI] \in {"close", "done"} => handle = 0
  /\ handle # 0 => worker[handle] # "unborn" /\ cleanup[handle] = "none"
  /\ \A w \in Workers :
       /\ cleanup[w] # "none" => worker[w] # "unborn"
       /\ cleanup[w] \in {"close", "done"} => worker[w] = "exited"
       /\ Alive(w) => handle = w \/ cleanup[w] = "join"

\* A patient user waits for a cleanup, so that there is one at a time and
\* nothing else uses the ports, ...
UnderWay(w) == cleanup[w] \in {"join", "close"}
WaitInv ==
  /\ \A w \in Workers : UnderWay(w) => handle = 0 /\ gui \in {"idle", "dropdown"}
  /\ \A v, w \in Workers : UnderWay(v) /\ UnderWay(w) => v = w
  /\ gui = "baud" => hand \in Ports /\ ports[hand] = "open" /\ \A w \in Workers : ~Alive(w)

\* ... and the walk of CloseAll divides the ports into those it has deleted and
\* those that are open.
WalkInv ==
  /\ \A c \in {GUI} \cup Workers :
       IF cleanup[c] = "close"
       THEN \A p \in Ports : /\ ports[p] = "deleted" => p <= visited[c]
                             /\ ports[p] = "open" => p > visited[c]
       ELSE visited[c] = 0
  /\ (\A c \in {GUI} \cup Workers : cleanup[c] # "close")
       => \A p \in Ports : ports[p] # "deleted"
  /\ ~crashed /\ leaked = {}

Safe == ~hasty => WaitInv /\ WalkInv

IInv == SerialTypeOK /\ ThreadInv /\ Safe

\* The Boolean half of the type invariant, and the rest of it.
FlagsOK == keepRunning \in BOOLEAN /\ crashed \in BOOLEAN /\ hasty \in BOOLEAN
DataOK ==
  /\ present \subseteq Ports /\ leaked \subseteq Ports /\ chosen \subseteq Ports
  /\ ports \in [Ports -> {"none", "open", "deleted"}]
  /\ mutex = Free \/ mutex \in [owner : {GUI} \cup Workers, at : {"open", "use", "close"},
                                todo : SUBSET Ports]
  /\ handle \in {0} \cup Workers
  /\ worker \in [Workers -> {"unborn", "test", "clean", "inClean", "read", "receive",
                             "inReceive", "exited"}]
  /\ \A w \in Workers : worker[w] \in {"inClean", "inReceive"} <=> mutex.owner = w
  /\ gui \in {"idle", "send", "inSend", "dropdown", "baud", "exit"}
  /\ gui = "inSend" <=> mutex.owner = GUI
  /\ cleanup \in [{GUI} \cup Workers -> {"none", "join", "close", "done"}]
  /\ visited \in [{GUI} \cup Workers -> {0} \cup Ports]
  /\ listed \subseteq Ports /\ hand \in {0, Dangling} \cup Ports

\* The two halves make the type invariant.
LEMMA TypeSplit == SerialTypeOK <=> FlagsOK /\ DataOK
  BY DEF SerialTypeOK, FlagsOK, DataOK

\* And so after a step.
LEMMA TypePrime == (FlagsOK /\ DataOK)' => SerialTypeOK'
  BY DEF SerialTypeOK, FlagsOK, DataOK

\* Worker threads are numbered from 1, after the GUI thread.
LEMMA Threads == Workers \subseteq Nat \ {0} /\ GUI \notin Workers /\ NoOne \notin {GUI} \cup Workers
  BY SerialAssumption DEF Workers, GUI, NoOne

\* A critical section is under way in one thread, at one place.
LEMMA InSection ==
  ASSUME DataOK, mutex.at \in {"open", "use", "close"}
  PROVE  /\ mutex \in [owner : {GUI} \cup Workers, at : {"open", "use", "close"},
                       todo : SUBSET Ports]
         /\ \/ mutex.owner = GUI /\ gui = "inSend"
            \/ mutex.owner \in Workers /\ worker[mutex.owner] \in {"inClean", "inReceive"}
  BY DEF DataOK, Free

\* What a step is: who does what.
LEMMA StepCases ==
  ASSUME [SerialNext]_serialVars
  PROVE  \/ SendData \/ SelectPort \/ SetBaudrate \/ OpenAppeared \/ UseChosen \/ ClosePorts
         \/ Start \/ Stop \/ PressSend \/ ExportPorts \/ ChangeBaudRate \/ Exit
         \/ PlugOrUnplug \/ UseAfterDestruction \/ UNCHANGED serialVars
         \/ \E w \in Workers : \/ TestKeepRunning(w) \/ CleanPorts(w) \/ ReadSerialWrite(w)
                               \/ ReceiveData(w)
         \/ \E c \in {GUI} \cup Workers : JoinWorker(c) \/ CloseNext(c) \/ ClearPorts(c)
  BY DEF SerialNext, GuiProceeds, UserActs, WorkerStep, CleanupStep, Section, Over

\* Every step keeps the flags Boolean.
LEMMA FlagStep == FlagsOK /\ [SerialNext]_serialVars => FlagsOK'
<1> SUFFICES ASSUME FlagsOK, [SerialNext]_serialVars PROVE FlagsOK'
  OBVIOUS
<1> USE DEF FlagsOK, threads, guiLocals
<1>1. CASE SendData
  BY <1>1 DEF SendData, Lock
<1>2. CASE SelectPort
  BY <1>2 DEF SelectPort
<1>3. CASE SetBaudrate
  BY <1>3 DEF SetBaudrate
<1>4. CASE OpenAppeared
  BY <1>4 DEF OpenAppeared
<1>5. CASE UseChosen
  BY <1>5 DEF UseChosen
<1>6. CASE ClosePorts
  BY <1>6 DEF ClosePorts, SectionLeft, HandAfter
<1>7. CASE Start
  BY <1>7 DEF Start, GuiActs
<1>8. CASE Stop
  BY <1>8 DEF Stop, GuiActs
<1>9. CASE PressSend
  BY <1>9 DEF PressSend, GuiActs
<1>10. CASE ExportPorts
  BY <1>10 DEF ExportPorts, GuiActs
<1>11. CASE ChangeBaudRate
  BY <1>11 DEF ChangeBaudRate, GuiActs
<1>12. CASE Exit
  BY <1>12 DEF Exit, GuiActs
<1>13. CASE PlugOrUnplug
  BY <1>13 DEF PlugOrUnplug
<1>14. CASE UseAfterDestruction
  BY <1>14 DEF UseAfterDestruction
<1>15. CASE UNCHANGED serialVars
  BY <1>15 DEF serialVars
<1>16. ASSUME NEW w \in Workers, TestKeepRunning(w) PROVE FlagsOK'
  BY <1>16 DEF TestKeepRunning, WorkerGoes
<1>17. ASSUME NEW w \in Workers, CleanPorts(w) PROVE FlagsOK'
  BY <1>17 DEF CleanPorts, WorkerGoes, Lock
<1>18. ASSUME NEW w \in Workers, ReadSerialWrite(w) PROVE FlagsOK'
  BY <1>18 DEF ReadSerialWrite, WorkerGoes
<1>19. ASSUME NEW w \in Workers, ReceiveData(w) PROVE FlagsOK'
  BY <1>19 DEF ReceiveData, WorkerGoes, Lock
<1>20. ASSUME NEW c \in {GUI} \cup Workers, JoinWorker(c) PROVE FlagsOK'
  BY <1>20 DEF JoinWorker
<1>21. ASSUME NEW c \in {GUI} \cup Workers, CloseNext(c) PROVE FlagsOK'
  BY <1>21 DEF CloseNext, HandAfter
<1>22. ASSUME NEW c \in {GUI} \cup Workers, ClearPorts(c) PROVE FlagsOK'
  BY <1>22 DEF ClearPorts
<1> QED
  BY StepCases,
     <1>1, <1>2, <1>3, <1>4, <1>5, <1>6, <1>7, <1>8, <1>9, <1>10, <1>11,
     <1>12, <1>13, <1>14, <1>15, <1>16, <1>17, <1>18, <1>19, <1>20, <1>21, <1>22

\* Every step keeps the other types.
LEMMA DataStep == DataOK /\ [SerialNext]_serialVars => DataOK'
<1> SUFFICES ASSUME DataOK, [SerialNext]_serialVars PROVE DataOK'
  OBVIOUS
<1> USE Threads, SerialAssumption DEF DataOK, threads, guiLocals, Entries, Free
<1>1. CASE SendData
  BY <1>1 DEF SendData, Lock
<1>2. CASE SelectPort
  BY <1>2 DEF SelectPort
<1>3. CASE SetBaudrate
  BY <1>3 DEF SetBaudrate
<1>4. CASE OpenAppeared
  <2>1. mutex \in [owner : {GUI} \cup Workers, at : {"open", "use", "close"}, todo : SUBSET Ports]
    BY <1>4, InSection DEF OpenAppeared
  <2>2. PICK opened \in SUBSET (mutex.todo \ Entries) :
           /\ ports' = [p \in Ports |-> IF p \in opened THEN "open" ELSE ports[p]]
           /\ mutex' = [mutex EXCEPT !.at = "close", !.todo = (Entries \cup opened) \ @]
    BY <1>4 DEF OpenAppeared
  <2>3. /\ ports' \in [Ports -> {"none", "open", "deleted"}]
        /\ mutex' \in [owner : {GUI} \cup Workers, at : {"open", "use", "close"}, todo : SUBSET Ports]
        /\ mutex'.owner = mutex.owner
    BY <2>1, <2>2
  <2>4. UNCHANGED <<present, leaked, chosen, handle, worker, cleanup, visited, gui, listed, hand>>
    BY <1>4 DEF OpenAppeared
  <2> QED
    BY <2>3, <2>4
<1>5. CASE UseChosen
  <2>1. mutex \in [owner : {GUI} \cup Workers, at : {"open", "use", "close"}, todo : SUBSET Ports]
    BY <1>5, InSection DEF UseChosen
  <2>2. PICK failed \in SUBSET (chosen \cap Entries) :
           mutex' = [mutex EXCEPT !.at = "close", !.todo = failed]
    BY <1>5 DEF UseChosen
  <2>3. /\ mutex' \in [owner : {GUI} \cup Workers, at : {"open", "use", "close"}, todo : SUBSET Ports]
        /\ mutex'.owner = mutex.owner
    BY <2>1, <2>2
  <2>4. UNCHANGED <<present, ports, leaked, chosen, handle, worker, cleanup, visited, gui, listed, hand>>
    BY <1>5 DEF UseChosen
  <2> QED
    BY <2>3, <2>4
<1>6. CASE ClosePorts
  BY <1>6 DEF ClosePorts, SectionLeft, HandAfter
<1>7. CASE Start
  BY <1>7 DEF Start, GuiActs
<1>8. CASE Stop
  BY <1>8 DEF Stop, GuiActs
<1>9. CASE PressSend
  BY <1>9 DEF PressSend, GuiActs
<1>10. CASE ExportPorts
  BY <1>10 DEF ExportPorts, GuiActs
<1>11. CASE ChangeBaudRate
  BY <1>11 DEF ChangeBaudRate, GuiActs
<1>12. CASE Exit
  BY <1>12 DEF Exit, GuiActs
<1>13. CASE PlugOrUnplug
  BY <1>13 DEF PlugOrUnplug
<1>14. CASE UseAfterDestruction
  BY <1>14 DEF UseAfterDestruction
<1>15. CASE UNCHANGED serialVars
  BY <1>15 DEF serialVars
<1>16. ASSUME NEW w \in Workers, TestKeepRunning(w) PROVE DataOK'
  BY <1>16 DEF TestKeepRunning, WorkerGoes
<1>17. ASSUME NEW w \in Workers, CleanPorts(w) PROVE DataOK'
  BY <1>17 DEF CleanPorts, WorkerGoes, Lock
<1>18. ASSUME NEW w \in Workers, ReadSerialWrite(w) PROVE DataOK'
  BY <1>18 DEF ReadSerialWrite, WorkerGoes
<1>19. ASSUME NEW w \in Workers, ReceiveData(w) PROVE DataOK'
  BY <1>19 DEF ReceiveData, WorkerGoes, Lock
<1>20. ASSUME NEW c \in {GUI} \cup Workers, JoinWorker(c) PROVE DataOK'
  <2>1. /\ cleanup' = [cleanup EXCEPT ![c] = "close"] /\ handle' \in {0, handle}
        /\ UNCHANGED <<present, ports, leaked, chosen, mutex, worker, visited, gui, listed, hand>>
    BY <1>20 DEF JoinWorker
  <2>2. cleanup' \in [{GUI} \cup Workers -> {"none", "join", "close", "done"}]
    BY <2>1
  <2> QED
    BY <2>1, <2>2
<1>21. ASSUME NEW c \in {GUI} \cup Workers, CloseNext(c) PROVE DataOK'
  <2>1. PICK p \in Ports : /\ visited' = [visited EXCEPT ![c] = p]
                         /\ ports' = [ports EXCEPT ![p] = "deleted"]
                         /\ hand' = HandAfter({p})
    BY <1>21 DEF CloseNext
  <2>2. /\ visited' \in [{GUI} \cup Workers -> {0} \cup Ports]
        /\ ports' \in [Ports -> {"none", "open", "deleted"}]
        /\ hand' \in {0, Dangling} \cup Ports
    BY <2>1 DEF HandAfter
  <2>3. UNCHANGED <<present, leaked, chosen, mutex, handle, worker, cleanup, gui, listed>>
    BY <1>21 DEF CloseNext
  <2> QED
    BY <2>2, <2>3
<1>22. ASSUME NEW c \in {GUI} \cup Workers, ClearPorts(c) PROVE DataOK'
  BY <1>22 DEF ClearPorts
<1> QED
  BY StepCases,
     <1>1, <1>2, <1>3, <1>4, <1>5, <1>6, <1>7, <1>8, <1>9, <1>10, <1>11,
     <1>12, <1>13, <1>14, <1>15, <1>16, <1>17, <1>18, <1>19, <1>20, <1>21, <1>22

\* Threads are started, stopped and joined in order, hasty user or not.
LEMMA ThreadStep == DataOK /\ ThreadInv /\ [SerialNext]_serialVars => ThreadInv'
<1> SUFFICES ASSUME DataOK, ThreadInv, [SerialNext]_serialVars PROVE ThreadInv'
  OBVIOUS
<1> USE Threads DEF DataOK, ThreadInv, Alive, threads, guiLocals
<1>1. CASE SendData
  BY <1>1 DEF SendData, Lock
<1>2. CASE SelectPort
  BY <1>2 DEF SelectPort
<1>3. CASE SetBaudrate
  BY <1>3 DEF SetBaudrate
<1>4. CASE OpenAppeared
  BY <1>4 DEF OpenAppeared
<1>5. CASE UseChosen
  BY <1>5 DEF UseChosen
<1>6. CASE ClosePorts
  BY <1>6 DEF ClosePorts, SectionLeft, HandAfter
<1>7. CASE Start
  BY <1>7 DEF Start, GuiActs
<1>8. CASE Stop
  BY <1>8 DEF Stop, GuiActs
<1>9. CASE PressSend
  BY <1>9 DEF PressSend, GuiActs
<1>10. CASE ExportPorts
  BY <1>10 DEF ExportPorts, GuiActs
<1>11. CASE ChangeBaudRate
  BY <1>11 DEF ChangeBaudRate, GuiActs
<1>12. CASE Exit
  BY <1>12 DEF Exit, GuiActs
<1>13. CASE PlugOrUnplug
  BY <1>13 DEF PlugOrUnplug
<1>14. CASE UseAfterDestruction
  BY <1>14 DEF UseAfterDestruction
<1>15. CASE UNCHANGED serialVars
  BY <1>15 DEF serialVars
<1>16. ASSUME NEW w \in Workers, TestKeepRunning(w) PROVE ThreadInv'
  BY <1>16 DEF TestKeepRunning, WorkerGoes
<1>17. ASSUME NEW w \in Workers, CleanPorts(w) PROVE ThreadInv'
  BY <1>17 DEF CleanPorts, WorkerGoes, Lock
<1>18. ASSUME NEW w \in Workers, ReadSerialWrite(w) PROVE ThreadInv'
  BY <1>18 DEF ReadSerialWrite, WorkerGoes
<1>19. ASSUME NEW w \in Workers, ReceiveData(w) PROVE ThreadInv'
  BY <1>19 DEF ReceiveData, WorkerGoes, Lock
<1>20. ASSUME NEW c \in {GUI} \cup Workers, JoinWorker(c) PROVE ThreadInv'
  BY <1>20 DEF JoinWorker
<1>21. ASSUME NEW c \in {GUI} \cup Workers, CloseNext(c) PROVE ThreadInv'
  BY <1>21 DEF CloseNext, HandAfter
<1>22. ASSUME NEW c \in {GUI} \cup Workers, ClearPorts(c) PROVE ThreadInv'
  BY <1>22 DEF ClearPorts
<1> QED
  BY StepCases,
     <1>1, <1>2, <1>3, <1>4, <1>5, <1>6, <1>7, <1>8, <1>9, <1>10, <1>11,
     <1>12, <1>13, <1>14, <1>15, <1>16, <1>17, <1>18, <1>19, <1>20, <1>21, <1>22

\* While CloseAll walks, for a patient user, no worker lives, m_Mutex is free
\* and there is no other walk.
LEMMA Alone ==
  ASSUME DataOK, ThreadInv, WaitInv, NEW c \in {GUI} \cup Workers, cleanup[c] = "close"
  PROVE  /\ \A w \in Workers : ~Alive(w)
         /\ mutex = Free /\ gui \in {"idle", "dropdown", "exit"} /\ handle = 0
         /\ \A d \in {GUI} \cup Workers : cleanup[d] \in {"join", "close"} => d = c
<1>1. handle = 0 /\ gui \in {"idle", "dropdown", "exit"}
  BY DEF ThreadInv, WaitInv, UnderWay
<1>2. \A d \in {GUI} \cup Workers : cleanup[d] \in {"join", "close"} => d = c
  BY Threads DEF ThreadInv, WaitInv, UnderWay
<1>3. \A w \in Workers : ~Alive(w)
  BY <1>1, <1>2, Threads DEF ThreadInv, WaitInv, UnderWay, Alive
<1>4. mutex = Free
  BY <1>1, <1>3 DEF DataOK, Alive
<1> QED
  BY <1>1, <1>2, <1>3, <1>4

\* Whoever holds m_Mutex finds no deleted port.
LEMMA NoneDeleted ==
  ASSUME DataOK, ThreadInv, WaitInv, WalkInv, mutex # Free
  PROVE  /\ \A c \in {GUI} \cup Workers : cleanup[c] # "close"
         /\ \A p \in Ports : ports[p] # "deleted"
  BY Alone DEF WalkInv

\* Ports, and how far a walk has come, are compared as numbers.
LEMMA PortNumbers ==
  ASSUME DataOK
  PROVE  Ports \subseteq Nat /\ \A c \in {GUI} \cup Workers : visited[c] \in Nat
<1>1. Ports \subseteq Nat /\ {0} \cup Ports \subseteq Nat
  BY SerialAssumption
<1>2. \A c \in {GUI} \cup Workers : visited[c] \in {0} \cup Ports
  BY DEF DataOK
<1> QED
  BY <1>1, <1>2

\* A step of a patient user, or of any thread, keeps the ports safe.
LEMMA SafeStep == DataOK /\ ThreadInv /\ Safe /\ [SerialNext]_serialVars => Safe'
<1> SUFFICES ASSUME DataOK, ThreadInv, Safe, [SerialNext]_serialVars PROVE Safe'
  OBVIOUS
<1> USE Threads DEF DataOK, ThreadInv, Safe, WaitInv, WalkInv, UnderWay, CleanupUnderWay, Alive, threads, guiLocals
<1>1. CASE SendData
  BY <1>1 DEF SendData, Lock
<1>2. CASE SelectPort
  BY <1>2 DEF SelectPort
<1>3. CASE SetBaudrate
  <2>1. /\ gui = "baud" /\ gui' = "idle" /\ crashed' = (hand = Dangling \/ ports[hand] = "deleted")
        /\ UNCHANGED <<hasty, ports, leaked, handle, cleanup, worker, visited>>
    BY <1>3 DEF SetBaudrate
  <2> SUFFICES ASSUME ~hasty PROVE WaitInv' /\ WalkInv'
    BY <2>1
  <2>2. hand # Dangling /\ ports[hand] = "open"
    BY <2>1, SerialAssumption DEF Dangling
  <2>3. ~crashed'
    BY <2>1, <2>2
  <2> QED
    BY <2>1, <2>3
<1>4. CASE OpenAppeared
  <2>1. PICK opened \in SUBSET (mutex.todo \ Entries) :
           ports' = [p \in Ports |-> IF p \in opened THEN "open" ELSE ports[p]]
    BY <1>4 DEF OpenAppeared
  <2>2. /\ mutex.at = "open"
        /\ UNCHANGED <<hasty, crashed, leaked, handle, cleanup, worker, visited, gui, hand>>
    BY <1>4 DEF OpenAppeared
  <2> SUFFICES ASSUME ~hasty PROVE WaitInv' /\ WalkInv'
    BY <2>2
  <2>3. /\ \A c \in {GUI} \cup Workers : cleanup[c] # "close"
        /\ \A p \in Ports : ports[p] # "deleted"
    BY <2>2, NoneDeleted DEF Free
  <2>4. \A p \in Ports : ports'[p] # "deleted" /\ (ports[p] = "open" => ports'[p] = "open")
    BY <2>1, <2>3
  <2>5. WaitInv'
    BY <2>2, <2>4
  <2>6. WalkInv'
    BY <2>2, <2>3, <2>4
  <2> QED
    BY <2>5, <2>6
<1>5. CASE UseChosen
  <2>1. /\ mutex.at = "use" /\ crashed' = \E p \in chosen : ports[p] = "deleted"
        /\ UNCHANGED <<hasty, ports, leaked, handle, cleanup, worker, visited, gui, hand>>
    BY <1>5 DEF UseChosen
  <2> SUFFICES ASSUME ~hasty PROVE WaitInv' /\ WalkInv'
    BY <2>1
  <2>2. /\ \A c \in {GUI} \cup Workers : cleanup[c] # "close"
        /\ \A p \in Ports : ports[p] # "deleted"
    BY <2>1, NoneDeleted DEF Free
  <2>3. ~crashed'
    BY <2>1, <2>2
  <2> QED
    BY <2>1, <2>2, <2>3
<1>6. CASE ClosePorts
  <2> DEFINE closed == mutex.todo \cap Entries
  <2>1. /\ mutex.at = "close" /\ crashed' = \E p \in closed : ports[p] = "deleted"
        /\ ports' = [p \in Ports |-> IF p \in closed THEN "none" ELSE ports[p]]
        /\ SectionLeft
        /\ UNCHANGED <<hasty, leaked, handle, cleanup, visited>>
    BY <1>6 DEF ClosePorts
  <2>2. closed \subseteq Ports
    BY DEF Entries
  <2> HIDE DEF closed
  <2> SUFFICES ASSUME ~hasty PROVE WaitInv' /\ WalkInv'
    BY <2>1
  <2>3. /\ \A c \in {GUI} \cup Workers : cleanup[c] # "close"
        /\ \A p \in Ports : ports[p] # "deleted"
    BY <2>1, NoneDeleted DEF Free
  <2>4. ~crashed'
    BY <2>1, <2>2, <2>3
  <2>5. \A p \in Ports : ports'[p] # "deleted"
    BY <2>1, <2>3
  <2>6. gui # "baud" /\ gui' \in {gui, "idle"}
    BY <2>1, InSection DEF SectionLeft
  <2>7. WaitInv'
    BY <2>1, <2>6
  <2>8. WalkInv'
    BY <2>1, <2>3, <2>4, <2>5
  <2> QED
    BY <2>7, <2>8
<1>7. CASE Start
  BY <1>7 DEF Start, GuiActs
<1>8. CASE Stop
  BY <1>8 DEF Stop, GuiActs
<1>9. CASE PressSend
  BY <1>9 DEF PressSend, GuiActs
<1>10. CASE ExportPorts
  BY <1>10 DEF ExportPorts, GuiActs
<1>11. CASE ChangeBaudRate
  <2>1. /\ gui = "idle" /\ gui' = "baud" /\ hand' \in Entries
        /\ hasty' = (hasty \/ CleanupUnderWay \/ \E w \in Workers : Alive(w))
        /\ UNCHANGED <<crashed, ports, leaked, handle, cleanup, worker, visited>>
    BY <1>11 DEF ChangeBaudRate, GuiActs
  <2> SUFFICES ASSUME ~hasty' PROVE WaitInv' /\ WalkInv'
    OBVIOUS
  <2>2. ~hasty /\ ~CleanupUnderWay /\ ~\E w \in Workers : Alive(w)
    BY <2>1
  <2>3. \A c \in {GUI} \cup Workers : cleanup[c] # "close"
    BY <2>1, <2>2
  <2>4. hand' \in Ports /\ ports[hand'] = "open"
    BY <2>1, <2>2, <2>3 DEF Entries
  <2> QED
    BY <2>1, <2>2, <2>4
<1>12. CASE Exit
  BY <1>12 DEF Exit, GuiActs
<1>13. CASE PlugOrUnplug
  BY <1>13 DEF PlugOrUnplug
<1>14. CASE UseAfterDestruction
  <2>1. /\ cleanup[GUI] = "done" /\ UNCHANGED hasty
        /\ \/ CleanupUnderWay
           \/ \E w \in Workers : Alive(w)
    BY <1>14 DEF UseAfterDestruction, Destroyed
  <2> SUFFICES ASSUME ~hasty PROVE FALSE
    BY <2>1
  <2>2. handle = 0 /\ gui = "exit"
    BY <2>1
  <2>3. \A w \in Workers : ~UnderWay(w)
    BY <2>2
  <2> QED
    BY <2>1, <2>2, <2>3
<1>15. CASE UNCHANGED serialVars
  BY <1>15 DEF serialVars
<1>16. ASSUME NEW w \in Workers, TestKeepRunning(w) PROVE Safe'
  BY <1>16 DEF TestKeepRunning, WorkerGoes
<1>17. ASSUME NEW w \in Workers, CleanPorts(w) PROVE Safe'
  BY <1>17 DEF CleanPorts, WorkerGoes, Lock
<1>18. ASSUME NEW w \in Workers, ReadSerialWrite(w) PROVE Safe'
  BY <1>18 DEF ReadSerialWrite, WorkerGoes
<1>19. ASSUME NEW w \in Workers, ReceiveData(w) PROVE Safe'
  BY <1>19 DEF ReceiveData, WorkerGoes, Lock
<1>20. ASSUME NEW c \in {GUI} \cup Workers, JoinWorker(c) PROVE Safe'
  <2>1. /\ cleanup[c] = "join" /\ cleanup' = [cleanup EXCEPT ![c] = "close"]
        /\ handle' = (IF c = GUI THEN 0 ELSE handle)
        /\ UNCHANGED <<hasty, crashed, ports, leaked, worker, visited, gui, hand>>
    BY <1>20 DEF JoinWorker
  <2> SUFFICES ASSUME ~hasty PROVE WaitInv' /\ WalkInv'
    BY <2>1
  <2>2. \A d \in {GUI} \cup Workers : cleanup[d] # "close"
    BY <2>1, Alone
  <2>3. visited[c] = 0 /\ \A p \in Ports : ports[p] # "deleted" /\ p > 0
    BY <2>1, <2>2, SerialAssumption
  <2>4. \A d \in {GUI} \cup Workers : cleanup'[d] = IF d = c THEN "close" ELSE cleanup[d]
    BY <2>1
  <2>5. \A w \in Workers : UnderWay(w)' <=> UnderWay(w)
    BY <2>1, <2>4
  <2>6. WaitInv'
    <3>1. \A w \in Workers : UnderWay(w) => handle' = 0 /\ gui \in {"idle", "dropdown"}
      BY <2>1
    <3> QED
      BY <2>1, <2>5, <3>1
  <2>7. WalkInv'
    BY <2>1, <2>2, <2>3, <2>4
  <2> QED
    BY <2>6, <2>7
<1>21. ASSUME NEW c \in {GUI} \cup Workers, CloseNext(c) PROVE Safe'
  <2>1. PICK p \in Entries : /\ p > visited[c] /\ \A q \in Entries : q > visited[c] => p <= q
                             /\ visited' = [visited EXCEPT ![c] = p]
                             /\ crashed' = (ports[p] = "deleted")
                             /\ ports' = [ports EXCEPT ![p] = "deleted"]
    BY <1>21 DEF CloseNext
  <2>2. cleanup[c] = "close" /\ UNCHANGED <<hasty, leaked, handle, cleanup, worker, gui>>
    BY <1>21 DEF CloseNext
  <2> SUFFICES ASSUME ~hasty PROVE WaitInv' /\ WalkInv'
    BY <2>2
  <2>3. /\ gui \in {"idle", "dropdown", "exit"}
        /\ \A d \in {GUI} \cup Workers : cleanup[d] = "close" => d = c
    BY <2>2, Alone
  <2>4. WaitInv'
    BY <2>2, <2>3
  <2>5. p \in Ports /\ ports[p] # "none" /\ Ports \subseteq Nat /\ visited[c] \in Nat
    <3>1. visited[c] \in Nat /\ Ports \subseteq Nat
      BY PortNumbers
    <3>2. p \in Ports /\ ports[p] # "none"
      BY DEF Entries
    <3> QED
      BY ONLY <3>1, <3>2
  <2>6. ~crashed'
    <3>1. ports[p] = "deleted" => p <= visited[c]
      BY <2>2, <2>5
    <3>2. ports[p] # "deleted"
      BY ONLY <2>1, <2>5, <3>1
    <3> QED
      BY <2>1, <3>2
  <2>7. \A d \in {GUI} \cup Workers : visited'[d] = IF d = c THEN p ELSE visited[d]
    BY <2>1
  <2>8. ASSUME NEW q \in Ports
        PROVE  (ports'[q] = "deleted" => q <= p) /\ (ports'[q] = "open" => q > p)
    <3>1. /\ ports[q] = "deleted" => q <= visited[c]
          /\ ports[q] = "open" => q > visited[c]
      BY <2>2
    <3>2. q = p => ports'[q] = "deleted"
      BY <2>1, <2>5
    <3>3. q # p => ports'[q] = ports[q]
      BY <2>1, <2>5
    <3>4. ports[q] = "open" => p <= q
      BY <2>1, <3>1 DEF Entries
    <3> QED
      BY <2>1, <2>5, <3>1, <3>2, <3>3, <3>4
  <2>9. WalkInv'
    BY <2>2, <2>3, <2>6, <2>7, <2>8
  <2> QED
    BY <2>4, <2>9
<1>22. ASSUME NEW c \in {GUI} \cup Workers, ClearPorts(c) PROVE Safe'
  <2>1. /\ cleanup[c] = "close" /\ \A p \in Entries : p <= visited[c]
        /\ leaked' = leaked \cup {p \in Ports : ports[p] = "open"}
        /\ ports' = [p \in Ports |-> "none"]
        /\ cleanup' = [cleanup EXCEPT ![c] = "done"] /\ visited' = [visited EXCEPT ![c] = 0]
        /\ UNCHANGED <<hasty, crashed, handle, worker, gui, hand>>
    BY <1>22 DEF ClearPorts
  <2> SUFFICES ASSUME ~hasty PROVE WaitInv' /\ WalkInv'
    BY <2>1
  <2>2. /\ gui \in {"idle", "dropdown", "exit"}
        /\ \A d \in {GUI} \cup Workers : cleanup[d] = "close" => d = c
    BY <2>1, Alone
  <2>3. \A p \in Ports : ports[p] # "open"
    <3>1. \A p \in Ports : ports[p] = "open" => p \in Entries /\ p > visited[c]
      BY <2>1 DEF Entries
    <3>2. visited[c] \in Nat /\ Ports \subseteq Nat
      BY PortNumbers
    <3> QED
      BY ONLY <2>1, <3>1, <3>2
  <2>4. leaked' = {}
    BY <2>1, <2>3
  <2>5. \A d \in {GUI} \cup Workers : /\ cleanup'[d] = IF d = c THEN "done" ELSE cleanup[d]
                                      /\ visited'[d] = IF d = c THEN 0 ELSE visited[d]
    BY <2>1
  <2>6. WaitInv'
    <3>1. \A w \in Workers : UnderWay(w)' => UnderWay(w)
      BY <2>5
    <3> QED
      BY <2>1, <2>2, <3>1
  <2>7. WalkInv'
    BY <2>1, <2>2, <2>4, <2>5
  <2> QED
    BY <2>6, <2>7
<1> QED
  BY StepCases,
     <1>1, <1>2, <1>3, <1>4, <1>5, <1>6, <1>7, <1>8, <1>9, <1>10, <1>11,
     <1>12, <1>13, <1>14, <1>15, <1>16, <1>17, <1>18, <1>19, <1>20, <1>21, <1>22

\* The inductive invariant behind the two theorems below.
THEOREM Inductive == SerialSpec => []IInv
<1>1. SerialInit => IInv
  <2> SUFFICES ASSUME SerialInit PROVE IInv
    OBVIOUS
  <2>1. FlagsOK
    BY DEF SerialInit, FlagsOK
  <2>2. DataOK
    BY Threads DEF SerialInit, DataOK, Free
  <2>3. ThreadInv
    BY Threads DEF SerialInit, ThreadInv, Alive
  <2>4. Safe
    BY Threads DEF SerialInit, Safe, WaitInv, UnderWay, WalkInv
  <2> QED
    BY <2>1, <2>2, <2>3, <2>4, TypeSplit DEF IInv
<1>2. IInv /\ [SerialNext]_serialVars => IInv'
  BY FlagStep, DataStep, ThreadStep, SafeStep, TypeSplit, TypePrime DEF IInv
<1> QED
  BY <1>1, <1>2, PTL DEF SerialSpec

\* Every state of the serial manager and its page is one the declarations allow.
THEOREM SerialTypes == SerialSpec => []SerialTypeOK
<1>1. IInv => SerialTypeOK
  BY DEF IInv
<1> QED
  BY <1>1, Inductive, PTL

\* Without its lock, SerialManager::CloseAll is safe for a user who waits for
\* it: no port is used after it was deleted and none is left open unseen.
THEOREM PatiencePays == SerialSpec => []PatienceIsSafe
<1>1. IInv => PatienceIsSafe
  <2> SUFFICES ASSUME IInv, ~hasty PROVE PatienceIsSafe
    BY DEF PatienceIsSafe
  <2>1. DOMAIN cleanup = {GUI} \cup Workers
    BY DEF IInv, SerialTypeOK
  <2> QED
    BY <2>1 DEF IInv, Safe, WalkInv, PatienceIsSafe
<1> QED
  BY <1>1, Inductive, PTL

----------------------------------------------------------------------------
(* Every open port has somebody to close it, whatever the user does         *)

\* Ports are opened in the section of a worker only, which lives: ThreadInv
\* names who stops it, or is about to join it.
CloserInv ==
  /\ mutex.at = "open" => mutex.owner \in Workers
  /\ NoneAbandoned

\* Every step, a hasty user's too, keeps the ports in somebody's charge.
LEMMA CloserStep == DataOK /\ ThreadInv /\ CloserInv /\ [SerialNext]_serialVars => CloserInv'
<1> SUFFICES ASSUME DataOK, ThreadInv, CloserInv, [SerialNext]_serialVars PROVE CloserInv'
  OBVIOUS
\* Steps that open nothing and take no closer away.
<1>a. ASSUME mutex' = mutex \/ mutex'.at # "open",
             \A p \in Ports : ports'[p] # "none" => ports[p] # "none",
             handle' = handle \/ handle' # 0,
             \A c \in {GUI} \cup Workers : cleanup[c] \in {"join", "close"}
                                             => cleanup'[c] \in {"join", "close"}
      PROVE  CloserInv'
  BY <1>a DEF CloserInv, NoneAbandoned, Entries
<1>b. DataOK
  OBVIOUS
<1> USE Threads DEF threads, guiLocals
<1>1. CASE SendData
  BY <1>1, <1>a DEF SendData, Lock
<1>2. CASE SelectPort
  BY <1>2, <1>a DEF SelectPort
<1>3. CASE SetBaudrate
  BY <1>3, <1>a DEF SetBaudrate
<1>4. CASE OpenAppeared
  <2>1. mutex.owner \in Workers /\ mutex.at = "open"
    BY <1>4 DEF OpenAppeared, CloserInv
  <2>2. mutex # Free
    BY <2>1 DEF Free
  <2>3. worker[mutex.owner] \in {"inClean", "inReceive"}
    BY <1>b, <2>1, InSection
  <2>4. Alive(mutex.owner)
    BY <2>3 DEF Alive
  <2>5. handle = mutex.owner \/ cleanup[mutex.owner] = "join"
    BY <2>1, <2>4 DEF ThreadInv
  <2>6. handle # 0 \/ \E c \in {GUI} \cup Workers : cleanup[c] \in {"join", "close"}
    BY <2>1, <2>5
  <2>7. mutex'.at = "close" /\ UNCHANGED <<handle, cleanup>>
    <3>1. mutex \in [owner : {GUI} \cup Workers, at : {"open", "use", "close"}, todo : SUBSET Ports]
      BY <1>b, <2>2 DEF DataOK
    <3> QED
      BY <1>4, <3>1 DEF OpenAppeared
  <2> QED
    BY <2>6, <2>7 DEF CloserInv, NoneAbandoned
<1>5. CASE UseChosen
  <2>1. mutex \in [owner : {GUI} \cup Workers, at : {"open", "use", "close"}, todo : SUBSET Ports]
    BY <1>b, <1>5, InSection DEF UseChosen
  <2>2. mutex'.at = "close"
    BY <1>5, <2>1 DEF UseChosen
  <2> QED
    BY <1>5, <2>2, <1>a DEF UseChosen
<1>6. CASE ClosePorts
  <2>1. mutex'.at = "free" /\ UNCHANGED <<handle, cleanup>>
    BY <1>6 DEF ClosePorts, SectionLeft, Free
  <2>2. \A p \in Ports : ports'[p] # "none" => ports[p] # "none"
    BY <1>6 DEF ClosePorts
  <2> QED
    BY <2>1, <2>2, <1>a
<1>7. CASE Start
  BY <1>7, <1>a DEF Start, GuiActs
<1>8. CASE Stop
  <2>1. handle \in Workers /\ cleanup' = [cleanup EXCEPT ![handle] = "join"]
        /\ UNCHANGED <<mutex, ports>>
    BY <1>b, <1>8 DEF Stop, GuiActs, DataOK
  <2>2. cleanup'[handle] = "join"
    BY <1>b, <2>1 DEF DataOK
  <2> QED
    BY <2>1, <2>2 DEF CloserInv, NoneAbandoned
<1>9. CASE PressSend
  BY <1>9, <1>a DEF PressSend, GuiActs
<1>10. CASE ExportPorts
  BY <1>10, <1>a DEF ExportPorts, GuiActs
<1>11. CASE ChangeBaudRate
  BY <1>11, <1>a DEF ChangeBaudRate, GuiActs
<1>12. CASE Exit
  <2>1. UNCHANGED <<mutex, ports, handle>> /\ cleanup' = [cleanup EXCEPT ![GUI] = "join"]
    BY <1>12 DEF Exit, GuiActs
  <2>2. \A c \in {GUI} \cup Workers : cleanup[c] \in {"join", "close"}
                                       => cleanup'[c] \in {"join", "close"}
    BY <1>b, <2>1 DEF DataOK
  <2> QED
    BY <2>1, <2>2, <1>a
<1>13. CASE PlugOrUnplug
  BY <1>13, <1>a DEF PlugOrUnplug
<1>14. CASE UseAfterDestruction
  BY <1>14, <1>a DEF UseAfterDestruction
<1>15. CASE UNCHANGED serialVars
  BY <1>15, <1>a DEF serialVars
<1>16. ASSUME NEW w \in Workers, TestKeepRunning(w) PROVE CloserInv'
  BY <1>16, <1>a DEF TestKeepRunning, WorkerGoes
<1>17. ASSUME NEW w \in Workers, CleanPorts(w) PROVE CloserInv'
  <2>1. mutex'.owner = w /\ UNCHANGED <<ports, handle, cleanup>>
    BY <1>17 DEF CleanPorts, WorkerGoes, Lock
  <2> QED
    BY <2>1 DEF CloserInv, NoneAbandoned, Entries
<1>18. ASSUME NEW w \in Workers, ReadSerialWrite(w) PROVE CloserInv'
  BY <1>18, <1>a DEF ReadSerialWrite, WorkerGoes
<1>19. ASSUME NEW w \in Workers, ReceiveData(w) PROVE CloserInv'
  BY <1>19, <1>a DEF ReceiveData, WorkerGoes, Lock
<1>20. ASSUME NEW c \in {GUI} \cup Workers, JoinWorker(c) PROVE CloserInv'
  <2>1. UNCHANGED <<mutex, ports>> /\ cleanup' = [cleanup EXCEPT ![c] = "close"]
    BY <1>20 DEF JoinWorker
  <2>2. cleanup'[c] = "close"
    BY <1>b, <2>1 DEF DataOK
  <2> QED
    BY <2>1, <2>2 DEF CloserInv, NoneAbandoned
<1>21. ASSUME NEW c \in {GUI} \cup Workers, CloseNext(c) PROVE CloserInv'
  <2>1. UNCHANGED <<mutex, handle, cleanup>>
    BY <1>21 DEF CloseNext
  <2>2. \A p \in Ports : ports'[p] # "none" => ports[p] # "none"
    <3>1. PICK p \in Entries : ports' = [ports EXCEPT ![p] = "deleted"]
      BY <1>21 DEF CloseNext
    <3> QED
      BY <1>b, <3>1 DEF DataOK, Entries
  <2> QED
    BY <2>1, <2>2, <1>a
<1>22. ASSUME NEW c \in {GUI} \cup Workers, ClearPorts(c) PROVE CloserInv'
  BY <1>22 DEF ClearPorts, CloserInv, NoneAbandoned, Entries
<1> QED
  BY StepCases,
     <1>1, <1>2, <1>3, <1>4, <1>5, <1>6, <1>7, <1>8, <1>9, <1>10, <1>11,
     <1>12, <1>13, <1>14, <1>15, <1>16, <1>17, <1>18, <1>19, <1>20, <1>21, <1>22

\* SerialManager leaves no port open that nobody is going to close: Start, Stop
\* and the destructor in any order, and devices that come and go.
THEOREM NoPortAbandoned == SerialSpec => []NoneAbandoned
<1>1. SerialInit => CloserInv
  BY DEF SerialInit, CloserInv, NoneAbandoned, Entries, Free
<1>2. IInv /\ CloserInv /\ [SerialNext]_serialVars => CloserInv'
  BY CloserStep, TypeSplit DEF IInv
<1>3. CloserInv => NoneAbandoned
  BY DEF CloserInv
<1> QED
  BY <1>1, <1>2, <1>3, Inductive, PTL DEF SerialSpec
=============================================================================
