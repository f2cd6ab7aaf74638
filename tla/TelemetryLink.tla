--------------------------- MODULE TelemetryLink ---------------------------
(***************************************************************************)
(* The life of the connection to the board: TelemetryBackend::Start, Kill, *)
(* SetIp, SendCMD and WorkerLoop, the message callback, and the connection *)
(* indicator of the menu bar.  Three threads write IsConnected and         *)
(* IsReceiving: the GUI thread, the WebSocket's own thread (pc ws) and the *)
(* worker that polls every 10 ms (pc worker).                              *)
(*                                                                         *)
(* The WebSocket library is external.  As the code uses it: start() makes  *)
(* a thread that connects and reconnects and calls back from that thread   *)
(* alone; getReadyState() changes before the Open and after the Close      *)
(* callback is told; stop() closes the connection and joins the thread.    *)
(***************************************************************************)
EXTENDS IpV4

CONSTANTS Addresses,    \* what SetIp may be given
          DefaultIp,
          SendsFail     \* whether send() on an open connection may report a failure

ValidAddress == {ip \in Addresses : Valid(ip)}

ASSUME LinkAssumption ==
  /\ Addresses \subseteq Typable /\ DefaultIp \in ValidAddress
  /\ SendsFail \in BOOLEAN

VARIABLES
  gui, caller,          \* GUI thread: where it is, whom Kill returns to
  ipAddr, url,          \* m_IpAddr, the URL the WebSocket was given
  tryConnection,
  ws, ready, stopping,  \* the WebSocket: its thread, getReadyState() = Open, stop() called
  worker, shouldKill,
  isConnected, isReceiving,
  recent                \* now - m_LastDataTime is at most 500 ms

guiVars    == <<gui, caller, ipAddr, url>>
wsVars     == <<ws, ready, stopping>>
workerVars == <<worker, shouldKill>>
flags      == <<isConnected, isReceiving>>
vars == <<gui, caller, ipAddr, url, tryConnection, ws, ready, stopping,
          worker, shouldKill, isConnected, isReceiving, recent>>

Init ==
  /\ gui = "idle" /\ caller = "none"
  /\ ipAddr = DefaultIp /\ url = DefaultIp
  /\ tryConnection = FALSE
  /\ ws = "none" /\ ready = FALSE /\ stopping = FALSE
  /\ worker = "none" /\ shouldKill = FALSE
  /\ isConnected = FALSE /\ isReceiving = FALSE
  /\ recent = FALSE

----------------------------------------------------------------------------
(* GUI thread                                                               *)

\* Kill, first statement: stop() begins to close the connection ...
BeginKill(who) ==
  /\ gui' = "joinWs" /\ caller' = who
  /\ stopping' = TRUE /\ ready' = FALSE
  /\ UNCHANGED <<url, ws, workerVars, flags, recent>>

\* ... and joins the thread, which may be anywhere in the callback.
JoinWebSocket ==
  /\ gui = "joinWs" /\ ws \in {"none", "exited"}
  /\ ws' = "none" /\ gui' = "killWorker"
  /\ UNCHANGED <<caller, ipAddr, url, tryConnection, ready, stopping, workerVars,
                 flags, recent>>

\* Slip: the worker is not told.
KillWorker_NoFlag ==
  /\ gui = "killWorker" /\ gui' = "joinWorker"
  /\ UNCHANGED <<shouldKill, caller, ipAddr, url, tryConnection, wsVars, worker, flags, recent>>
\* m_ShouldKill is set only for a worker there is.
KillWorker ==
  /\ gui = "killWorker" /\ gui' = "joinWorker"
  /\ shouldKill' = (shouldKill \/ worker # "none")
  /\ UNCHANGED <<caller, ipAddr, url, tryConnection, wsVars, worker, flags, recent>>

\* Slip: the worker is detached, not joined.
JoinWorker_Detach ==
  /\ gui = "joinWorker" /\ worker' = worker
  /\ gui' = "killed"
  /\ UNCHANGED <<caller, ipAddr, url, tryConnection, wsVars, shouldKill, flags, recent>>
JoinWorker ==
  /\ gui = "joinWorker" /\ worker \in {"none", "exited"}
  /\ worker' = "none"
  /\ gui' = "killed"
  /\ UNCHANGED <<caller, ipAddr, url, tryConnection, wsVars, shouldKill, flags, recent>>

PressRestart ==
  /\ gui = "idle" /\ tryConnection' = TRUE
  /\ UNCHANGED <<guiVars, wsVars, workerVars, flags, recent>>

\* End of a frame: TryConnection.exchange(false) and Start.
RestartRequested ==
  /\ gui = "idle" /\ tryConnection
  /\ tryConnection' = FALSE
  /\ BeginKill("start")
  /\ UNCHANGED ipAddr

\* Slip: any address is taken.
SetIp_Unchecked(ip) ==
  /\ gui = "idle" /\ ipAddr' = ip
  /\ BeginKill("setIp")
  /\ UNCHANGED tryConnection
\* "Update IP": an invalid address is only logged.
SetIp(ip) ==
  /\ gui = "idle" /\ ip \in ValidAddress
  /\ ipAddr' = ip
  /\ BeginKill("setIp")
  /\ UNCHANGED tryConnection

\* Slip: the new address is not given to the WebSocket.
Launch_OldUrl ==
  /\ gui = "killed" /\ caller # "exit"
  /\ gui' = "idle" /\ caller' = "none"
  /\ url' = url
  /\ stopping' = FALSE /\ ws' = "down"
  /\ shouldKill' = FALSE /\ worker' = "loop"
  /\ tryConnection' = (tryConnection /\ caller # "setIp")
  /\ UNCHANGED <<ipAddr, ready, flags, recent>>
\* The rest of Start.  (SetIp kills twice; the second time nothing is alive.)
\* SetIp also takes back a restart that was asked for in the same frame.
Launch ==
  /\ gui = "killed" /\ caller # "exit"
  /\ gui' = "idle" /\ caller' = "none"
  /\ url' = ipAddr
  /\ stopping' = FALSE /\ ws' = "down"
  /\ shouldKill' = FALSE /\ worker' = "loop"
  /\ tryConnection' = (tryConnection /\ caller # "setIp")
  /\ UNCHANGED <<ipAddr, ready, flags, recent>>

\* SendCMD from a page or the menu bar, as seen by the flags: nothing when
\* the socket is not open or the send succeeds, and when the send fails ...
SendFails ==
  /\ gui = "idle" /\ ready /\ SendsFail
  /\ gui' = "sendFailed"
  /\ UNCHANGED <<caller, ipAddr, url, tryConnection, wsVars, workerVars, flags, recent>>
SendFailed ==
  /\ gui = "sendFailed" /\ gui' = "idle"
  /\ isConnected' = FALSE
  /\ UNCHANGED <<caller, ipAddr, url, tryConnection, wsVars, workerVars, isReceiving,
                 recent>>

\* ~TelemetryBackend at the end of the program.
Exit ==
  /\ gui = "idle"
  /\ BeginKill("exit")
  /\ UNCHANGED <<ipAddr, tryConnection>>

----------------------------------------------------------------------------
(* WebSocket thread: the library's steps, and the callback statement by     *)
(* statement                                                                *)

WsLeaves == UNCHANGED <<guiVars, tryConnection, stopping, workerVars>>

Connect ==
  /\ ws = "down" /\ ~stopping
  /\ ws' = "open" /\ ready' = TRUE
  /\ UNCHANGED <<flags, recent>> /\ WsLeaves

\* A failed attempt: Error callback, then another attempt.
ConnectFails ==
  /\ ws = "down" /\ ~stopping
  /\ ws' = "errorConnected"
  /\ UNCHANGED <<ready, flags, recent>> /\ WsLeaves

OpenConnected ==
  /\ ws = "open" /\ ws' = "openReceiving"
  /\ isConnected' = TRUE
  /\ UNCHANGED <<ready, isReceiving, recent>> /\ WsLeaves
OpenReceiving ==
  /\ ws = "openReceiving" /\ ws' = "status"
  /\ isReceiving' = FALSE
  /\ UNCHANGED <<ready, isConnected, recent>> /\ WsLeaves
\* SendCMD("STATUS"): sent, not sent because closed meanwhile, or failed.
SendStatus ==
  /\ ws = "status" /\ ws' = "up"
  /\ isConnected' \in IF ready /\ SendsFail THEN {isConnected, FALSE} ELSE {isConnected}
  /\ UNCHANGED <<ready, isReceiving, recent>> /\ WsLeaves

MessageReceiving ==
  /\ ws = "up" /\ ready
  /\ ws' = "message" /\ isReceiving' = TRUE
  /\ UNCHANGED <<ready, isConnected, recent>> /\ WsLeaves
\* OnMessage has returned and m_LastDataTime is now.
MessageTime ==
  /\ ws = "message" /\ ws' = "up"
  /\ recent' = TRUE
  /\ UNCHANGED <<ready, flags>> /\ WsLeaves

\* The peer, the network or stop() has ended the connection.
Disconnect ==
  /\ ws = "up"
  /\ ready' = FALSE /\ ws' = "errorConnected"
  /\ UNCHANGED <<flags, recent>> /\ WsLeaves

\* Slip: only the worker resets IsConnected.
CloseConnected_NoReset ==
  /\ ws = "errorConnected" /\ ws' = "errorReceiving"
  /\ UNCHANGED isConnected
  /\ UNCHANGED <<ready, isReceiving, recent>> /\ WsLeaves
\* Close and Error reset both flags.
CloseConnected ==
  /\ ws = "errorConnected" /\ ws' = "errorReceiving"
  /\ isConnected' = FALSE
  /\ UNCHANGED <<ready, isReceiving, recent>> /\ WsLeaves
CloseReceiving ==
  /\ ws = "errorReceiving" /\ ws' = "down"
  /\ isReceiving' = FALSE
  /\ UNCHANGED <<ready, isConnected, recent>> /\ WsLeaves

WsExits ==
  /\ ws = "down" /\ stopping
  /\ ws' = "exited"
  /\ UNCHANGED <<ready, flags, recent>> /\ WsLeaves

----------------------------------------------------------------------------
(* Worker thread: each flag is stored in a later step than its reason       *)

WorkerLeaves == UNCHANGED <<guiVars, tryConnection, wsVars, shouldKill, recent>>

WorkerTest ==
  /\ worker = "loop"
  /\ worker' = IF shouldKill THEN "exited" ELSE "readState"
  /\ UNCHANGED flags /\ WorkerLeaves
WorkerReadState ==
  /\ worker = "readState"
  /\ worker' = IF ready THEN "readTime" ELSE "storeConnected"
  /\ UNCHANGED flags /\ WorkerLeaves
\* Slip: the worker stores the state as it is now.
WorkerStoreConnected_State ==
  /\ worker = "storeConnected" /\ worker' = "readTime"
  /\ isConnected' = ready
  /\ UNCHANGED isReceiving /\ WorkerLeaves
WorkerStoreConnected ==
  /\ worker = "storeConnected" /\ worker' = "readTime"
  /\ isConnected' = FALSE
  /\ UNCHANGED isReceiving /\ WorkerLeaves
\* Slip: no time-out of the data.
WorkerReadTime_Never ==
  /\ worker = "readTime"
  /\ worker' = "loop"
  /\ UNCHANGED flags /\ WorkerLeaves
WorkerReadTime ==
  /\ worker = "readTime"
  /\ worker' = IF recent THEN "loop" ELSE "storeReceiving"
  /\ UNCHANGED flags /\ WorkerLeaves
WorkerStoreReceiving ==
  /\ worker = "storeReceiving" /\ worker' = "loop"
  /\ isReceiving' = FALSE
  /\ UNCHANGED isConnected /\ WorkerLeaves

HalfSecondPasses ==
  /\ recent /\ recent' = FALSE
  /\ UNCHANGED <<guiVars, tryConnection, wsVars, workerVars, flags>>

----------------------------------------------------------------------------
GuiProceeds == \/ RestartRequested \/ JoinWebSocket \/ KillWorker \/ JoinWorker
               \/ Launch \/ SendFailed
UserActs == PressRestart \/ SendFails \/ Exit
            \/ \E ip \in Addresses : SetIp(ip)
Callback == OpenConnected \/ OpenReceiving \/ SendStatus \/ MessageTime
            \/ CloseConnected \/ CloseReceiving \/ WsExits
Network == Connect \/ ConnectFails \/ MessageReceiving \/ Disconnect
WorkerStep == WorkerTest \/ WorkerReadState \/ WorkerStoreConnected
              \/ WorkerReadTime \/ WorkerStoreReceiving
\* The program has ended.
Ended == gui = "killed" /\ caller = "exit" /\ UNCHANGED vars

Next == GuiProceeds \/ UserActs \/ Callback \/ Network \/ WorkerStep
        \/ HalfSecondPasses \/ Ended

Spec == Init /\ [][Next]_vars

\* Threads run, time passes and a connection that stop() closes does end; the
\* user and the peer owe nothing.  Every frame ends with the test of
\* TryConnection, whatever the pages did in it: strong fairness.
FairSpec == Spec /\ WF_vars(GuiProceeds) /\ SF_vars(RestartRequested) /\ WF_vars(Callback) /\ WF_vars(WorkerStep)
                 /\ WF_vars(HalfSecondPasses) /\ WF_vars(Disconnect /\ stopping)

----------------------------------------------------------------------------
(* Properties                                                               *)

WsPC == {"none", "down", "open", "openReceiving", "status", "up", "message",
         "errorConnected", "errorReceiving", "exited"}

\* Type invariant: every variable keeps to the values its declaration allows.
TypeOK ==
  /\ gui \in {"idle", "joinWs", "killWorker", "joinWorker", "killed", "sendFailed"}
  /\ caller \in {"none", "start", "setIp", "exit"}
  /\ ipAddr \in ValidAddress /\ url \in ValidAddress
  /\ tryConnection \in BOOLEAN
  /\ ws \in WsPC /\ ready \in BOOLEAN /\ stopping \in BOOLEAN
  /\ worker \in {"none", "loop", "readState", "storeConnected", "readTime",
                 "storeReceiving", "exited"}
  /\ shouldKill \in BOOLEAN
  /\ isConnected \in BOOLEAN /\ isReceiving \in BOOLEAN /\ recent \in BOOLEAN

\* The session of a connection, from its Open to the end of its Close callback.
InSession == {"openReceiving", "status", "up", "message", "errorConnected"}

\* "Connected" and the green light are shown only during a session: three
\* threads store the flags, and none leaves one set behind a session's end.
FlagsOnlyInSession ==
  /\ isConnected => ws \in InSession
  /\ isReceiving => ws \in InSession \cup {"errorReceiving"}

\* Threads are never doubled: m_Worker is assigned, start() called and the
\* object destroyed only after both old threads have been joined.
ThreadsJoined == gui = "killed" => ws = "none" /\ worker = "none"

\* A new address is in use as soon as the frame that accepted it goes on.
AddressInUse == gui \in {"idle", "sendFailed"} /\ ws # "none" => url = ipAddr

\* A pressed "Restart Connection" does restart: the joins of Kill, which wait
\* for a thread inside its callback, never wait for each other.
RestartHappens == tryConnection ~> gui = "killed"

\* The green light goes out when the board falls silent.
GreenGoesOut == <>[](ws # "message") => <>[](~isReceiving)

\* The WebSocket is only given addresses, as long as no part is so long that
\* its value wraps in IpV4::Valid.
UrlIsAnAddress ==
  (\A part \in DOMAIN url : Number(url[part]) < WordSize) => IsAddress(url)

\* The three threads together keep the promise of one indicator: see
\* ConnectionLight.  A session lasts as long as its connection.
Light == INSTANCE ConnectionLight
           WITH session <- ws \in {"openReceiving", "status", "up", "message"},
                connected <- isConnected, receiving <- isReceiving
LightSpec == Light!Spec

\* The menu bar says "Connected" or "Not Connected" (gui.cpp), and the help text
\* kept in a comment of home.cpp tells the user to wait for the first: a
\* connection that stays up, with no failed send, ends up being shown so.
ShownConnected == <>[](ready /\ ws \in {"up", "message"}) => <>[]isConnected
=============================================================================
