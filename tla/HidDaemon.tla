------------------------------ MODULE HidDaemon ------------------------------
(***************************************************************************)
(* The life of the HID service process: main, the server thread of         *)
(* HIDHttpApi, the D-Bus event thread of BluetoothHIDServer, the signals   *)
(* and the clients.  main starts the two components, waits for a signal,   *)
(* stops them in the opposite order and destroys them; the server thread   *)
(* accepts one client after another and runs its request on the HID        *)
(* server, whose calls need the D-Bus connection.  The work of a call is   *)
(* HidServer; here it takes a step of time.                                *)
(***************************************************************************)
EXTENDS Integers, FiniteSets

CONSTANTS
  MaxClients,   \* bound: connections made in a behaviour
  MaxFaults     \* bound: calls of the system or of D-Bus that fail

ASSUME DaemonAssumption == MaxClients \in Nat /\ MaxFaults \in Nat

Signal == {"INT", "TERM"}

VARIABLES
  fate,          \* how the process ended, "alive" before
  main, failing, \* position of main, and whether an exception unwinds it
  http,          \* position of the server thread
  joinable,      \* serverThread_ holds a thread not joined yet
  event,         \* the event thread
  apiRunning,    \* running_ of HIDHttpApi
  hidRunning,    \* running_ of BluetoothHIDServer::Impl
  serverFd,      \* serverFd_ >= 0
  open, shut,    \* the server socket: not closed, shut down
  listening,     \* the server socket listens
  connection,    \* the D-Bus connection: "none", "up" or "closed"
  leaveAsked,    \* leaveEventLoop was called
  registered,    \* what BlueZ has registered for the process
  handlers,      \* signals whose handler is installed
  promise,       \* shutdownPromise has its value
  backlog,       \* connections not accepted yet
  client,        \* what the accepted client does
  clients, faults

mainVars   == <<main, failing>>
apiVars    == <<apiRunning, serverFd, joinable>>
socketVars == <<open, shut, listening>>
hidVars    == <<hidRunning, connection, leaveAsked, registered>>
signalVars == <<handlers, promise>>
clientVars == <<backlog, client, clients>>
vars == <<fate, mainVars, http, event, apiVars, socketVars, hidVars, signalVars,
          clientVars, faults>>

Init ==
  /\ fate = "alive"
  /\ main = "connect" /\ failing = FALSE
  /\ http = "none" /\ joinable = FALSE /\ event = "none"
  /\ apiRunning = FALSE /\ hidRunning = FALSE
  /\ serverFd = FALSE /\ open = FALSE /\ shut = FALSE /\ listening = FALSE
  /\ connection = "none" /\ leaveAsked = FALSE
  /\ registered = {}
  /\ handlers = {} /\ promise = FALSE
  /\ backlog = 0 /\ client = "none"
  /\ clients = 0 /\ faults = 0

-----------------------------------------------------------------------------
(* main: BluetoothHIDServer::start, HIDHttpApi::start, the signals.        *)

At(place) == fate = "alive" /\ main = place
GoTo(place) == main' = place
Fail ==
  /\ faults < MaxFaults
  /\ faults' = faults + 1
NoFault == UNCHANGED faults

(* start of the HID server throws: ~Impl calls stop, which returns early.  *)
StartFails(place) ==
  /\ At(place)
  /\ Fail
  /\ GoTo("stopHid") /\ failing' = TRUE
  /\ UNCHANGED <<fate, http, event, apiVars, socketVars, hidVars, signalVars, clientVars>>

Connect ==
  /\ At("connect")
  /\ connection' = "up"
  /\ GoTo("registerApplication")
  /\ UNCHANGED <<fate, failing, http, event, apiVars, socketVars, hidRunning,
                 leaveAsked, registered, signalVars, clientVars, faults>>

Register(what, from, to) ==
  /\ At(from)
  /\ registered' = registered \cup {what}
  /\ GoTo(to)
  /\ UNCHANGED <<fate, failing, http, event, apiVars, socketVars, hidRunning,
                 connection, leaveAsked, signalVars, clientVars, faults>>
RegisterApplication ==
  Register("application", "registerApplication", "registerAdvertisement")
RegisterAdvertisement ==
  Register("advertisement", "registerAdvertisement", "startEvents")

(* running_ is set before the thread exists; without it stop still works.  *)
StartEvents ==
  /\ At("startEvents")
  /\ hidRunning' = TRUE
  /\ \/ event' = "loop" /\ GoTo("startHttp") /\ UNCHANGED failing /\ NoFault
     \/ event' = event /\ GoTo("stopHid") /\ failing' = TRUE /\ Fail
  /\ UNCHANGED <<fate, http, apiVars, socketVars, connection, leaveAsked,
                 registered, signalVars, clientVars>>

StartHttp ==
  /\ At("startHttp")
  /\ apiRunning' = TRUE
  /\ \/ /\ http' = "socket" /\ joinable' = TRUE
        /\ GoTo("installINT") /\ UNCHANGED failing /\ NoFault
     \/ /\ GoTo("stopHttp") /\ failing' = TRUE /\ Fail
        /\ UNCHANGED <<http, joinable>>
  /\ UNCHANGED <<fate, event, serverFd, socketVars, hidVars, signalVars, clientVars>>

Install(signal, from, to) ==
  /\ At(from)
  /\ handlers' = handlers \cup {signal}
  /\ GoTo(to)
  /\ UNCHANGED <<fate, failing, http, event, apiVars, socketVars, hidVars,
                 promise, clientVars, faults>>

\* Mutant of Wait: the HID server is stopped before the HTTP server.
WaitThenStopHid ==
  /\ At("wait") /\ promise
  /\ GoTo("stopHid")
  /\ UNCHANGED <<fate, failing, http, event, apiVars, socketVars, hidVars,
                 signalVars, clientVars, faults>>

Wait ==
  /\ At("wait") /\ promise
  /\ GoTo("stopHttp")
  /\ UNCHANGED <<fate, failing, http, event, apiVars, socketVars, hidVars,
                 signalVars, clientVars, faults>>

-----------------------------------------------------------------------------
(* main: HIDHttpApi::stop, line by line against the server thread.         *)

StopHttp ==
  /\ At("stopHttp")
  /\ GoTo(IF apiRunning THEN "shutdownSocket" ELSE "stopHid")
  /\ apiRunning' = FALSE
  /\ UNCHANGED <<fate, failing, http, event, serverFd, joinable, socketVars,
                 hidVars, signalVars, clientVars, faults>>

\* Mutant of ShutdownSocket: the socket is only closed.
ShutdownNothing ==
  /\ At("shutdownSocket")
  /\ GoTo(IF serverFd THEN "closeSocket" ELSE "joinHttp")
  /\ UNCHANGED <<fate, failing, http, event, apiVars, socketVars, hidVars,
                 signalVars, clientVars, faults>>

(* shutdown acts on a listening socket only.                               *)
ShutdownSocket ==
  /\ At("shutdownSocket")
  /\ GoTo(IF serverFd THEN "closeSocket" ELSE "joinHttp")
  /\ shut' = (shut \/ (serverFd /\ open /\ listening))
  /\ UNCHANGED <<fate, failing, http, event, apiVars, open, listening, hidVars,
                 signalVars, clientVars, faults>>

(* close by main or by the server thread; a second close changes nothing.  *)
CloseSocket == open' = (IF serverFd THEN FALSE ELSE open)

CloseByMain ==
  /\ At("closeSocket")
  /\ CloseSocket
  /\ GoTo("clearSocket")
  /\ UNCHANGED <<fate, failing, http, event, apiVars, shut, listening, hidVars,
                 signalVars, clientVars, faults>>

ClearByMain ==
  /\ At("clearSocket")
  /\ serverFd' = FALSE
  /\ GoTo("joinHttp")
  /\ UNCHANGED <<fate, failing, http, event, apiRunning, joinable, socketVars,
                 hidVars, signalVars, clientVars, faults>>

\* Mutant of JoinHttp: the thread is detached.
DetachHttp ==
  /\ At("joinHttp")
  /\ joinable' = FALSE
  /\ GoTo("stopHid")
  /\ UNCHANGED <<fate, failing, http, event, apiRunning, serverFd, socketVars,
                 hidVars, signalVars, clientVars, faults>>
JoinHttp ==
  /\ At("joinHttp")
  /\ joinable => http = "done"
  /\ joinable' = FALSE
  /\ GoTo("stopHid")
  /\ UNCHANGED <<fate, failing, http, event, apiRunning, serverFd, socketVars,
                 hidVars, signalVars, clientVars, faults>>

-----------------------------------------------------------------------------
(* main: BluetoothHIDServer::stop, and the destructors.                    *)

StopHid ==
  /\ At("stopHid")
  /\ GoTo(IF hidRunning THEN "unregisterApplication" ELSE "destroy")
  /\ UNCHANGED <<fate, failing, http, event, apiVars, socketVars, hidVars,
                 signalVars, clientVars, faults>>

\* Mutant of Unregister: the advertisement is forgotten.
UnregisterApplicationOnly(what, from, to) ==
  /\ At(from)
  /\ registered' = registered \ ({what} \ {"advertisement"})
  /\ GoTo(to)
  /\ UNCHANGED <<fate, failing, http, event, apiVars, socketVars, hidRunning,
                 connection, leaveAsked, signalVars, clientVars, faults>>

(* A failure is logged and shutting down goes on.                          *)
Unregister(what, from, to) ==
  /\ At(from)
  /\ \/ registered' = registered \ {what} /\ NoFault
     \/ UNCHANGED registered /\ Fail
  /\ GoTo(to)
  /\ UNCHANGED <<fate, failing, http, event, apiVars, socketVars, hidRunning,
                 connection, leaveAsked, signalVars, clientVars>>

LeaveEventLoop ==
  /\ At("leaveEventLoop")
  /\ leaveAsked' = TRUE
  /\ GoTo("joinEvents")
  /\ UNCHANGED <<fate, failing, http, event, apiVars, socketVars, hidRunning,
                 connection, registered, signalVars, clientVars, faults>>

\* Mutant of JoinEvents: the event thread is not waited for.
JoinNobody ==
  /\ At("joinEvents")
  /\ GoTo("resetObjects")
  /\ UNCHANGED <<fate, failing, http, event, apiVars, socketVars, hidVars,
                 signalVars, clientVars, faults>>

JoinEvents ==
  /\ At("joinEvents")
  /\ event # "loop"
  /\ GoTo("resetObjects")
  /\ UNCHANGED <<fate, failing, http, event, apiVars, socketVars, hidVars,
                 signalVars, clientVars, faults>>

(* The advertisement, managedObjects_ and the connection are destroyed.    *)
ResetObjects ==
  /\ At("resetObjects")
  /\ connection' = "closed"
  /\ hidRunning' = FALSE
  /\ GoTo("destroy")
  /\ UNCHANGED <<fate, failing, http, event, apiVars, socketVars, leaveAsked,
                 registered, signalVars, clientVars, faults>>

(* ~HIDHttpApi: a thread that is still joinable ends the process.  Then    *)
(* ~Impl: the characteristics are members and outlive the connection that  *)
(* stop destroyed; what their D-Bus objects do with it is undefined.  The  *)
(* bus takes back what BlueZ still has registered.                         *)
Destroy ==
  /\ At("destroy")
  /\ fate' \in IF joinable THEN {"aborted"}
               ELSE {IF failing THEN "failed" ELSE "exited"}
                    \cup {f \in {"crashed"} : connection = "closed"}
  /\ UNCHANGED <<mainVars, http, event, apiVars, socketVars, hidVars, signalVars,
                 clientVars, faults>>

-----------------------------------------------------------------------------
(* The server thread: serverLoop.                                          *)

HttpAt(place) == fate = "alive" /\ http = place
HttpGoTo(place) == http' = place

CreateSocket ==
  /\ HttpAt("socket")
  /\ \/ /\ serverFd' = TRUE /\ open' = TRUE
        /\ HttpGoTo("bind") /\ NoFault /\ UNCHANGED apiRunning
     \/ /\ serverFd' = FALSE /\ apiRunning' = FALSE
        /\ HttpGoTo("done") /\ Fail /\ UNCHANGED open
  /\ UNCHANGED <<fate, mainVars, event, joinable, shut, listening, hidVars,
                 signalVars, clientVars>>

(* bind and listen fail on a descriptor that main has closed or cleared.   *)
Usable == serverFd /\ open
Prepare(from, to) ==
  /\ HttpAt(from)
  /\ \/ Usable /\ HttpGoTo(to) /\ NoFault /\ UNCHANGED apiRunning
     \/ /\ HttpGoTo("closeFailed") /\ apiRunning' = FALSE
        /\ IF Usable THEN Fail ELSE NoFault
  /\ listening' = (listening \/ (from = "listen" /\ http' = to))
  /\ UNCHANGED <<fate, mainVars, event, serverFd, joinable, open, shut, hidVars,
                 signalVars, clientVars>>
Bind   == Prepare("bind", "listen")
Listen == Prepare("listen", "while")

\* Mutant of TestRunning: the thread returns without closing its socket.
ReturnWhenStopped ==
  /\ HttpAt("while")
  /\ HttpGoTo(IF apiRunning THEN "accept" ELSE "done")
  /\ UNCHANGED <<fate, mainVars, event, apiVars, socketVars, hidVars, signalVars,
                 clientVars, faults>>

TestRunning ==
  /\ HttpAt("while")
  /\ HttpGoTo(IF apiRunning THEN "accept" ELSE "testSocket")
  /\ UNCHANGED <<fate, mainVars, event, apiVars, socketVars, hidVars, signalVars,
                 clientVars, faults>>

(* accept looks the descriptor up and then waits for a connection or for   *)
(* the shutdown of the socket: a close does not wake it.                   *)
EnterAccept ==
  /\ HttpAt("accept")
  /\ HttpGoTo(IF Usable /\ ~shut THEN "accepting" ELSE "testSocket")
  /\ UNCHANGED <<fate, mainVars, event, apiVars, socketVars, hidVars, signalVars,
                 clientVars, faults>>

Accept ==
  /\ HttpAt("accepting") /\ ~shut
  /\ backlog > 0
  /\ backlog' = backlog - 1 /\ client' = "quiet"
  /\ HttpGoTo("recv")
  /\ UNCHANGED <<fate, mainVars, event, apiVars, socketVars, hidVars, signalVars,
                 clients, faults>>

AcceptFails ==
  /\ HttpAt("accepting")
  /\ IF shut THEN NoFault ELSE Fail
  /\ HttpGoTo("testSocket")
  /\ UNCHANGED <<fate, mainVars, event, apiVars, socketVars, hidVars, signalVars,
                 clientVars>>

(* EINTR: the loop goes round.                                             *)
AcceptInterrupted ==
  /\ HttpAt("accepting")
  /\ Fail
  /\ HttpGoTo("while")
  /\ UNCHANGED <<fate, mainVars, event, apiVars, socketVars, hidVars, signalVars,
                 clientVars>>

(* After the accept loop.                                                 *)
TestSocket ==
  /\ HttpAt("testSocket")
  /\ HttpGoTo(IF serverFd THEN "close" ELSE "stopped")
  /\ UNCHANGED <<fate, mainVars, event, apiVars, socketVars, hidVars, signalVars,
                 clientVars, faults>>

CloseByHttp ==
  /\ fate = "alive" /\ http \in {"close", "closeFailed"}
  /\ CloseSocket
  /\ HttpGoTo(IF http = "close" THEN "clear" ELSE "clearFailed")
  /\ UNCHANGED <<fate, mainVars, event, apiVars, shut, listening, hidVars,
                 signalVars, clientVars, faults>>

ClearByHttp ==
  /\ fate = "alive" /\ http \in {"clear", "clearFailed"}
  /\ serverFd' = FALSE
  /\ HttpGoTo(IF http = "clear" THEN "stopped" ELSE "done")
  /\ UNCHANGED <<fate, mainVars, event, apiRunning, joinable, socketVars, hidVars,
                 signalVars, clientVars, faults>>

Stopped ==
  /\ HttpAt("stopped")
  /\ apiRunning' = FALSE
  /\ HttpGoTo("done")
  /\ UNCHANGED <<fate, mainVars, event, serverFd, joinable, socketVars, hidVars,
                 signalVars, clientVars, faults>>

-----------------------------------------------------------------------------
(* The server thread: handleClient.                                        *)

(* recv returns the request, whole or cut off, or the end of the stream.   *)
Receive ==
  /\ HttpAt("recv") /\ client \in {"sent", "gone"}
  /\ \/ client = "sent" /\ HttpGoTo("execute")
     \/ client = "sent" /\ HttpGoTo("respond")      \* healthz, unknown, malformed
     \/ client = "gone" /\ HttpGoTo("closeClient")
  /\ UNCHANGED <<fate, mainVars, event, apiVars, socketVars, hidVars, signalVars,
                 clientVars, faults>>

(* The call returns or throws; either way a response follows.              *)
CallEnds ==
  /\ HttpAt("execute")
  /\ HttpGoTo("respond")
  /\ UNCHANGED <<fate, mainVars, event, apiVars, socketVars, hidVars, signalVars,
                 clientVars, faults>>

(* send to a connection the client has reset raises SIGPIPE.               *)
Respond ==
  /\ HttpAt("respond")
  /\ \/ HttpGoTo("closeClient") /\ UNCHANGED fate
     \/ client = "gone" /\ fate' = "killed" /\ UNCHANGED http
  /\ UNCHANGED <<mainVars, event, apiVars, socketVars, hidVars, signalVars,
                 clientVars, faults>>

CloseClient ==
  /\ HttpAt("closeClient")
  /\ client' = "none"
  /\ HttpGoTo("while")
  /\ UNCHANGED <<fate, mainVars, event, apiVars, socketVars, hidVars, signalVars,
                 backlog, clients, faults>>

-----------------------------------------------------------------------------
(* The event thread, the signals and the clients.                          *)

EventLoopEnds ==
  /\ fate = "alive" /\ event = "loop"
  /\ IF leaveAsked THEN NoFault ELSE Fail
  /\ event' = "done"
  /\ UNCHANGED <<fate, mainVars, http, apiVars, socketVars, hidVars, signalVars,
                 clientVars>>

(* A promise takes one value: a second set_value throws, here out of a     *)
(* signal handler, which nothing catches.                                  *)
SetValue ==
  IF promise THEN fate' = "aborted" /\ UNCHANGED promise
  ELSE promise' = TRUE /\ UNCHANGED fate

\* Mutant of HandleSignal: without signalHandled.
HandleEverySignal == SetValue

(* signalHandled is set together with the promise, and by nothing else.    *)
HandleSignal ==
  IF promise THEN UNCHANGED <<fate, promise>> ELSE SetValue

(* handleSignal, or the default action before it is installed.             *)
Deliver(signal) ==
  /\ fate = "alive"
  /\ IF signal \in handlers THEN HandleSignal
     ELSE fate' = "killed" /\ UNCHANGED promise
  /\ UNCHANGED <<mainVars, http, event, apiVars, socketVars, hidVars, handlers,
                 clientVars, faults>>

ClientConnects ==
  /\ fate = "alive" /\ listening /\ open /\ ~shut
  /\ clients < MaxClients
  /\ backlog' = backlog + 1 /\ clients' = clients + 1
  /\ UNCHANGED <<fate, mainVars, http, event, apiVars, socketVars, hidVars,
                 signalVars, client, faults>>

ClientDoes(from, what) ==
  /\ fate = "alive" /\ client \in from
  /\ client' = what
  /\ UNCHANGED <<fate, mainVars, http, event, apiVars, socketVars, hidVars,
                 signalVars, backlog, clients, faults>>
ClientSends  == ClientDoes({"quiet"}, "sent")
ClientLeaves == ClientDoes({"quiet", "sent", "stalled"}, "gone")
ClientStalls == ClientDoes({"quiet"}, "stalled")

-----------------------------------------------------------------------------
MainStep ==
  \/ \E p \in {"connect", "registerApplication", "registerAdvertisement"} :
       StartFails(p)
  \/ Connect \/ RegisterApplication \/ RegisterAdvertisement
  \/ StartEvents \/ StartHttp
  \/ Install("INT", "installINT", "installTERM")
  \/ Install("TERM", "installTERM", "wait")
  \/ Wait
  \/ StopHttp \/ ShutdownSocket \/ CloseByMain \/ ClearByMain \/ JoinHttp
  \/ StopHid
  \/ Unregister("application", "unregisterApplication", "unregisterAdvertisement")
  \/ Unregister("advertisement", "unregisterAdvertisement", "leaveEventLoop")
  \/ LeaveEventLoop \/ JoinEvents \/ ResetObjects \/ Destroy

HttpStep ==
  \/ CreateSocket \/ Bind \/ Listen
  \/ TestRunning \/ EnterAccept \/ Accept \/ AcceptFails \/ AcceptInterrupted
  \/ TestSocket \/ CloseByHttp \/ ClearByHttp \/ Stopped
  \/ Receive \/ CallEnds \/ Respond \/ CloseClient

Next ==
  \/ MainStep \/ HttpStep \/ EventLoopEnds
  \/ \E signal \in Signal : Deliver(signal)
  \/ ClientConnects \/ ClientSends \/ ClientLeaves \/ ClientStalls

Spec == Init /\ [][Next]_vars

(* Threads that can run are scheduled and need no failure to go on, the    *)
(* event loop obeys leaveEventLoop (a call returns: HidServer), and a      *)
(* client that does not stall sends.                                       *)
Fairness ==
  /\ WF_vars(MainStep /\ NoFault) /\ WF_vars(HttpStep /\ NoFault)
  /\ WF_vars(leaveAsked /\ EventLoopEnds)
  /\ WF_vars(ClientSends)
FairSpec == Spec /\ Fairness

-----------------------------------------------------------------------------
(* The type of every variable.                                             *)
ThreadsOK ==
  /\ fate \in {"alive", "exited", "failed", "aborted", "crashed", "killed"}
  /\ main \in {"connect", "registerApplication", "registerAdvertisement",
               "startEvents", "startHttp", "installINT", "installTERM", "wait",
               "stopHttp", "shutdownSocket", "closeSocket", "clearSocket",
               "joinHttp", "stopHid", "unregisterApplication",
               "unregisterAdvertisement", "leaveEventLoop", "joinEvents",
               "resetObjects", "destroy"}
  /\ http \in {"none", "socket", "bind", "listen", "while", "accept", "accepting",
               "recv", "execute", "respond", "closeClient", "testSocket", "close",
               "closeFailed", "clear", "clearFailed", "stopped", "done"}
  /\ event \in {"none", "loop", "done"}
FlagsOK ==
  /\ failing \in BOOLEAN /\ promise \in BOOLEAN /\ leaveAsked \in BOOLEAN
  /\ joinable \in BOOLEAN /\ apiRunning \in BOOLEAN /\ hidRunning \in BOOLEAN
  /\ serverFd \in BOOLEAN /\ open \in BOOLEAN /\ shut \in BOOLEAN /\ listening \in BOOLEAN
WorldOK ==
  /\ connection \in {"none", "up", "closed"}
  /\ registered \subseteq {"application", "advertisement"}
  /\ handlers \subseteq Signal
  /\ client \in {"none", "quiet", "sent", "stalled", "gone"}
CountersOK ==
  /\ clients \in 0 .. MaxClients /\ backlog \in 0 .. clients
  /\ faults \in 0 .. MaxFaults
DaemonTypeOK == ThreadsOK /\ FlagsOK /\ WorldOK /\ CountersOK

(* A request runs on the HID server only while its D-Bus connection is up  *)
(* and BlueZ was asked to register it, although the server thread and main *)
(* share no lock: the order of the two stops in main is what guarantees it.*)
(* The event thread answers BlueZ only while the connection and the managed *)
(* objects exist: stop takes them down after the join.                     *)
CallsOnLiveConnection ==
  fate = "alive" /\ http = "execute" =>
    /\ connection = "up" /\ hidRunning
    /\ main \notin {"unregisterApplication", "unregisterAdvertisement",
                    "leaveEventLoop", "joinEvents", "resetObjects", "destroy"}

EventsOnLiveObjects ==
  fate = "alive" /\ event = "loop" => connection = "up" /\ hidRunning
NothingUsedAfterStop == CallsOnLiveConnection /\ EventsOnLiveObjects

(* The process ends by std::terminate only if the server thread gave up on *)
(* its own (socket, bind, listen or accept failed): stop then finds        *)
(* running_ false and leaves the thread unjoined.  An exit leaves neither  *)
(* thread nor socket behind, whatever failed on the way, and so does a     *)
(* crash in the last destructors, which comes after everything else.       *)
ServerGaveUp == faults > 0 /\ http \in {"closeFailed", "clearFailed", "done"}
EndsInOrder ==
  /\ fate = "aborted" => ServerGaveUp
  /\ fate = "exited" => http = "done"
  /\ fate \in {"exited", "crashed"} =>
       http \in {"none", "done"} /\ event # "loop" /\ ~open

(* A clean exit takes both registrations back, unless BlueZ refused.       *)
NothingLeftRegistered ==
  fate \in {"exited", "crashed"} => Cardinality(registered) <= faults

(* A handled signal ends the process, unless the client being served       *)
(* stalls for good: stop waits for the server thread, which waits in recv. *)
(* A start that fails ends the process without a signal.                   *)
StopsInTheEnd ==
  /\ promise ~> (fate # "alive" \/ [](client = "stalled"))
  /\ failing ~> fate # "alive"
-----------------------------------------------------------------------------
(* The inductive invariant of the proofs: what holds at each place of main *)
(* and of the server thread.                                               *)
Starting  == {"connect", "registerApplication", "registerAdvertisement",
              "startEvents", "startHttp"}
BeforeStop == Starting \cup {"installINT", "installTERM", "wait", "stopHttp"}
StoppingHttp == {"shutdownSocket", "closeSocket", "clearSocket", "joinHttp"}
StoppingHid == {"stopHid", "unregisterApplication", "unregisterAdvertisement",
                "leaveEventLoop", "joinEvents", "resetObjects", "destroy"}
Serving == {"while", "accept", "accepting", "recv", "execute", "respond", "closeClient"}

(* The connection and the event thread.                                    *)
HidUp ==
  /\ main \in (BeforeStop \ {"connect"}) \cup StoppingHttp => connection = "up"
  /\ main \in (BeforeStop \ Starting) \cup {"startHttp"} \cup StoppingHttp => hidRunning
  /\ event = "loop" =>
       /\ connection = "up" /\ hidRunning
       /\ main \notin (Starting \ {"startHttp"}) \cup {"resetObjects", "destroy"}
  /\ connection = "closed" => main = "destroy"
  /\ main \in StoppingHid => failing \/ main = "destroy" \/ hidRunning
  /\ failing => main \notin BeforeStop \ {"stopHttp"}

(* The server thread: started by startHttp, joined or left behind.         *)
ThreadHeld ==
  /\ main \in Starting => http = "none"
  /\ main \notin Starting /\ ~failing => http # "none"
  /\ joinable => http # "none"
  /\ ~joinable => http \in {"none", "done"}
  /\ main \in StoppingHid /\ joinable => ServerGaveUp

(* Before main stops it, the server thread ends for a failure only.        *)
StopsForFailure ==
  main \in BeforeStop =>
    /\ ~shut
    /\ http \in {"bind", "listen"} \cup Serving => serverFd /\ open
    /\ http \in {"testSocket", "close", "clear", "stopped"} => faults > 0
    /\ ~apiRunning /\ http # "none" => ServerGaveUp

(* The server socket and its descriptor.                                   *)
SocketHeld ==
  /\ open => serverFd
  /\ serverFd => http \notin {"none", "socket"}
  /\ main \in {"closeSocket", "clearSocket"} => http \notin {"none", "socket"}
  /\ main = "clearSocket" => ~open
  /\ http \in {"clear", "clearFailed", "stopped", "done"} => ~open

(* What unregistering leaves with BlueZ was refused.                       *)
Registrations ==
  /\ main = "unregisterAdvertisement" /\ "application" \in registered => faults > 0
  /\ \/ main \in {"leaveEventLoop", "joinEvents", "resetObjects"}
     \/ main = "destroy" /\ (connection = "closed" \/ ~failing)
     => Cardinality(registered) <= faults

DaemonInv ==
  /\ DaemonTypeOK
  /\ HidUp /\ ThreadHeld /\ StopsForFailure /\ SocketHeld /\ Registrations
  /\ EndsInOrder /\ NothingLeftRegistered

-----------------------------------------------------------------------------
(* The join of stop: what the server thread can still wait for, and how    *)
(* many steps it has left.                                                 *)

(* Only a thread that had passed the test of running_ before stop cleared  *)
(* it is in accept, and for that one the socket was there to be shut down. *)
Woken ==
  /\ main \in StoppingHttp => ~apiRunning
  /\ main \in BeforeStop \cup {"shutdownSocket"} /\ http \in Serving =>
       serverFd /\ open /\ listening
  /\ main \in StoppingHttp \ {"shutdownSocket"} /\ http \in {"accept", "accepting"} => shut

StepsLeft ==
  CASE http \in {"socket", "recv"} -> 9
    [] http \in {"bind", "execute"} -> 8
    [] http \in {"listen", "respond", "accept"} -> 7
    [] http \in {"closeClient", "accepting"} -> 6
    [] http = "while" -> 5
    [] http = "testSocket" -> 4
    [] http \in {"close", "closeFailed"} -> 3
    [] http \in {"clear", "clearFailed"} -> 2
    [] http = "stopped" -> 1
    [] OTHER -> 0

(* stop never waits for a thread that nobody wakes: in its join the server *)
(* thread accepts no further client, whenever the two threads met at the   *)
(* socket, and comes nearer its end with each of its steps; it waits for   *)
(* nothing but the client it serves.                                       *)
JoinComesToAnEnd ==
  [][main = "joinHttp" /\ joinable =>
       /\ http = "accepting" => shut
       /\ StepsLeft' <= StepsLeft
       /\ HttpStep => StepsLeft' < StepsLeft \/ fate' # "alive"]_vars
=============================================================================
