--------------------------- MODULE HidDaemonProofs ---------------------------
(***************************************************************************)
(* The safety properties of HidDaemon for any number of clients and of     *)
(* failures.  DaemonInv is inductive: the lemmas take its conjuncts over   *)
(* the steps of main, of the server thread and of everybody else.          *)
(***************************************************************************)
EXTENDS HidDaemon, FiniteSetTheorems, TLAPS

USE DEF mainVars, apiVars, socketVars, hidVars, signalVars, clientVars,
        At, GoTo, HttpAt, HttpGoTo, Fail, NoFault

(* Everything but main, the server thread and what belongs to them.        *)
OthersStep ==
  \/ EventLoopEnds
  \/ \E signal \in Signal : Deliver(signal)
  \/ ClientConnects \/ ClientSends \/ ClientLeaves \/ ClientStalls

(* The conjuncts of DaemonInv on the places of the two threads.            *)
Places == HidUp /\ ThreadHeld /\ StopsForFailure /\ SocketHeld

-----------------------------------------------------------------------------
(* No step of another thread moves main, the server thread or the socket.  *)
LEMMA OthersFrame ==
  ASSUME OthersStep
  PROVE  /\ UNCHANGED <<main, failing, http, joinable, apiRunning, serverFd, open, shut,
                        listening, hidRunning, connection, leaveAsked, registered>>
         /\ promise' = promise \/ promise' = TRUE
         /\ event' = event \/ event' = "done"
         /\ faults' = faults \/ faults' = faults + 1
         /\ fate' = fate \/ fate' = "killed"
         /\ fate = "alive"
  BY DEF OthersStep, EventLoopEnds, Deliver, HandleSignal, SetValue, ClientConnects,
         ClientSends, ClientLeaves, ClientStalls, ClientDoes

(* No step of the server thread moves main or the HID server.              *)
LEMMA HttpFrame ==
  ASSUME DaemonTypeOK, HttpStep
  PROVE  /\ UNCHANGED <<main, failing, joinable, event, hidRunning, connection, registered,
                        shut>>
         /\ faults' = faults \/ faults' = faults + 1
         /\ fate' = fate \/ fate' = "killed"
         /\ fate = "alive"
  BY DEF DaemonTypeOK, FlagsOK, WorldOK, HttpStep, CreateSocket, Bind, Listen, Prepare, TestRunning,
         EnterAccept, Accept, AcceptFails, AcceptInterrupted, TestSocket, CloseByHttp,
         ClearByHttp, Stopped, Receive, CallEnds, Respond, CloseClient

(* Only the response of the server thread can end the process.             *)
LEMMA OnlyRespondKills ==
  ASSUME HttpStep, http # "respond"
  PROVE  fate' = fate
<1>1. ~Respond
  BY DEF Respond
<1> QED
  BY <1>1 DEF HttpStep, CreateSocket, Bind, Listen, Prepare, TestRunning, EnterAccept,
              Accept, AcceptFails, AcceptInterrupted, TestSocket, CloseByHttp, ClearByHttp,
              Stopped, Receive, CallEnds, CloseClient

(* A step of main, but for the last, leaves the process alive.             *)
LEMMA MainFrame ==
  ASSUME MainStep, ~Destroy
  PROVE  fate = "alive" /\ fate' = fate
  BY DEF MainStep, StartFails, Connect, RegisterApplication, RegisterAdvertisement,
         Register, StartEvents, StartHttp, Install, Wait, StopHttp, ShutdownSocket,
         CloseByMain, ClearByMain, JoinHttp, StopHid, Unregister, LeaveEventLoop,
         JoinEvents, ResetObjects

-----------------------------------------------------------------------------
(* Types, and the backlog is no longer than the clients that connected.    *)
LEMMA MainThreads ==
  ASSUME DaemonTypeOK, MainStep
  PROVE  ThreadsOK'
<1> USE DEF DaemonTypeOK, ThreadsOK
<1>1. CASE \E p \in {"connect", "registerApplication", "registerAdvertisement"} : StartFails(p)
  BY <1>1 DEF StartFails
<1>2. CASE Connect \/ RegisterApplication \/ RegisterAdvertisement
  BY <1>2 DEF Connect, RegisterApplication, RegisterAdvertisement, Register
<1>3. CASE StartEvents
  BY <1>3 DEF StartEvents
<1>4. CASE StartHttp
  BY <1>4 DEF StartHttp
<1>5. CASE Install("INT", "installINT", "installTERM") \/ Install("TERM", "installTERM", "wait")
  BY <1>5 DEF Install, Signal
<1>6. CASE Wait \/ StopHttp \/ ShutdownSocket
  BY <1>6 DEF Wait, StopHttp, ShutdownSocket
<1>7. CASE CloseByMain \/ ClearByMain \/ JoinHttp
  BY <1>7 DEF CloseByMain, CloseSocket, ClearByMain, JoinHttp
<1>8. CASE \/ Unregister("application", "unregisterApplication", "unregisterAdvertisement")
           \/ Unregister("advertisement", "unregisterAdvertisement", "leaveEventLoop")
  BY <1>8 DEF Unregister
<1>9. CASE StopHid \/ LeaveEventLoop \/ JoinEvents \/ ResetObjects
  BY <1>9 DEF StopHid, LeaveEventLoop, JoinEvents, ResetObjects
<1>10. CASE Destroy
  <2>1. fate' \in {"exited", "failed", "aborted", "crashed"}
    BY <1>10 DEF Destroy
  <2> QED
    BY <1>10, <2>1 DEF Destroy
<1> QED
  BY <1>1, <1>2, <1>3, <1>4, <1>5, <1>6, <1>7, <1>8, <1>9, <1>10 DEF MainStep

LEMMA MainFlags ==
  ASSUME DaemonTypeOK, MainStep
  PROVE  FlagsOK'
<1> USE DEF DaemonTypeOK, FlagsOK
<1>1. CASE \E p \in {"connect", "registerApplication", "registerAdvertisement"} : StartFails(p)
  BY <1>1 DEF StartFails
<1>2. CASE Connect \/ RegisterApplication \/ RegisterAdvertisement
  BY <1>2 DEF Connect, RegisterApplication, RegisterAdvertisement, Register
<1>3. CASE StartEvents
  BY <1>3 DEF StartEvents
<1>4. CASE StartHttp
  BY <1>4 DEF StartHttp
<1>5. CASE Install("INT", "installINT", "installTERM") \/ Install("TERM", "installTERM", "wait")
  BY <1>5 DEF Install, Signal
<1>6. CASE Wait \/ StopHttp \/ ShutdownSocket
  BY <1>6 DEF Wait, StopHttp, ShutdownSocket
<1>7. CASE CloseByMain \/ ClearByMain \/ JoinHttp
  BY <1>7 DEF CloseByMain, CloseSocket, ClearByMain, JoinHttp
<1>8. CASE \/ Unregister("application", "unregisterApplication", "unregisterAdvertisement")
           \/ Unregister("advertisement", "unregisterAdvertisement", "leaveEventLoop")
  BY <1>8 DEF Unregister
<1>9. CASE StopHid \/ LeaveEventLoop \/ JoinEvents \/ ResetObjects
  BY <1>9 DEF StopHid, LeaveEventLoop, JoinEvents, ResetObjects
<1>10. CASE Destroy
  BY <1>10 DEF Destroy
<1> QED
  BY <1>1, <1>2, <1>3, <1>4, <1>5, <1>6, <1>7, <1>8, <1>9, <1>10 DEF MainStep

LEMMA MainWorld ==
  ASSUME DaemonTypeOK, MainStep
  PROVE  WorldOK'
<1> USE DEF DaemonTypeOK, WorldOK
<1>1. CASE \E p \in {"connect", "registerApplication", "registerAdvertisement"} : StartFails(p)
  BY <1>1 DEF StartFails
<1>2. CASE Connect \/ RegisterApplication \/ RegisterAdvertisement
  BY <1>2 DEF Connect, RegisterApplication, RegisterAdvertisement, Register
<1>3. CASE StartEvents
  BY <1>3 DEF StartEvents
<1>4. CASE StartHttp
  BY <1>4 DEF StartHttp
<1>5. CASE Install("INT", "installINT", "installTERM") \/ Install("TERM", "installTERM", "wait")
  BY <1>5 DEF Install, Signal
<1>6. CASE Wait \/ StopHttp \/ ShutdownSocket
  BY <1>6 DEF Wait, StopHttp, ShutdownSocket
<1>7. CASE CloseByMain \/ ClearByMain \/ JoinHttp
  BY <1>7 DEF CloseByMain, CloseSocket, ClearByMain, JoinHttp
<1>8. CASE \/ Unregister("application", "unregisterApplication", "unregisterAdvertisement")
           \/ Unregister("advertisement", "unregisterAdvertisement", "leaveEventLoop")
  BY <1>8 DEF Unregister
<1>9. CASE StopHid \/ LeaveEventLoop \/ JoinEvents \/ ResetObjects
  BY <1>9 DEF StopHid, LeaveEventLoop, JoinEvents, ResetObjects
<1>10. CASE Destroy
  BY <1>10 DEF Destroy
<1> QED
  BY <1>1, <1>2, <1>3, <1>4, <1>5, <1>6, <1>7, <1>8, <1>9, <1>10 DEF MainStep

LEMMA MainCounters ==
  ASSUME DaemonTypeOK, MainStep
  PROVE  CountersOK'
<1> USE DEF DaemonTypeOK, CountersOK
<1>1. CASE \E p \in {"connect", "registerApplication", "registerAdvertisement"} : StartFails(p)
  BY <1>1, DaemonAssumption DEF StartFails
<1>2. CASE Connect \/ RegisterApplication \/ RegisterAdvertisement
  BY <1>2, DaemonAssumption DEF Connect, RegisterApplication, RegisterAdvertisement, Register
<1>3. CASE StartEvents
  BY <1>3, DaemonAssumption DEF StartEvents
<1>4. CASE StartHttp
  BY <1>4, DaemonAssumption DEF StartHttp
<1>5. CASE Install("INT", "installINT", "installTERM") \/ Install("TERM", "installTERM", "wait")
  BY <1>5, DaemonAssumption DEF Install, Signal
<1>6. CASE Wait \/ StopHttp \/ ShutdownSocket
  BY <1>6, DaemonAssumption DEF Wait, StopHttp, ShutdownSocket
<1>7. CASE CloseByMain \/ ClearByMain \/ JoinHttp
  BY <1>7, DaemonAssumption DEF CloseByMain, CloseSocket, ClearByMain, JoinHttp
<1>8. CASE \/ Unregister("application", "unregisterApplication", "unregisterAdvertisement")
           \/ Unregister("advertisement", "unregisterAdvertisement", "leaveEventLoop")
  BY <1>8, DaemonAssumption DEF Unregister
<1>9. CASE StopHid \/ LeaveEventLoop \/ JoinEvents \/ ResetObjects
  BY <1>9, DaemonAssumption DEF StopHid, LeaveEventLoop, JoinEvents, ResetObjects
<1>10. CASE Destroy
  BY <1>10 DEF Destroy
<1> QED
  BY <1>1, <1>2, <1>3, <1>4, <1>5, <1>6, <1>7, <1>8, <1>9, <1>10 DEF MainStep

LEMMA HttpThreads ==
  ASSUME DaemonTypeOK, HttpStep
  PROVE  ThreadsOK'
<1> USE DEF DaemonTypeOK, ThreadsOK
<1>1. CASE CreateSocket
  BY <1>1 DEF CreateSocket
<1>2. CASE Bind \/ Listen
  BY <1>2 DEF Bind, Listen, Prepare
<1>3. CASE TestRunning \/ EnterAccept \/ Accept
  BY <1>3 DEF TestRunning, EnterAccept, Accept
<1>4. CASE AcceptFails \/ AcceptInterrupted \/ TestSocket
  BY <1>4 DEF AcceptFails, AcceptInterrupted, TestSocket
<1>5. CASE CloseByHttp \/ ClearByHttp \/ Stopped
  BY <1>5 DEF CloseByHttp, CloseSocket, ClearByHttp, Stopped
<1>6. CASE Receive \/ CallEnds \/ Respond \/ CloseClient
  BY <1>6 DEF Receive, CallEnds, Respond, CloseClient
<1> QED
  BY <1>1, <1>2, <1>3, <1>4, <1>5, <1>6 DEF HttpStep

LEMMA HttpFlags ==
  ASSUME DaemonTypeOK, HttpStep
  PROVE  FlagsOK'
<1> USE DEF DaemonTypeOK, FlagsOK
<1>1. CASE CreateSocket
  BY <1>1 DEF CreateSocket
<1>2. CASE Bind \/ Listen
  BY <1>2 DEF Bind, Listen, Prepare
<1>3. CASE TestRunning \/ EnterAccept \/ Accept
  BY <1>3 DEF TestRunning, EnterAccept, Accept
<1>4. CASE AcceptFails \/ AcceptInterrupted \/ TestSocket
  BY <1>4 DEF AcceptFails, AcceptInterrupted, TestSocket
<1>5. CASE CloseByHttp \/ ClearByHttp \/ Stopped
  BY <1>5 DEF CloseByHttp, CloseSocket, ClearByHttp, Stopped
<1>6. CASE Receive \/ CallEnds \/ Respond \/ CloseClient
  BY <1>6 DEF Receive, CallEnds, Respond, CloseClient
<1> QED
  BY <1>1, <1>2, <1>3, <1>4, <1>5, <1>6 DEF HttpStep

LEMMA HttpWorld ==
  ASSUME DaemonTypeOK, HttpStep
  PROVE  WorldOK'
<1> USE DEF DaemonTypeOK, WorldOK
<1>1. CASE CreateSocket
  BY <1>1 DEF CreateSocket
<1>2. CASE Bind \/ Listen
  BY <1>2 DEF Bind, Listen, Prepare
<1>3. CASE TestRunning \/ EnterAccept \/ Accept
  BY <1>3 DEF TestRunning, EnterAccept, Accept
<1>4. CASE AcceptFails \/ AcceptInterrupted \/ TestSocket
  BY <1>4 DEF AcceptFails, AcceptInterrupted, TestSocket
<1>5. CASE CloseByHttp \/ ClearByHttp \/ Stopped
  BY <1>5 DEF CloseByHttp, CloseSocket, ClearByHttp, Stopped
<1>6. CASE Receive \/ CallEnds \/ Respond \/ CloseClient
  BY <1>6 DEF Receive, CallEnds, Respond, CloseClient
<1> QED
  BY <1>1, <1>2, <1>3, <1>4, <1>5, <1>6 DEF HttpStep

LEMMA HttpCounters ==
  ASSUME DaemonTypeOK, HttpStep
  PROVE  CountersOK'
<1> USE DEF DaemonTypeOK, CountersOK
<1>1. CASE CreateSocket
  BY <1>1, DaemonAssumption DEF CreateSocket
<1>2. CASE Bind \/ Listen
  BY <1>2, DaemonAssumption DEF Bind, Listen, Prepare
<1>3. CASE TestRunning \/ EnterAccept \/ Accept
  BY <1>3, DaemonAssumption DEF TestRunning, EnterAccept, Accept
<1>4. CASE AcceptFails \/ AcceptInterrupted \/ TestSocket
  BY <1>4, DaemonAssumption DEF AcceptFails, AcceptInterrupted, TestSocket
<1>5. CASE CloseByHttp \/ ClearByHttp \/ Stopped
  BY <1>5, DaemonAssumption DEF CloseByHttp, CloseSocket, ClearByHttp, Stopped
<1>6. CASE Receive \/ CallEnds \/ Respond \/ CloseClient
  BY <1>6, DaemonAssumption DEF Receive, CallEnds, Respond, CloseClient
<1> QED
  BY <1>1, <1>2, <1>3, <1>4, <1>5, <1>6 DEF HttpStep

LEMMA OthersTypes ==
  ASSUME DaemonTypeOK, OthersStep
  PROVE  DaemonTypeOK'
<1> USE DEF DaemonTypeOK
<1>1. ThreadsOK'
  BY OthersFrame DEF ThreadsOK
<1>4. FlagsOK'
  BY OthersFrame DEF FlagsOK
<1>2. WorldOK'
  BY DEF WorldOK, OthersStep, EventLoopEnds, Deliver, HandleSignal, SetValue, ClientConnects,
         ClientSends, ClientLeaves, ClientStalls, ClientDoes
<1>3. CountersOK'
  BY DaemonAssumption
     DEF CountersOK, OthersStep, EventLoopEnds, Deliver, HandleSignal, SetValue, ClientConnects,
         ClientSends, ClientLeaves, ClientStalls, ClientDoes
<1> QED
  BY <1>1, <1>2, <1>3, <1>4

-----------------------------------------------------------------------------
(* main: from connect to the signal that ends the wait.                    *)
LEMMA StartKeepsPlaces ==
  ASSUME DaemonInv,
         \/ \E p \in {"connect", "registerApplication", "registerAdvertisement"} :
              StartFails(p)
         \/ Connect \/ RegisterApplication \/ RegisterAdvertisement
         \/ StartEvents \/ StartHttp
         \/ Install("INT", "installINT", "installTERM")
         \/ Install("TERM", "installTERM", "wait")
         \/ Wait
  PROVE  Places'
<1> USE DEF DaemonInv, DaemonTypeOK, ThreadsOK, FlagsOK, WorldOK, CountersOK,
            Starting, BeforeStop, StoppingHttp, StoppingHid, Serving
<1>1. CASE \E p \in {"connect", "registerApplication", "registerAdvertisement"} :
             StartFails(p)
  BY <1>1 DEF StartFails, Places, HidUp, ThreadHeld, StopsForFailure, SocketHeld
<1>2. CASE Connect \/ RegisterApplication \/ RegisterAdvertisement
  <2>1. /\ UNCHANGED <<failing, http, joinable, event, apiRunning, hidRunning, serverFd,
                       open, shut, faults>>
        /\ main \in Starting /\ main' \in Starting \ {"connect", "startHttp"}
        /\ connection' = "up" /\ main' # main
    BY <1>2 DEF Connect, RegisterApplication, RegisterAdvertisement, Register, HidUp
  <2>2. ~failing /\ event # "loop" /\ http = "none" /\ ~joinable
    BY <2>1, <1>2
       DEF HidUp, ThreadHeld, Connect, RegisterApplication, RegisterAdvertisement, Register
  <2> QED
    BY <2>1, <2>2 DEF Places, HidUp, ThreadHeld, StopsForFailure, SocketHeld
<1>3. CASE StartEvents
  BY <1>3 DEF StartEvents, Places, HidUp, ThreadHeld, StopsForFailure, SocketHeld
<1>4. CASE StartHttp
  BY <1>4 DEF StartHttp, Places, HidUp, ThreadHeld, StopsForFailure, SocketHeld, ServerGaveUp
<1>5. CASE \/ Install("INT", "installINT", "installTERM")
           \/ Install("TERM", "installTERM", "wait")
           \/ Wait
  BY <1>5 DEF Install, Wait, Places, HidUp, ThreadHeld, StopsForFailure, SocketHeld,
              ServerGaveUp
<1> QED
  BY <1>1, <1>2, <1>3, <1>4, <1>5

(* main: HIDHttpApi::stop.                                                 *)
LEMMA StopHttpKeepsPlaces ==
  ASSUME DaemonInv,
         StopHttp \/ ShutdownSocket \/ CloseByMain \/ ClearByMain \/ JoinHttp
  PROVE  Places'
<1> USE DEF DaemonInv, DaemonTypeOK, ThreadsOK, FlagsOK, WorldOK, CountersOK,
            Starting, BeforeStop, StoppingHttp, StoppingHid, Serving
<1>1. CASE StopHttp
  BY <1>1 DEF StopHttp, Places, HidUp, ThreadHeld, StopsForFailure, SocketHeld, ServerGaveUp
<1>2. CASE ShutdownSocket
  BY <1>2 DEF ShutdownSocket, Places, HidUp, ThreadHeld, StopsForFailure, SocketHeld
<1>3. CASE CloseByMain
  BY <1>3 DEF CloseByMain, CloseSocket, Places, HidUp, ThreadHeld, StopsForFailure,
              SocketHeld
<1>5. CASE ClearByMain
  BY <1>5 DEF ClearByMain, Places, HidUp, ThreadHeld, StopsForFailure, SocketHeld
<1>4. CASE JoinHttp
  BY <1>4 DEF JoinHttp, Places, HidUp, ThreadHeld, StopsForFailure, SocketHeld
<1> QED
  BY <1>1, <1>2, <1>3, <1>4, <1>5

(* main: BluetoothHIDServer::stop and the destructors.                     *)
LEMMA StopHidKeepsPlaces ==
  ASSUME DaemonInv,
         \/ StopHid \/ LeaveEventLoop \/ JoinEvents \/ ResetObjects \/ Destroy
         \/ Unregister("application", "unregisterApplication", "unregisterAdvertisement")
         \/ Unregister("advertisement", "unregisterAdvertisement", "leaveEventLoop")
  PROVE  Places'
<1> USE DEF DaemonInv, DaemonTypeOK, ThreadsOK, FlagsOK, WorldOK, CountersOK,
            Starting, BeforeStop, StoppingHttp, StoppingHid, Serving
<1>1. CASE StopHid
  BY <1>1 DEF StopHid, Places, HidUp, ThreadHeld, StopsForFailure, SocketHeld, ServerGaveUp
<1>2. CASE \/ Unregister("application", "unregisterApplication", "unregisterAdvertisement")
           \/ Unregister("advertisement", "unregisterAdvertisement", "leaveEventLoop")
  BY <1>2 DEF Unregister, Places, HidUp, ThreadHeld, StopsForFailure, SocketHeld,
              ServerGaveUp
<1>3. CASE LeaveEventLoop \/ JoinEvents
  BY <1>3 DEF LeaveEventLoop, JoinEvents, Places, HidUp, ThreadHeld, StopsForFailure,
              SocketHeld, ServerGaveUp
<1>4. CASE ResetObjects
  BY <1>4 DEF ResetObjects, Places, HidUp, ThreadHeld, StopsForFailure, SocketHeld,
              ServerGaveUp
<1>5. CASE Destroy
  BY <1>5 DEF Destroy, Places, HidUp, ThreadHeld, StopsForFailure, SocketHeld, ServerGaveUp
<1> QED
  BY <1>1, <1>2, <1>3, <1>4, <1>5

(* The server thread: until main stops it, only a failure takes it out of  *)
(* its loop, and it gives its socket back on every way out.                *)
LEMMA HttpKeepsPlaces ==
  ASSUME DaemonInv, HttpStep
  PROVE  Places'
<1> USE DEF DaemonInv, DaemonTypeOK, ThreadsOK, FlagsOK, WorldOK, CountersOK,
            Starting, BeforeStop, StoppingHttp, StoppingHid, Serving
<1>0. HidUp'
  BY HttpFrame DEF HidUp
<1>1. CASE CreateSocket
  <2>1. ThreadHeld'
    BY <1>1 DEF CreateSocket, ThreadHeld, ServerGaveUp
  <2>2. StopsForFailure'
    BY <1>1 DEF CreateSocket, ThreadHeld, StopsForFailure, ServerGaveUp
  <2>3. SocketHeld'
    BY <1>1 DEF CreateSocket, SocketHeld
  <2> QED
    BY <1>0, <2>1, <2>2, <2>3 DEF Places
<1>2. CASE Bind \/ Listen
  BY <1>2, <1>0 DEF Bind, Listen, Prepare, Usable, Places, ThreadHeld, StopsForFailure,
                    SocketHeld, ServerGaveUp
<1>3. CASE TestRunning \/ EnterAccept
  BY <1>3, <1>0 DEF TestRunning, EnterAccept, Usable, Places, ThreadHeld, StopsForFailure,
                    SocketHeld, ServerGaveUp
<1>4. CASE Accept \/ AcceptFails \/ AcceptInterrupted
  BY <1>4, <1>0 DEF Accept, AcceptFails, AcceptInterrupted, Places, ThreadHeld,
                    StopsForFailure, SocketHeld, ServerGaveUp
<1>5. CASE TestSocket
  BY <1>5, <1>0 DEF TestSocket, Places, ThreadHeld, StopsForFailure, SocketHeld,
                    ServerGaveUp
<1>8. CASE CloseByHttp
  <2>1. ThreadHeld' /\ SocketHeld'
    BY <1>8 DEF CloseByHttp, CloseSocket, ThreadHeld, SocketHeld, ServerGaveUp
  <2>2. StopsForFailure'
    BY <1>8 DEF CloseByHttp, ThreadHeld, StopsForFailure, ServerGaveUp
  <2> QED
    BY <1>0, <2>1, <2>2 DEF Places
<1>6. CASE ClearByHttp \/ Stopped
  BY <1>6, <1>0 DEF ClearByHttp, Stopped, Places, ThreadHeld, StopsForFailure, SocketHeld,
                    ServerGaveUp
<1>7. CASE Receive \/ CallEnds \/ Respond \/ CloseClient
  <2>1. /\ UNCHANGED <<main, failing, joinable, apiRunning, serverFd, open, shut, faults>>
        /\ http \in Serving /\ http' \in Serving
    BY <1>7 DEF Receive, CallEnds, Respond, CloseClient
  <2> QED
    BY <2>1, <1>0 DEF Places, ThreadHeld, StopsForFailure, SocketHeld, ServerGaveUp
<1> QED
  BY <1>1, <1>2, <1>3, <1>4, <1>5, <1>6, <1>7, <1>8 DEF HttpStep

LEMMA OthersKeepPlaces ==
  ASSUME DaemonInv, OthersStep
  PROVE  Places'
<1>1. HidUp'
  BY OthersFrame DEF DaemonInv, HidUp
<1>2. ThreadHeld' /\ SocketHeld'
  BY OthersFrame
     DEF DaemonInv, DaemonTypeOK, CountersOK, ThreadHeld, SocketHeld, ServerGaveUp
<1>3. StopsForFailure'
  BY OthersFrame DEF DaemonInv, DaemonTypeOK, CountersOK, StopsForFailure, ServerGaveUp
<1> QED
  BY <1>1, <1>2, <1>3 DEF Places

-----------------------------------------------------------------------------
(* What BlueZ may have registered is a set of at most two elements.        *)
LEMMA AtMostTwo ==
  ASSUME NEW S, S \subseteq {"application", "advertisement"}, NEW n \in Nat,
         S # {} => n > 0,
         S = {"application", "advertisement"} => n > 1
  PROVE  Cardinality(S) <= n
<1>1. CASE S = {}
  BY <1>1, FS_EmptySet
<1>2. CASE S = {"application"} \/ S = {"advertisement"}
  <2>1. Cardinality(S) = 1
    BY <1>2, FS_Singleton
  <2> QED
    BY <1>2, <2>1
<1>3. CASE S = {"application", "advertisement"}
  <2>1. /\ IsFiniteSet({"application"}) /\ Cardinality({"application"}) = 1
        /\ S = {"application"} \cup {"advertisement"}
    BY <1>3, FS_Singleton
  <2>2. Cardinality(S) = Cardinality({"application"}) + 1
    BY <2>1, FS_AddElement
  <2> QED
    BY <1>3, <2>1, <2>2
<1> QED
  BY <1>1, <1>2, <1>3

(* A step that leaves main, failing, connection and registered alone.      *)
LEMMA RegistrationsFrame ==
  ASSUME DaemonInv, UNCHANGED <<main, failing, connection, registered>>,
         faults' = faults \/ faults' = faults + 1
  PROVE  Registrations'
<1>1. Cardinality(registered) \in Nat
  <2>1. registered \subseteq {"application", "advertisement"}
    BY DEF DaemonInv, DaemonTypeOK, WorldOK
  <2>2. IsFiniteSet({"application", "advertisement"})
    <3>1. IsFiniteSet({"application"} \cup {"advertisement"})
      BY FS_Singleton, FS_AddElement
    <3>2. {"application"} \cup {"advertisement"} = {"application", "advertisement"}
      OBVIOUS
    <3> QED
      BY <3>1, <3>2
  <2> QED
    BY <2>1, <2>2, FS_Subset, FS_CardinalityType
<1> QED
  BY <1>1 DEF DaemonInv, DaemonTypeOK, CountersOK, Registrations

(* What stays registered after both calls of unregisterFromBlueZ was       *)
(* refused: each refusal is a failure counted.                             *)
LEMMA MainRegistrations ==
  ASSUME DaemonInv, MainStep
  PROVE  Registrations'
<1> USE DEF DaemonInv, DaemonTypeOK, CountersOK, WorldOK
<1>1. CASE Unregister("application", "unregisterApplication", "unregisterAdvertisement")
  BY <1>1 DEF Unregister, Registrations
<1>2. CASE Unregister("advertisement", "unregisterAdvertisement", "leaveEventLoop")
  <2>1. /\ registered' \subseteq registered /\ main' = "leaveEventLoop"
        /\ registered \subseteq {"application", "advertisement"}
    BY <1>2 DEF Unregister
  <2>5. faults' \in Nat
    BY <1>2, DaemonAssumption DEF Unregister
  <2>2. "application" \in registered' => faults' > 0
    BY <1>2 DEF Unregister, Registrations
  <2>3. "advertisement" \in registered' =>
          faults' > 0 /\ ("application" \in registered' => faults' > 1)
    BY <1>2 DEF Unregister, Registrations
  <2>4. Cardinality(registered') <= faults'
    BY <2>1, <2>2, <2>3, <2>5, AtMostTwo
  <2> QED
    BY <2>1, <2>4 DEF Registrations
<1>3. CASE LeaveEventLoop \/ JoinEvents \/ ResetObjects
  BY <1>3 DEF LeaveEventLoop, JoinEvents, ResetObjects, Registrations
<1>4. CASE StopHid
  BY <1>4 DEF StopHid, Registrations, HidUp, StoppingHid
<1>5. CASE Destroy
  BY <1>5, RegistrationsFrame DEF Destroy
<1>6. CASE main' \notin {"unregisterAdvertisement", "leaveEventLoop", "joinEvents",
                       "resetObjects", "destroy"}
  BY <1>6 DEF Registrations
<1> QED
  BY <1>1, <1>2, <1>3, <1>4, <1>5, <1>6
     DEF MainStep, StartFails, Connect, RegisterApplication, RegisterAdvertisement,
         Register, StartEvents, StartHttp, Install, Wait, StopHttp, ShutdownSocket,
         CloseByMain, ClearByMain, JoinHttp

-----------------------------------------------------------------------------
(* The ways to end: they are looked at where the process is destroyed.     *)
LEMMA EndsKept ==
  ASSUME DaemonInv, Next
  PROVE  EndsInOrder' /\ NothingLeftRegistered'
<1> USE DEF DaemonInv, DaemonTypeOK, CountersOK
<1>1. CASE Destroy
  <2>1. /\ fate' = "aborted" => joinable
        /\ fate' = "exited" => ~joinable /\ ~failing
        /\ fate' = "crashed" => ~joinable /\ connection = "closed"
        /\ fate' \in {"aborted", "exited", "crashed", "failed"}
        /\ main = "destroy"
        /\ UNCHANGED <<http, event, open, registered, faults>>
    BY <1>1 DEF Destroy, FlagsOK
  <2>2. EndsInOrder'
    BY <2>1 DEF EndsInOrder, ServerGaveUp, ThreadHeld, SocketHeld, HidUp, Starting,
                StoppingHid
  <2>3. NothingLeftRegistered'
    BY <2>1 DEF NothingLeftRegistered, Registrations
  <2> QED
    BY <2>2, <2>3
<1>2. CASE fate' \in {"alive", "killed"}
  BY <1>2 DEF EndsInOrder, NothingLeftRegistered
<1> QED
  BY <1>1, <1>2, MainFrame, HttpFrame, OthersFrame DEF Next, OthersStep

-----------------------------------------------------------------------------
(* The invariant holds at the start and every step keeps it.               *)
LEMMA InitEstablishes == Init => DaemonInv
<1> SUFFICES ASSUME Init PROVE DaemonInv
  OBVIOUS
<1>1. DaemonTypeOK
  <2>1. ThreadsOK /\ FlagsOK /\ WorldOK
    BY DEF Init, ThreadsOK, FlagsOK, WorldOK
  <2>2. CountersOK
    BY DaemonAssumption DEF Init, CountersOK
  <2> QED
    BY <2>1, <2>2 DEF DaemonTypeOK
<1>2. Places
  BY DEF Init, Places, HidUp, ThreadHeld, StopsForFailure, SocketHeld, Starting,
         BeforeStop, StoppingHttp, StoppingHid, Serving
<1>3. Registrations /\ EndsInOrder /\ NothingLeftRegistered
  BY DEF Init, Registrations, EndsInOrder, NothingLeftRegistered
<1> QED
  BY <1>1, <1>2, <1>3 DEF DaemonInv, Places

LEMMA NextKeeps == DaemonInv /\ [Next]_vars => DaemonInv'
<1> SUFFICES ASSUME DaemonInv, [Next]_vars PROVE DaemonInv'
  OBVIOUS
<1>1. CASE Next
  <2>1. DaemonTypeOK'
    <3>1. CASE MainStep
      BY <3>1, MainThreads, MainFlags, MainWorld, MainCounters DEF DaemonInv, DaemonTypeOK
    <3>2. CASE HttpStep
      BY <3>2, HttpThreads, HttpFlags, HttpWorld, HttpCounters DEF DaemonInv, DaemonTypeOK
    <3>3. CASE OthersStep
      BY <3>3, OthersTypes DEF DaemonInv
    <3> QED
      BY <1>1, <3>1, <3>2, <3>3 DEF Next, OthersStep
  <2>2. Places'
    BY <1>1, StartKeepsPlaces, StopHttpKeepsPlaces, StopHidKeepsPlaces, HttpKeepsPlaces,
       OthersKeepPlaces DEF Next, MainStep, OthersStep
  <2>3. Registrations'
    <3>1. CASE MainStep
      BY <3>1, MainRegistrations
    <3>2. CASE HttpStep \/ OthersStep
      BY <3>2, HttpFrame, OthersFrame, RegistrationsFrame DEF DaemonInv
    <3> QED
      BY <1>1, <3>1, <3>2 DEF Next, OthersStep
  <2>4. EndsInOrder' /\ NothingLeftRegistered'
    BY <1>1, EndsKept
  <2> QED
    BY <2>1, <2>2, <2>3, <2>4 DEF DaemonInv, Places
<1>2. CASE UNCHANGED vars
  BY <1>2 DEF vars, DaemonInv, DaemonTypeOK, ThreadsOK, FlagsOK, WorldOK, CountersOK,
              HidUp, ThreadHeld, StopsForFailure, SocketHeld, Registrations, EndsInOrder,
              NothingLeftRegistered, ServerGaveUp
<1> QED
  BY <1>1, <1>2

(* The inductive invariant of the daemon.                                  *)
THEOREM DaemonInductive == Spec => []DaemonInv
  BY InitEstablishes, NextKeeps, PTL DEF Spec

(* Every variable of the daemon keeps its type, for any number of clients  *)
(* and failures.                                                           *)
THEOREM DaemonTyped == Spec => []DaemonTypeOK
<1>1. DaemonInv => DaemonTypeOK
  BY DEF DaemonInv
<1> QED
  BY <1>1, DaemonInductive, PTL

LEMMA InvIsLive == DaemonInv => CallsOnLiveConnection
<1> SUFFICES ASSUME DaemonInv, http = "execute" PROVE CallsOnLiveConnection
  BY DEF CallsOnLiveConnection
<1>1. main \notin StoppingHid /\ main \notin Starting
  BY DEF DaemonInv, ThreadHeld, ServerGaveUp
<1>2. main \in BeforeStop \cup StoppingHttp
  BY <1>1 DEF DaemonInv, DaemonTypeOK, ThreadsOK, Starting, BeforeStop, StoppingHttp,
              StoppingHid
<1> QED
  BY <1>1, <1>2
     DEF CallsOnLiveConnection, DaemonInv, HidUp, Starting, BeforeStop, StoppingHttp,
         StoppingHid

(* No request runs on a connection that main takes down: past the join     *)
(* only a thread that gave up is left.  The event thread runs only while   *)
(* the objects it answers with exist.                                      *)
THEOREM LiveObjects == Spec => []NothingUsedAfterStop
<1>1. DaemonInv => EventsOnLiveObjects
  BY DEF DaemonInv, HidUp, EventsOnLiveObjects
<1>2. DaemonInv => NothingUsedAfterStop
  BY <1>1, InvIsLive DEF NothingUsedAfterStop
<1> QED
  BY <1>2, DaemonInductive, PTL

(* However the process ends, no thread and no socket of it is left, unless *)
(* the server thread gave up by itself and std::terminate ends it.         *)
THEOREM Ends == Spec => []EndsInOrder
<1>1. DaemonInv => EndsInOrder
  BY DEF DaemonInv
<1> QED
  BY <1>1, DaemonInductive, PTL

(* A clean exit leaves only those registrations BlueZ refused to take back. *)
THEOREM TakenBack == Spec => []NothingLeftRegistered
<1>1. DaemonInv => NothingLeftRegistered
  BY DEF DaemonInv
<1> QED
  BY <1>1, DaemonInductive, PTL

-----------------------------------------------------------------------------
(* The join of stop comes to an end.                                       *)

LEMMA MainWakes ==
  ASSUME DaemonInv, Woken, MainStep PROVE Woken'
<1> USE DEF Woken, Starting, BeforeStop, StoppingHttp, Serving
<1>1. CASE \E p \in {"connect", "registerApplication", "registerAdvertisement"} : StartFails(p)
  BY <1>1 DEF StartFails
<1>2. CASE Connect \/ RegisterApplication \/ RegisterAdvertisement
  BY <1>2 DEF Connect, RegisterApplication, RegisterAdvertisement, Register
<1>3. CASE StartEvents \/ StartHttp
  <2>1. http = "none"
    BY <1>3 DEF StartEvents, StartHttp, DaemonInv, ThreadHeld
  <2> QED
    BY <1>3, <2>1 DEF StartEvents, StartHttp
<1>4. CASE Install("INT", "installINT", "installTERM") \/ Install("TERM", "installTERM", "wait")
  BY <1>4 DEF Install
<1>5. CASE Wait \/ StopHttp
  BY <1>5 DEF Wait, StopHttp
<1>9. CASE ShutdownSocket
  <2>1. /\ main = "shutdownSocket" /\ main' = IF serverFd THEN "closeSocket" ELSE "joinHttp"
        /\ UNCHANGED <<http, apiRunning, serverFd, open, listening>>
        /\ serverFd /\ open /\ listening => shut'
    BY <1>9 DEF ShutdownSocket
  <2> QED
    BY <2>1
<1>6. CASE CloseByMain \/ ClearByMain \/ JoinHttp
  BY <1>6 DEF CloseByMain, ClearByMain, JoinHttp
<1>7. CASE \/ Unregister("application", "unregisterApplication", "unregisterAdvertisement")
           \/ Unregister("advertisement", "unregisterAdvertisement", "leaveEventLoop")
  BY <1>7 DEF Unregister
<1>8. CASE StopHid \/ LeaveEventLoop \/ JoinEvents \/ ResetObjects \/ Destroy
  BY <1>8 DEF StopHid, LeaveEventLoop, JoinEvents, ResetObjects, Destroy
<1> QED
  BY <1>1, <1>2, <1>3, <1>4, <1>5, <1>6, <1>7, <1>8, <1>9 DEF MainStep

(* The server thread enters accept only while running_ is set.             *)
LEMMA HttpWakes ==
  ASSUME DaemonInv, Woken, HttpStep PROVE Woken'
<1> USE DEF Woken, Starting, BeforeStop, StoppingHttp, Serving
<1>1. CASE CreateSocket
  BY <1>1 DEF CreateSocket
<1>2. CASE Bind \/ Listen
  <2>1. /\ http' \in {"listen", "while", "closeFailed"}
        /\ http' = "while" => serverFd /\ open /\ listening'
        /\ UNCHANGED <<main, serverFd, open, shut>>
        /\ apiRunning' = apiRunning \/ ~apiRunning'
    BY <1>2 DEF Bind, Listen, Prepare, Usable
  <2> QED
    BY <2>1
<1>3. CASE TestRunning \/ EnterAccept \/ TestSocket
  BY <1>3 DEF TestRunning, EnterAccept, TestSocket
<1>4. CASE Accept \/ AcceptFails \/ AcceptInterrupted
  BY <1>4 DEF Accept, AcceptFails, AcceptInterrupted
<1>5. CASE CloseByHttp \/ ClearByHttp \/ Stopped
  <2>1. /\ http' \in {"clear", "clearFailed", "stopped", "done"}
        /\ main' = main
        /\ apiRunning' = apiRunning \/ ~apiRunning'
    BY <1>5 DEF CloseByHttp, ClearByHttp, Stopped
  <2> QED
    BY <2>1
<1>6. CASE Receive \/ CallEnds \/ Respond \/ CloseClient
  BY <1>6 DEF Receive, CallEnds, Respond, CloseClient
<1> QED
  BY <1>1, <1>2, <1>3, <1>4, <1>5, <1>6 DEF HttpStep

LEMMA NextWakes ==
  ASSUME DaemonInv, Woken, [Next]_vars PROVE Woken'
<1>1. CASE OthersStep
  BY <1>1, OthersFrame DEF Woken
<1>2. CASE UNCHANGED vars
  BY <1>2 DEF vars, Woken
<1> QED
  BY <1>1, <1>2, MainWakes, HttpWakes DEF Next, OthersStep

LEMMA InitWakes == Init => Woken
  BY DEF Init, Woken, StoppingHttp, Serving

LEMMA WokenAlways == Spec => [](DaemonInv /\ Woken)
<1> QED
  BY InitWakes, NextWakes, DaemonInductive, PTL DEF Spec

(* Each step of the server thread leaves it fewer, but for the one that    *)
(* accepts another client, which it cannot make in the join.               *)
LEMMA HttpEnds ==
  ASSUME DaemonTypeOK, Woken, HttpStep, main = "joinHttp"
  PROVE  StepsLeft' < StepsLeft \/ fate' # "alive"
<1>1. ~apiRunning /\ (http \in {"accept", "accepting"} => shut)
  BY DEF Woken, StoppingHttp
<1>2. CASE CreateSocket \/ Bind \/ Listen
  BY <1>2 DEF CreateSocket, Bind, Listen, Prepare, StepsLeft
<1>3. CASE TestRunning \/ EnterAccept \/ TestSocket
  BY <1>1, <1>3 DEF TestRunning, EnterAccept, TestSocket, StepsLeft
<1>4. CASE Accept \/ AcceptFails \/ AcceptInterrupted
  BY <1>1, <1>4 DEF Accept, AcceptFails, AcceptInterrupted, StepsLeft
<1>5. CASE CloseByHttp \/ ClearByHttp \/ Stopped
  BY <1>5 DEF CloseByHttp, ClearByHttp, Stopped, StepsLeft
<1>6. CASE Receive \/ CallEnds \/ CloseClient
  BY <1>6 DEF Receive, CallEnds, CloseClient, StepsLeft
<1>7. CASE Respond
  BY <1>7 DEF Respond, StepsLeft
<1> QED
  BY <1>2, <1>3, <1>4, <1>5, <1>6, <1>7 DEF HttpStep

(* In the join only its own steps move the server thread.                  *)
LEMMA OnlyHttpMoves ==
  ASSUME [Next]_vars, main = "joinHttp" PROVE HttpStep \/ http' = http
<1>1. MainStep => http' = http
  BY DEF MainStep, StartFails, Connect, RegisterApplication, RegisterAdvertisement,
         Register, StartEvents, StartHttp, Install, Wait, StopHttp, ShutdownSocket,
         CloseByMain, ClearByMain, JoinHttp, StopHid, Unregister, LeaveEventLoop,
         JoinEvents, ResetObjects, Destroy
<1> QED
  BY <1>1, OthersFrame DEF Next, OthersStep, vars, apiVars

(* stop() never waits in its join for a server thread that nobody wakes:   *)
(* it is not in accept on a socket that is still there, and each of its    *)
(* steps brings it nearer its end, however the two interleaved before.     *)
THEOREM JoinEnds == Spec => JoinComesToAnEnd
<1>1. DaemonInv /\ Woken /\ [Next]_vars =>
        [main = "joinHttp" /\ joinable =>
           /\ http = "accepting" => shut
           /\ StepsLeft' <= StepsLeft
           /\ HttpStep => StepsLeft' < StepsLeft \/ fate' # "alive"]_vars
  <2> SUFFICES ASSUME DaemonInv, Woken, [Next]_vars, main = "joinHttp", joinable
               PROVE  /\ http = "accepting" => shut
                      /\ StepsLeft' <= StepsLeft
                      /\ HttpStep => StepsLeft' < StepsLeft \/ fate' # "alive"
    BY Zenon
  <2>1. http = "accepting" => shut
    BY DEF Woken, StoppingHttp
  <2>2. StepsLeft \in Nat
    BY DEF StepsLeft
  <2>3. CASE HttpStep
    <3>1. StepsLeft' < StepsLeft \/ fate' # "alive"
      BY <2>3, HttpEnds DEF DaemonInv
    <3>2. fate' # "alive" => http' = http
      BY <2>3 DEF HttpStep, CreateSocket, Bind, Listen, Prepare, TestRunning, EnterAccept,
         Accept, AcceptFails, AcceptInterrupted, TestSocket, CloseByHttp, ClearByHttp,
         Stopped, Receive, CallEnds, Respond, CloseClient
    <3>3. http' = http => StepsLeft' = StepsLeft
      BY DEF StepsLeft
    <3>4. StepsLeft' \in Nat
      BY DEF StepsLeft
    <3>5. StepsLeft' <= StepsLeft
      BY <2>2, <3>1, <3>2, <3>3, <3>4
    <3> QED
      BY <2>1, <3>1, <3>5
  <2>4. CASE http' = http /\ ~HttpStep
    <3>1. StepsLeft' = StepsLeft
      BY <2>4 DEF StepsLeft
    <3> QED
      BY <2>1, <2>2, <2>4, <3>1
  <2> QED
    BY <2>3, <2>4, OnlyHttpMoves
<1> QED
  BY <1>1, WokenAlways, PTL DEF Spec, JoinComesToAnEnd
=============================================================================
