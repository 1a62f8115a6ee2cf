------------------------------ MODULE HidService ------------------------------
(***************************************************************************)
(* The HID service as a whole: the process of HidDaemon with the execution *)
(* path of HidServer inside it.  The server thread of HIDHttpApi is the    *)
(* only caller: where HidDaemon lets a call take a step of time, here it   *)
(* runs through HidServer step by step while main, the event thread and    *)
(* the signals go on.  BlueZ subscribes and unsubscribes as long as the    *)
(* event loop runs.                                                        *)
(***************************************************************************)
EXTENDS HidServer

CONSTANTS
  serverThread,     \* the server thread of HIDHttpApi
  MaxClients,       \* bound: connections made in a behaviour
  MaxDaemonFaults   \* bound: calls of the system or of D-Bus that fail

ASSUME ServiceAssumption ==
  Callers = {serverThread} /\ MaxClients \in Nat /\ MaxDaemonFaults \in Nat

VARIABLES
  fate, main, failing, http, joinable, event, apiRunning, hidRunning, serverFd,
  open, shut, listening, connection, leaveAsked, registered, handlers, promise,
  backlog, client, clients, daemonFaults

Daemon == INSTANCE HidDaemon WITH MaxFaults <- MaxDaemonFaults, faults <- daemonFaults

daemonVars ==
  <<fate, main, failing, http, joinable, event, apiRunning, hidRunning, serverFd,
    open, shut, listening, connection, leaveAsked, registered, handlers, promise,
    backlog, client, clients, daemonFaults>>
serviceVars == <<vars, daemonVars>>

ServiceInit == Init /\ Daemon!Init

-----------------------------------------------------------------------------
(* A request enters the HID server, whose check of enabled may refuse it.  *)
BeginCall ==
  /\ Daemon!Receive /\ http' = "execute"
  /\ Call(serverThread) \/ Refuse(serverThread)

(* The call has returned or thrown.                                        *)
EndCall ==
  /\ Daemon!CallEnds
  /\ request[serverThread] = NoRequest
  /\ UNCHANGED vars

(* The server thread inside the call.                                      *)
InCall ==
  /\ fate = "alive"
  /\ Lock(serverThread) \/ OwnerStep
  /\ UNCHANGED daemonVars

(* The event thread runs a method call of BlueZ.  Nobody reads notifying_  *)
(* of a disabled device, so its changes are left out.                      *)
Written(ch) == IF DeviceOf(ch) = "keyboard" THEN KeyboardEnabled ELSE MouseEnabled
Subscription ==
  /\ fate = "alive" /\ event = "loop" /\ "application" \in registered
  /\ \E ch \in {c \in Characteristic : Written(c)} : StartNotify(ch) \/ StopNotify(ch)
  /\ UNCHANGED daemonVars

(* Everything that neither begins nor ends a call.                         *)
Outside(step_) ==
  /\ step_
  /\ (http = "execute") = (http' = "execute")
  /\ UNCHANGED vars

ServiceNext ==
  \/ BeginCall \/ EndCall \/ InCall \/ Subscription
  \/ Outside(Daemon!Next)

(* The fairness of HidDaemon with that of HidServer in place of "a call    *)
(* returns": a thread that can run is scheduled.                           *)
MainStep == Outside(Daemon!MainStep /\ Daemon!NoFault)
ThreadStep ==
  BeginCall \/ EndCall \/ InCall \/ Outside(Daemon!HttpStep /\ Daemon!NoFault)

ServiceSpec ==
  /\ ServiceInit /\ [][ServiceNext]_serviceVars
  /\ WF_serviceVars(MainStep) /\ WF_serviceVars(ThreadStep)
  /\ WF_serviceVars(Outside(leaveAsked /\ Daemon!EventLoopEnds))
  /\ WF_serviceVars(Outside(Daemon!ClientSends))

-----------------------------------------------------------------------------
(* What the proofs add to the invariants of the two parts: a call is only  *)
(* inside a request, and only an early signal ends the process inside one. *)
CallInRequest == http # "execute" => request[serverThread] = NoRequest
EndsOutsideCall ==
  fate # "alive" => http # "execute" \/ (fate = "killed" /\ handlers # Daemon!Signal)

(* A report is stored and signalled only while the connection is up, with  *)
(* the event thread, the signals and main in any state: the order of the   *)
(* two stops in main and the join are all that protect it.                 *)
SendsOnLiveConnection ==
  fate = "alive" /\ at # 0 => connection = "up" /\ hidRunning

(* The process never ends with a key or a button down, as stored or as a   *)
(* subscribed host last heard, unless a signal of the device threw, or a   *)
(* termination signal came before both handlers were installed: main       *)
(* starts the HTTP server first, and a request may already run.  SIGPIPE   *)
(* comes after the call, std::terminate and the last destructors when no   *)
(* call runs.                                                              *)
PressedOnlyIfKilledEarly ==
  fate # "alive" =>
    \/ fate = "killed" /\ handlers # Daemon!Signal
    \/ \A ch \in Characteristic :
         faults[DeviceOf(ch)] = 0 =>
           /\ value[ch].held = Nothing
           /\ ch \in stale \/ heard[ch].held = Nothing

(* With calls that run through HidServer the service still implements      *)
(* HidDaemon, its fairness included: a call that began ends, so a handled  *)
(* signal ends the process (StopsInTheEnd) although it waits for the call.   *)
KeepsDaemon == Daemon!FairSpec
=============================================================================
