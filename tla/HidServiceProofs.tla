-------------------------- MODULE HidServiceProofs --------------------------
(***************************************************************************)
(* The composition for any number of clients, failures, calls and texts:   *)
(* it implements the safety parts of HidDaemon and HidServer, and their    *)
(* inductive invariants together give its own properties, whatever the     *)
(* step limit; that the join gets on takes one that int represents.        *)
(***************************************************************************)
EXTENDS HidService, HidServerProofs

DaemonProofs ==
  INSTANCE HidDaemonProofs WITH MaxFaults <- MaxDaemonFaults, faults <- daemonFaults

-----------------------------------------------------------------------------
(* HidService and the proofs of HidDaemon instantiate the same operators.  *)
LEMMA SameVars == UNCHANGED Daemon!vars <=> UNCHANGED DaemonProofs!vars
  BY
     DEF Daemon!vars, Daemon!mainVars, Daemon!apiVars, Daemon!socketVars,
         Daemon!hidVars, Daemon!signalVars, Daemon!clientVars, DaemonProofs!vars,
         DaemonProofs!mainVars, DaemonProofs!apiVars, DaemonProofs!socketVars,
         DaemonProofs!hidVars, DaemonProofs!signalVars, DaemonProofs!clientVars
LEMMA SameInit == Daemon!Init <=> DaemonProofs!Init
  BY DEF Daemon!Init, DaemonProofs!Init
LEMMA SameNext == Daemon!Next <=> DaemonProofs!Next
  BY
     DEF Daemon!Next, Daemon!MainStep, Daemon!HttpStep, Daemon!StartFails,
         Daemon!Connect, Daemon!RegisterApplication, Daemon!RegisterAdvertisement,
         Daemon!Register, Daemon!StartEvents, Daemon!StartHttp, Daemon!Install,
         Daemon!Wait, Daemon!StopHttp, Daemon!ShutdownSocket, Daemon!CloseByMain,
         Daemon!ClearByMain, Daemon!JoinHttp, Daemon!StopHid, Daemon!Unregister,
         Daemon!LeaveEventLoop, Daemon!JoinEvents, Daemon!ResetObjects,
         Daemon!Destroy, Daemon!CreateSocket, Daemon!Bind, Daemon!Listen,
         Daemon!Prepare, Daemon!TestRunning, Daemon!EnterAccept, Daemon!Accept,
         Daemon!AcceptFails, Daemon!AcceptInterrupted, Daemon!TestSocket,
         Daemon!CloseByHttp, Daemon!ClearByHttp, Daemon!Stopped, Daemon!Receive,
         Daemon!CallEnds, Daemon!Respond, Daemon!CloseClient,
         Daemon!EventLoopEnds, Daemon!Deliver, Daemon!HandleSignal,
         Daemon!SetValue, Daemon!ClientConnects,
         Daemon!ClientSends, Daemon!ClientLeaves, Daemon!ClientStalls,
         Daemon!ClientDoes, Daemon!CloseSocket, Daemon!Usable, Daemon!At,
         Daemon!GoTo, Daemon!HttpAt, Daemon!HttpGoTo, Daemon!Fail, Daemon!NoFault,
         Daemon!Signal, Daemon!mainVars, Daemon!apiVars, Daemon!socketVars,
         Daemon!hidVars, Daemon!signalVars, Daemon!clientVars, DaemonProofs!Next,
         DaemonProofs!MainStep, DaemonProofs!HttpStep, DaemonProofs!StartFails,
         DaemonProofs!Connect, DaemonProofs!RegisterApplication,
         DaemonProofs!RegisterAdvertisement, DaemonProofs!Register,
         DaemonProofs!StartEvents, DaemonProofs!StartHttp, DaemonProofs!Install,
         DaemonProofs!Wait, DaemonProofs!StopHttp, DaemonProofs!ShutdownSocket,
         DaemonProofs!CloseByMain, DaemonProofs!ClearByMain,
         DaemonProofs!JoinHttp, DaemonProofs!StopHid, DaemonProofs!Unregister,
         DaemonProofs!LeaveEventLoop, DaemonProofs!JoinEvents,
         DaemonProofs!ResetObjects, DaemonProofs!Destroy,
         DaemonProofs!CreateSocket, DaemonProofs!Bind, DaemonProofs!Listen,
         DaemonProofs!Prepare, DaemonProofs!TestRunning, DaemonProofs!EnterAccept,
         DaemonProofs!Accept, DaemonProofs!AcceptFails,
         DaemonProofs!AcceptInterrupted, DaemonProofs!TestSocket,
         DaemonProofs!CloseByHttp, DaemonProofs!ClearByHttp, DaemonProofs!Stopped,
         DaemonProofs!Receive, DaemonProofs!CallEnds, DaemonProofs!Respond,
         DaemonProofs!CloseClient, DaemonProofs!EventLoopEnds,
         DaemonProofs!Deliver, DaemonProofs!HandleSignal, DaemonProofs!SetValue,
         DaemonProofs!ClientConnects,
         DaemonProofs!ClientSends, DaemonProofs!ClientLeaves,
         DaemonProofs!ClientStalls, DaemonProofs!ClientDoes,
         DaemonProofs!CloseSocket, DaemonProofs!Usable, DaemonProofs!At,
         DaemonProofs!GoTo, DaemonProofs!HttpAt, DaemonProofs!HttpGoTo,
         DaemonProofs!Fail, DaemonProofs!NoFault, DaemonProofs!Signal,
         DaemonProofs!mainVars, DaemonProofs!apiVars, DaemonProofs!socketVars,
         DaemonProofs!hidVars, DaemonProofs!signalVars, DaemonProofs!clientVars

(* A step of the service is a step of the process or leaves it alone.      *)
LEMMA DaemonStep == ServiceNext => [Daemon!Next]_(Daemon!vars)
<1>1. ASSUME BeginCall \/ EndCall PROVE Daemon!Next
  BY <1>1 DEF BeginCall, EndCall, Daemon!Next, Daemon!HttpStep
<1>2. ASSUME InCall \/ Subscription PROVE UNCHANGED Daemon!vars
  BY <1>2 DEF InCall, Subscription, daemonVars, Daemon!vars, Daemon!mainVars,
              Daemon!apiVars, Daemon!socketVars, Daemon!hidVars, Daemon!signalVars,
              Daemon!clientVars
<1> QED
  BY <1>1, <1>2 DEF ServiceNext, Outside

(* And a step of the execution path or leaves that alone.                  *)
LEMMA ServerStep == ServiceNext => [Next]_vars
<1>1. ASSUME BeginCall PROVE Next
  BY <1>1, ServiceAssumption DEF BeginCall, Next
<1>2. ASSUME InCall PROVE Next
  BY <1>2, ServiceAssumption DEF InCall, Next
<1>3. ASSUME Subscription PROVE Next
  BY <1>3 DEF Subscription, Next
<1> QED
  BY <1>1, <1>2, <1>3 DEF ServiceNext, EndCall, Outside

LEMMA ServiceFrame == UNCHANGED serviceVars => UNCHANGED Daemon!vars /\ UNCHANGED vars
  BY DEF serviceVars, daemonVars, Daemon!vars, Daemon!mainVars, Daemon!apiVars,
         Daemon!socketVars, Daemon!hidVars, Daemon!signalVars, Daemon!clientVars

(* The safety part of KeepsDaemon: with calls that run step by step the    *)
(* process is still the one of HidDaemon.                                  *)
THEOREM ImplementsDaemon == ServiceSpec => Daemon!Spec
<1>1. ServiceInit => Daemon!Init
  BY DEF ServiceInit
<1>2. [ServiceNext]_serviceVars => [Daemon!Next]_(Daemon!vars)
  BY DaemonStep, ServiceFrame
<1> QED
  BY <1>1, <1>2, PTL DEF ServiceSpec, Daemon!Spec

(* Inside the process the execution path is the one of HidServer.          *)
THEOREM ImplementsServer == ServiceSpec => Spec
<1>1. ServiceInit => Init
  BY DEF ServiceInit
<1>2. [ServiceNext]_serviceVars => [Next]_vars
  BY ServerStep, ServiceFrame
<1> QED
  BY <1>1, <1>2, PTL DEF ServiceSpec, Spec

(* So the invariants of both parts hold.                                   *)
LEMMA PartsHold == ServiceSpec => [](IInv /\ DaemonProofs!DaemonInv)
<1>1. ServiceSpec => []IInv
  BY ImplementsServer, Inductive, PTL
<1>2. ServiceInit => DaemonProofs!DaemonInv
  BY SameInit, DaemonProofs!InitEstablishes, ServiceAssumption DEF ServiceInit
<1>3. DaemonProofs!DaemonInv /\ [ServiceNext]_serviceVars => DaemonProofs!DaemonInv'
  <2>1. [ServiceNext]_serviceVars => [DaemonProofs!Next]_(DaemonProofs!vars)
    BY DaemonStep, ServiceFrame, SameNext, SameVars
  <2> QED
    BY <2>1, DaemonProofs!NextKeeps, ServiceAssumption
<1> QED
  BY <1>1, <1>2, <1>3, PTL DEF ServiceSpec

-----------------------------------------------------------------------------
(* Who is inside HidServer is inside a request, the only caller there is.  *)
LEMMA OwnerIsServing ==
  ASSUME IInv, CallInRequest, executionMutex # NoCaller
  PROVE  http = "execute"
  BY ServiceAssumption DEF IInv, TypeOK, LocalsOwned, CallInRequest

LEMMA CallsStayInside ==
  ASSUME IInv, DaemonProofs!DaemonInv, CallInRequest /\ EndsOutsideCall,
         [ServiceNext]_serviceVars
  PROVE  (CallInRequest /\ EndsOutsideCall)'
<1>1. CASE BeginCall
  <2>1. http' = "execute" /\ fate = "alive" /\ fate' = fate
    BY <1>1 DEF BeginCall, Daemon!Receive, Daemon!HttpAt
  <2> QED
    BY <2>1 DEF CallInRequest, EndsOutsideCall
<1>2. CASE EndCall
  <2>1. http' = "respond" /\ request' = request /\ request[serverThread] = NoRequest
    BY <1>2 DEF EndCall, Daemon!CallEnds, Daemon!HttpGoTo, vars
  <2> QED
    BY <2>1 DEF CallInRequest, EndsOutsideCall
<1>3. CASE InCall
  <2>1. UNCHANGED <<http, fate, handlers>>
    BY <1>3 DEF InCall, daemonVars
  <2>2. http = "execute"
    <3>1. CASE Lock(serverThread)
      BY <3>1 DEF Lock, CallInRequest
    <3>2. CASE OwnerStep
      <4>1. executionMutex # NoCaller
        BY <3>2 DEF OwnerStep, SkipChar, TypeChar, StepPointer, AdvancePointer, PressButton,
                    Store, CheckNotifying, SkipSignal, Emit, EmitThrows, Return, AtLoopHead,
                    IInv, LocalsOwned
      <4> QED
        BY <4>1, OwnerIsServing
    <3> QED
      BY <1>3, <3>1, <3>2 DEF InCall
  <2> QED
    BY <2>1, <2>2 DEF CallInRequest, EndsOutsideCall, Daemon!Signal
<1>4. CASE Subscription \/ UNCHANGED serviceVars
  <2>1. UNCHANGED <<http, fate, handlers, request>>
    BY <1>4 DEF Subscription, StartNotify, StopNotify, SetNotifying, daemonVars,
                serviceVars, vars
  <2> QED
    BY <2>1 DEF CallInRequest, EndsOutsideCall, Daemon!Signal
<1>5. CASE Outside(Daemon!Next)
  <2>1. request' = request /\ (http = "execute") = (http' = "execute")
    BY <1>5 DEF Outside, vars
  <2>2. CallInRequest'
    BY <2>1 DEF CallInRequest
  <2>3. fate = "alive" /\ http = "execute" =>
          fate' = fate \/ (fate' = "killed" /\ handlers' # Daemon!Signal)
    <3> SUFFICES ASSUME http = "execute"
                 PROVE  fate' = fate \/ (fate' = "killed" /\ handlers' # Daemon!Signal)
      OBVIOUS
    <3>1. CASE DaemonProofs!MainStep
      <4>1. ~DaemonProofs!Destroy
        BY DEF DaemonProofs!Destroy, DaemonProofs!At, DaemonProofs!DaemonInv,
               DaemonProofs!ThreadHeld, DaemonProofs!ServerGaveUp, DaemonProofs!StoppingHid
      <4> QED
        BY <3>1, <4>1, DaemonProofs!MainFrame, ServiceAssumption
    <3>2. CASE DaemonProofs!HttpStep
      BY <3>2, DaemonProofs!OnlyRespondKills, ServiceAssumption
    <3>3. CASE \E signal \in DaemonProofs!Signal : DaemonProofs!Deliver(signal)
      BY <3>3 DEF DaemonProofs!Deliver, DaemonProofs!HandleSignal,
                  DaemonProofs!SetValue, DaemonProofs!Signal, Daemon!Signal
    <3>4. CASE \/ DaemonProofs!EventLoopEnds \/ DaemonProofs!ClientConnects
               \/ DaemonProofs!ClientSends \/ DaemonProofs!ClientLeaves
               \/ DaemonProofs!ClientStalls
      BY <3>4
         DEF DaemonProofs!EventLoopEnds, DaemonProofs!ClientConnects,
             DaemonProofs!ClientSends, DaemonProofs!ClientLeaves,
             DaemonProofs!ClientStalls, DaemonProofs!ClientDoes
    <3> QED
      BY <1>5, SameNext, <3>1, <3>2, <3>3, <3>4 DEF Outside, DaemonProofs!Next
  <2>4. fate = "alive"
    BY <1>5, SameNext, DaemonProofs!MainFrame, DaemonProofs!HttpFrame,
       DaemonProofs!OthersFrame, ServiceAssumption
       DEF Outside, DaemonProofs!Next, DaemonProofs!OthersStep, DaemonProofs!DaemonInv,
           DaemonProofs!Destroy, DaemonProofs!At
  <2> QED
    BY <2>1, <2>2, <2>3, <2>4 DEF EndsOutsideCall, Daemon!Signal
<1> QED
  BY <1>1, <1>2, <1>3, <1>4, <1>5 DEF ServiceNext

(* A request alone runs calls, and only an early signal ends the process   *)
(* inside one.                                                             *)
LEMMA CallsHold == ServiceSpec => [](CallInRequest /\ EndsOutsideCall)
<1>1. ServiceInit => CallInRequest /\ EndsOutsideCall
  BY ServiceAssumption
     DEF ServiceInit, Init, Daemon!Init, CallInRequest, EndsOutsideCall
<1> QED
  BY <1>1, CallsStayInside, PartsHold, PTL DEF ServiceSpec

(* Reports go out on a live connection only, although no lock connects the *)
(* sending thread and the one that takes the connection down.              *)
THEOREM SendsLive == ServiceSpec => []SendsOnLiveConnection
<1>1. IInv /\ DaemonProofs!DaemonInv /\ CallInRequest => SendsOnLiveConnection
  <2> SUFFICES ASSUME IInv, DaemonProofs!DaemonInv, CallInRequest, fate = "alive", at # 0
               PROVE  connection = "up" /\ hidRunning
    BY DEF SendsOnLiveConnection
  <2>1. http = "execute"
    BY OwnerIsServing DEF IInv, LocalsOwned
  <2>2. DaemonProofs!CallsOnLiveConnection
    BY DaemonProofs!InvIsLive, ServiceAssumption
  <2> QED
    BY <2>1, <2>2 DEF DaemonProofs!CallsOnLiveConnection
<1> QED
  BY <1>1, PartsHold, CallsHold, PTL

(* However the process ends, nothing is left pressed, unless an early      *)
(* signal ended it inside a call.                                          *)
THEOREM PressedEarly == ServiceSpec => []PressedOnlyIfKilledEarly
<1>1. IInv /\ CallInRequest /\ EndsOutsideCall => PressedOnlyIfKilledEarly
  <2> SUFFICES ASSUME IInv, CallInRequest, http # "execute",
                      NEW ch \in Characteristic, faults[DeviceOf(ch)] = 0
               PROVE  /\ value[ch].held = Nothing
                      /\ ch \in stale \/ heard[ch].held = Nothing
    BY DEF PressedOnlyIfKilledEarly, EndsOutsideCall
  <2>1. executionMutex = NoCaller
    BY OwnerIsServing
  <2>2. value[ch].held = Nothing
    BY <2>1 DEF IInv, HeldOnlyWhenPressed, PressedNow
  <2>3. stage = "store"
    BY <2>1 DEF IInv, LocalsOwned
  <2> QED
    BY <2>2, <2>3 DEF IInv, HeardIsValue
<1> QED
  BY <1>1, PartsHold, CallsHold, PTL

-----------------------------------------------------------------------------
(* The join of stop with the call inside it: the places of the server      *)
(* thread, then whether a call waits for the mutex or has it, then what it *)
(* has still to do.                                                        *)
CallStage ==
  IF request[serverThread] = NoRequest THEN 0
  ELSE IF executionMutex = NoCaller THEN 2 ELSE 1
Nearer ==
  \/ DaemonProofs!StepsLeft' < DaemonProofs!StepsLeft
  \/ /\ DaemonProofs!StepsLeft' = DaemonProofs!StepsLeft
     /\ \/ CallStage' < CallStage
        \/ CallStage' = CallStage /\ WorkLeft' < WorkLeft
NotFarther ==
  UNCHANGED <<DaemonProofs!StepsLeft, CallStage, WorkLeft>>

(* While main waits in the join, every step that moves the server thread,  *)
(* the steps of its call included, brings it nearer its end, and no step   *)
(* of BlueZ, of a client or of a signal moves it away from there.          *)
threadPlace == <<http, request, executionMutex, localVars>>
JoinOfServiceEnds ==
  [][main = "joinHttp" /\ joinable /\ fate' = "alive" =>
       /\ http = "accepting" => shut
       /\ executionMutex # NoCaller => WorkLeft \in Nat
       /\ IF threadPlace' = threadPlace THEN NotFarther ELSE Nearer]_serviceVars

LEMMA WokenHolds == ServiceSpec => []DaemonProofs!Woken
<1>1. ServiceInit => DaemonProofs!Woken
  BY SameInit, DaemonProofs!InitWakes, ServiceAssumption DEF ServiceInit
<1>2. DaemonProofs!DaemonInv /\ DaemonProofs!Woken /\ [ServiceNext]_serviceVars
        => DaemonProofs!Woken'
  BY DaemonStep, ServiceFrame, SameNext, SameVars, DaemonProofs!NextWakes, ServiceAssumption
<1> QED
  BY <1>1, <1>2, PartsHold, PTL DEF ServiceSpec

LEMMA StaysNotFarther ==
  ASSUME threadPlace' = threadPlace PROVE NotFarther
BY DEF threadPlace, NotFarther, DaemonProofs!StepsLeft, CallStage, localVars, WorkLeft,
       ItemsLeft, IterationLeft, LastNotification, StagesLeft, UsedDevice

(* A step of the process: the call is left as it is.                       *)
LEMMA ProcessNearer ==
  ASSUME DaemonProofs!DaemonInv, DaemonProofs!Woken, main = "joinHttp", fate' = "alive",
         Daemon!Next, http' # http
  PROVE  Nearer
<1>1. DaemonProofs!HttpStep
  BY SameNext, DaemonProofs!OnlyHttpMoves, ServiceAssumption
<1>2. DaemonProofs!StepsLeft' < DaemonProofs!StepsLeft
  BY <1>1, DaemonProofs!HttpEnds, ServiceAssumption DEF DaemonProofs!DaemonInv
<1> QED
  BY <1>2 DEF Nearer

(* A step of the call: the process is left as it is.                       *)
LEMMA CallNearer ==
  ASSUME LimitFits, IInv, WorkMeasured', InCall, threadPlace' # threadPlace
  PROVE  Nearer
<1>1. http' = http /\ DaemonProofs!StepsLeft' = DaemonProofs!StepsLeft
  BY DEF InCall, daemonVars, DaemonProofs!StepsLeft
<1>2. CASE Lock(serverThread)
  <2>1. CallStage = 2 /\ CallStage' = 1
    BY <1>2, ServiceAssumption, ConstantsAssumption DEF Lock, CallStage, IInv, TypeOK
  <2> QED
    BY <1>1, <2>1 DEF Nearer
<1>3. CASE OwnerStep
  <2>1. executionMutex = serverThread /\ request[serverThread] # NoRequest
    BY <1>3, ServiceAssumption
       DEF OwnerStep, SkipChar, TypeChar, StepPointer, AdvancePointer, PressButton, Store,
           CheckNotifying, SkipSignal, Emit, EmitThrows, Return, AtLoopHead, IInv, TypeOK,
           LocalsOwned
  <2>2. CallStage = 1
    BY <2>1, ServiceAssumption, ConstantsAssumption DEF CallStage, IInv, TypeOK
  <2>3. CASE executionMutex' = executionMutex
    <3>1. request' = request
      BY <1>3, <2>1, <2>3, ServiceAssumption, ConstantsAssumption
         DEF OwnerStep, SkipChar, TypeChar, StepPointer, AdvancePointer, PressButton, Store,
             CheckNotifying, SkipSignal, Emit, EmitThrows, Return, Leave
    <3>2. localVars' # localVars
      BY <1>1, <2>3, <3>1 DEF threadPlace
    <3>3. WorkLeft' < WorkLeft
      <4>1. [Next]_vars
        BY <1>3 DEF Next
      <4>2. executionMutex # NoCaller
        BY <2>1, ServiceAssumption, ConstantsAssumption
      <4> QED
        BY <2>3, <3>2, <4>1, <4>2, CallGetsOn
    <3>4. CallStage' = CallStage
      BY <2>3, <3>1 DEF CallStage
    <3> QED
      BY <1>1, <3>3, <3>4 DEF Nearer
  <2>4. CASE executionMutex' # executionMutex
    <3>1. request' = [request EXCEPT ![serverThread] = NoRequest]
      BY <1>3, <2>1, <2>4
         DEF OwnerStep, SkipChar, TypeChar, StepPointer, AdvancePointer, PressButton, Store,
             CheckNotifying, SkipSignal, Emit, EmitThrows, Return, Leave
    <3>2. CallStage' = 0
      BY <3>1, ServiceAssumption DEF CallStage, IInv, TypeOK
    <3> QED
      BY <1>1, <2>2, <3>2 DEF Nearer
  <2> QED
    BY <2>3, <2>4
<1> QED
  BY <1>2, <1>3 DEF InCall

(* With a limit int represents, stop waits in its join for no call that    *)
(* does not end: with HidServer inside the server thread its way to the    *)
(* end is bounded all along.                                               *)
THEOREM ServiceJoinEnds ==
  ASSUME LimitFits PROVE ServiceSpec => JoinOfServiceEnds
<1>1. IInv /\ WorkMeasured' /\ DaemonProofs!DaemonInv /\ DaemonProofs!Woken /\
      [ServiceNext]_serviceVars =>
        [main = "joinHttp" /\ joinable /\ fate' = "alive" =>
           /\ http = "accepting" => shut
           /\ executionMutex # NoCaller => WorkLeft \in Nat
           /\ IF threadPlace' = threadPlace THEN NotFarther ELSE Nearer]_serviceVars
  <2> SUFFICES ASSUME IInv, WorkMeasured', DaemonProofs!DaemonInv, DaemonProofs!Woken,
                      [ServiceNext]_serviceVars, main = "joinHttp", fate' = "alive"
               PROVE  /\ http = "accepting" => shut
                      /\ executionMutex # NoCaller => WorkLeft \in Nat
                      /\ IF threadPlace' = threadPlace THEN NotFarther ELSE Nearer
    BY Zenon
  <2>1. http = "accepting" => shut
    BY DEF DaemonProofs!Woken, DaemonProofs!StoppingHttp
  <2>2. executionMutex # NoCaller => WorkLeft \in Nat
    BY WorkTypes
  <2>3. ASSUME threadPlace' # threadPlace PROVE Nearer
    <3>1. CASE BeginCall \/ EndCall
      <4>1. Daemon!Next /\ http' # http
        BY <3>1 DEF BeginCall, EndCall, Daemon!Next, Daemon!HttpStep, Daemon!Receive,
                    Daemon!CallEnds, Daemon!HttpAt, Daemon!HttpGoTo
      <4> QED
        BY <4>1, ProcessNearer
    <3>2. CASE InCall
      BY <2>3, <3>2, CallNearer
    <3>3. CASE Subscription
      BY <2>3, <3>3 DEF Subscription, StartNotify, StopNotify, SetNotifying, daemonVars,
                        threadPlace
    <3>4. CASE Outside(Daemon!Next)
      <4>1. Daemon!Next /\ http' # http
        BY <2>3, <3>4 DEF Outside, vars, threadPlace
      <4> QED
        BY <4>1, ProcessNearer
    <3>5. CASE UNCHANGED serviceVars
      BY <2>3, <3>5 DEF serviceVars, daemonVars, vars, threadPlace
    <3> QED
      BY <3>1, <3>2, <3>3, <3>4, <3>5 DEF ServiceNext
  <2> QED
    BY <2>1, <2>2, <2>3, StaysNotFarther
<1>2. IInv => WorkMeasured
  BY WorkTypes DEF WorkMeasured
<1> QED
  BY <1>1, <1>2, PartsHold, WokenHolds, PTL DEF ServiceSpec, JoinOfServiceEnds
=============================================================================
