--------------------------- MODULE OperatorsProofs ---------------------------
(***************************************************************************)
(* What those who operate the command can rely on, for any scenarios: the  *)
(* command run by the subcommands and by the Windows service is still the  *)
(* command of module SignalWrapper, so that all its safety properties hold *)
(* of it; the subcommands' exit status is truthful; and a service that was *)
(* asked to stop ends only when the command has.                           *)
(***************************************************************************)
EXTENDS WindowsService, SignalWrapperProofs

\* Every step of the operators is a step of the command or leaves it alone.
LEMMA OperatorStep == [ServiceNext]_allVars => [Next]_vars
<1> SUFFICES ASSUME [ServiceNext]_allVars PROVE [Next]_vars
  OBVIOUS
<1>1. CASE OfCommand(Step /\ (op = "service" => signalled' = 0))
  BY <1>1 DEF OfCommand, Next
<1>2. CASE ServeNotifies \/ WaitTimer \/ Waiting
  BY <1>2 DEF ServeNotifies, WaitTimer, Waiting, WaitSelect, WaitGet, WaitSleep
<1>3. CASE ShutdownCmd
  BY <1>3 DEF ShutdownCmd, QuitAgain, Next, Step
<1>4. CASE Service
  BY <1>4 DEF Service, ServiceStart, ServiceRunning, ServiceResult, ServiceExit
<1>5. CASE ServiceStop
  BY <1>5 DEF ServiceStop, CancelCommand, Next
<1>6. CASE UNCHANGED allVars
  BY <1>6 DEF allVars
<1> QED
  BY <1>1, <1>2, <1>3, <1>4, <1>5, <1>6 DEF ServiceNext, SubNext

\* However it is operated, the command behaves as runSignalWrapper does alone.
THEOREM OperatedCommand == ServiceSpec => Spec
<1>1. ServiceInit => Init
  BY DEF ServiceInit, SubInit
<1> QED
  BY <1>1, OperatorStep, PTL DEF ServiceSpec, Spec

\* The properties of the command, whoever operates it: by signals, by the
\* subcommands or as a Windows service.
THEOREM OperatedSafely ==
    ServiceSpec => [](TypeOK /\ OneStartupOutcome /\ ClientClosedAtExit /\ ExitStatusEarned)
BY OperatedCommand, SWInvariance, SWConsequences, PTL
-----------------------------------------------------------------------------
(***************************************************************************)
(* The subcommands.                                                        *)
(***************************************************************************)

\* Serve runs only once main has the client, notify is called by Serve, and the
\* success of wait was an answer given after it.
Answers ==
    /\ serving # "off" => p = "client"
    /\ started => serving # "off"
    /\ wait = "ok" => started

\* They stay so.
LEMMA AnswersStep == SWInv /\ Answers /\ [ServiceNext]_allVars => Answers'
<1> SUFFICES ASSUME SWInv, Answers, [ServiceNext]_allVars PROVE Answers'
  OBVIOUS
<1> USE DEF SWInv, TypeOK, ClientHeld, Before, Holding, Answers, mainVars, netVars
<1>1. CASE UNCHANGED <<p, serving, started, wait>>
  BY <1>1
<1>2. ASSUME UNCHANGED subVars, Step PROVE Answers'
  <2> USE <1>2 DEF subVars
  <2>1. CASE Started
    BY <2>1 DEF Started
  <2>2. CASE LaunchServe
    BY <2>2 DEF LaunchServe
  <2>3. CASE ServeReturns
    BY <2>3 DEF ServeReturns
  <2> QED
    BY <1>1, <2>1, <2>2, <2>3 DEF Step, MainNext, LoadConfig, Telemetry, Prometheus, LaunchServer,
       Unwind, Close, Cancel, Receive, Watching, Watch, Signal, NewClientSucceeds, NewClientFails,
       CloseStartCh, ServerUp, ServerFails, ServerDown, Quit, SdNotify
<1>3. CASE ServeNotifies
  BY <1>3 DEF ServeNotifies, vars
<1>4. CASE WaitTimer \/ Waiting
  BY <1>4 DEF WaitTimer, Waiting, WaitSelect, WaitGet, WaitSleep, HandleStartup, vars
<1>5. CASE ShutdownCmd
  BY <1>5 DEF ShutdownCmd, Quit, QuitAgain, vars
<1>6. CASE Service
  BY <1>1, <1>6 DEF Service, ServiceStart, ServiceRunning, ServiceResult, ServiceExit, vars, subVars
<1>7. CASE ServiceStop
  BY <1>1, <1>7 DEF ServiceStop, CancelCommand, ParentCancel, vars, subVars
<1>8. CASE UNCHANGED allVars
  BY <1>1, <1>8 DEF allVars, vars, subVars
<1> QED
  BY <1>2, <1>3, <1>4, <1>5, <1>6, <1>7, <1>8 DEF ServiceNext, SubNext, OfCommand

\* wait succeeds only when the proxy has its client and Serve has called notify,
\* for any number of requests, signals and stops of the service in between.
THEOREM Truthful == ServiceSpec => []WaitTruthful
<1>1. ServiceInit => Answers
  BY DEF ServiceInit, SubInit, Init, Answers
<1>2. SWInv /\ Answers /\ [ServiceNext]_allVars => Answers'
  BY AnswersStep
<1>3. Answers => WaitTruthful
  BY DEF Answers, WaitTruthful
<1> QED
  BY <1>1, <1>2, <1>3, OperatedCommand, SWInvariance, PTL DEF ServiceSpec
-----------------------------------------------------------------------------
(***************************************************************************)
(* The Windows service.                                                    *)
(***************************************************************************)

\* A service that was asked to stop ends only when the command has returned and
\* the client it had is closed: Execute goes on with its loop after cancel().
StopAwaitsCommand ==
    svc = "stopped" /\ stopAsked => main = "exited" /\ (p = "client" => client = "closed")

\* Execute accepts a stop only when the command is launched, and leaves its loop
\* only with the command's result.
LoopAwaitsResult ==
    /\ stopAsked => svc \in {"Running", "StopPending", "stopped"}
    /\ svc = "StopPending" => main = "exited"
    /\ svc = "stopped" /\ stopAsked => main = "exited"

\* A command that has returned does nothing more.
LEMMA ExitedForGood == main = "exited" /\ [Next]_vars => main' = "exited"
<1> SUFFICES ASSUME main = "exited", [Next]_vars PROVE main' = "exited"
  OBVIOUS
<1> USE DEF mainVars
<1>1. ASSUME NEW g \in Servers, LaunchServer(g) PROVE FALSE
  BY <1>1 DEF LaunchServer, Servers
<1> QED
  BY <1>1 DEF Next, Step, MainNext, LoadConfig, Telemetry, Started, Prometheus, LaunchServe,
     Unwind, Close, Cancel, Receive, Watching, Watch, Signal, NewClientSucceeds, NewClientFails,
     CloseStartCh, ServerUp, ServerFails, ServerDown, Quit, ServeReturns, SdNotify, ParentCancel,
     Running, vars

\* The safety part of ServiceStops: no stop ends the process before the command
\* has returned and closed its client.
THEOREM StopIsOrderly == ServiceSpec => []StopAwaitsCommand
<1>1. ServiceInit => LoopAwaitsResult
  BY DEF ServiceInit, LoopAwaitsResult
<1>2. ASSUME LoopAwaitsResult, [ServiceNext]_allVars PROVE LoopAwaitsResult'
  <2>1. main = "exited" => main' = "exited"
    BY <1>2, OperatorStep, ExitedForGood
  <2> USE <1>2, <2>1 DEF LoopAwaitsResult, svcVars
  <2>2. CASE UNCHANGED svcVars
    BY <2>2
  <2>3. CASE Service
    BY <2>3 DEF Service, ServiceStart, ServiceRunning, ServiceResult, ServiceExit
  <2>4. CASE ServiceStop
    BY <2>4 DEF ServiceStop
  <2> QED
    BY <2>2, <2>3, <2>4 DEF ServiceNext, OfCommand, allVars
<1>3. LoopAwaitsResult /\ ClientClosedAtExit => StopAwaitsCommand
  BY DEF LoopAwaitsResult, ClientClosedAtExit, StopAwaitsCommand
<1> QED
  BY <1>1, <1>2, <1>3, OperatedSafely, PTL DEF ServiceSpec
==============================================================================
