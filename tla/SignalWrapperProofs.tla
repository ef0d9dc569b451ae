------------------------- MODULE SignalWrapperProofs -------------------------
(***************************************************************************)
(* The safety properties of module SignalWrapper for any number of signals *)
(* and any combination of flags.  Everything rests on where main is: the   *)
(* invariants below say what main, the startup goroutine, the client, the  *)
(* result and quitOnce can tell of one another.                            *)
(***************************************************************************)
EXTENDS SignalWrapper, TLAPS

\* main before it has the outcome of startup, while it has the client, and after
\* the deferred Close.
Before == {"config", "telemetry", "select"}
Holding == {"prometheus", "http", "admin", "serve", "recv", "sleep", "notifyStopped", "close"}
Leaving == {"flush", "cancel", "cleanup", "exited"}

\* The startup goroutine is started after the exporter.  It sends an error
\* only while it waits for main to take it, is past its send only when main has
\* received, and closes startCh only then.
StartupOrder ==
    /\ main \in {"config", "telemetry"} => start = "off"
    /\ sends["start"] # "none" => start = "sendErr"
    /\ startCh = "closed" => start = "done"
    /\ start \in {"return", "done"} => main \notin Before

\* main has the client exactly from the select to the deferred Close, which
\* closes it; by then the startup goroutine makes no other.
ClientHeld ==
    /\ p # "nil"
    /\ main \in Before => p = "none"
    /\ main \in Holding => p = "client"
    /\ p = "client" => start \in {"return", "done"}
    /\ main \in Leaving /\ p = "client" => client = "closed"

\* A message for systemd was decided on by the outcome of startup.
Messages ==
    /\ "READY" \in sdPending \cup sdSent => p = "client"
    /\ "STOPPING" \in sdPending \cup sdSent => p = "none" /\ main \in Leaving

\* An error that exits with zero is only ever the answer to a request: the
\* errors on their way to main and the result are backed by a signal or by
\* quitOnce, and main ends with some error.
ResultBacked ==
    /\ \A g \in Goroutines : sends[g] # "quit"
    /\ signals # {} => signalled > 0
    /\ \A g \in Goroutines : sends[g] = "sigtermzero" => conf.exitZero /\ signalled > 0
    /\ err = "sigtermzero" => conf.exitZero /\ signalled > 0
    /\ err = "quit" => quitOnce = "sent"
    /\ quitOnce = "sent" => err \in {"quit", "close"}
                            /\ main \in Leaving \cup {"sleep", "notifyStopped", "close"}
    /\ main \in Leaving \cup {"sleep", "notifyStopped", "close"} => err # "none"

\* The inductive invariant of the command.
SWInv == TypeOK /\ StartupOrder /\ ClientHeld /\ Messages /\ ResultBacked
-----------------------------------------------------------------------------
\* The initial states satisfy it.
LEMMA InitSW == Init => SWInv
<1> SUFFICES ASSUME Init PROVE SWInv
  OBVIOUS
<1>1. TypeOK
  <2>1. conf \in Config
    BY ConfigsAssumption DEF Init
  <2>2. sends \in [Goroutines -> Errs] /\ server \in [Servers -> {"off", "starting", "up", "failed", "down"}]
    BY DEF Init, Goroutines, Errs, Servers
  <2>3. signalled \in 0..MaxSignals
    BY SignalsAssumption DEF Init
  <2> QED
    BY <2>1, <2>2, <2>3 DEF Init, TypeOK, Places, Errs
<1>2. StartupOrder /\ ClientHeld /\ Messages
  BY DEF Init, StartupOrder, ClientHeld, Messages, Before, Holding, Leaving, Goroutines
<1>3. ResultBacked
  BY DEF Init, ResultBacked, Leaving, Goroutines
<1> QED
  BY <1>1, <1>2, <1>3 DEF SWInv

\* The variables keep their types.
LEMMA TypeStep == TypeOK /\ [Next]_vars => TypeOK'
<1> SUFFICES ASSUME TypeOK, [Next]_vars PROVE TypeOK'
  OBVIOUS
<1> USE SignalsAssumption DEF TypeOK, Places, Errs, Goroutines, Servers, mainVars, startVars, signalVars, netVars, sdVars
<1>1. CASE LoadConfig
  BY <1>1 DEF LoadConfig
<1>2. CASE Telemetry
  BY <1>2 DEF Telemetry
<1>3. CASE Started
  BY <1>3 DEF Started
<1>4. CASE Prometheus
  BY <1>4 DEF Prometheus
<1>5. CASE LaunchServe
  BY <1>5 DEF LaunchServe
<1>6. CASE Close
  BY <1>6 DEF Close
<1>7. CASE Cancel
  BY <1>7 DEF Cancel
<1>8. CASE Unwind
  <2>1. main' \in Places
    BY <1>8 DEF Unwind, After
  <2> QED
    BY <1>8, <2>1 DEF Unwind
<1>9. ASSUME NEW g \in Servers, LaunchServer(g) PROVE TypeOK'
  BY <1>9 DEF LaunchServer
<1>10. ASSUME NEW g \in Goroutines, Receive(g) PROVE TypeOK'
  <2>1. main' \in Places /\ err' \in Errs /\ sends' \in [Goroutines -> Errs]
    BY <1>10 DEF Receive
  <2>2. sdPending' \subseteq {"READY", "STOPPING"}
    BY <1>10 DEF Receive
  <2> QED
    BY <1>10, <2>1, <2>2 DEF Receive
<1>11. ASSUME NEW s \in {"SIGINT", "SIGTERM"}, Watch(s) PROVE TypeOK'
  <2>1. signals' \in {{}, {"SIGINT"}, {"SIGTERM"}}
    BY <1>11 DEF Watch
  <2>2. sends' \in [Goroutines -> Errs]
    BY <1>11 DEF Watch, SignalError
  <2> QED
    BY <1>11, <2>1, <2>2 DEF Watch
<1>12. ASSUME NEW s \in {"SIGINT", "SIGTERM"}, Signal(s) PROVE TypeOK'
  BY <1>12 DEF Signal
<1>13. CASE NewClientSucceeds
  BY <1>13 DEF NewClientSucceeds
<1>14. CASE CloseStartCh
  BY <1>14 DEF CloseStartCh
<1>15. CASE NewClientFails
  BY <1>15 DEF NewClientFails
<1>16. ASSUME NEW g \in Servers, ServerUp(g) PROVE TypeOK'
  BY <1>16 DEF ServerUp
<1>17. ASSUME NEW g \in Servers, ServerDown(g) PROVE TypeOK'
  BY <1>17 DEF ServerDown
<1>18. ASSUME NEW g \in Servers, ServerFails(g) PROVE TypeOK'
  BY <1>18 DEF ServerFails
<1>19. CASE Quit
  BY <1>19 DEF Quit
<1>20. CASE ServeReturns
  BY <1>20 DEF ServeReturns
<1>21. CASE ParentCancel
  BY <1>21 DEF ParentCancel
<1>22. ASSUME NEW x \in {"READY", "STOPPING"}, SdNotify(x) PROVE TypeOK'
  BY <1>22 DEF SdNotify
<1>23. CASE UNCHANGED vars
  BY <1>23 DEF vars
<1> QED
  BY <1>1, <1>2, <1>3, <1>4, <1>5, <1>8, <1>9, <1>10, <1>11, <1>12, <1>13, <1>15, <1>16, <1>18, <1>19,
     <1>20, <1>21, <1>22, <1>23, <1>6, <1>7, <1>14, <1>17 DEF Next, Step, MainNext, Watching

\* The startup goroutine and main keep the order of the two channels.
LEMMA StartupStep == TypeOK /\ StartupOrder /\ [Next]_vars => StartupOrder'
<1> SUFFICES ASSUME TypeOK, StartupOrder, [Next]_vars PROVE StartupOrder'
  OBVIOUS
<1> USE DEF TypeOK, StartupOrder, Before, Goroutines, mainVars, startVars
<1>1. CASE UNCHANGED <<main, start, startCh, sends>>
  BY <1>1
<1>2. CASE LoadConfig \/ Telemetry \/ Started \/ Prometheus \/ LaunchServe
  BY <1>2 DEF LoadConfig, Telemetry, Started, Prometheus, LaunchServe
<1>3. CASE Unwind
  <2>1. main' \notin Before
    BY <1>3 DEF Unwind, After
  <2> QED
    BY <1>3, <2>1 DEF Unwind
<1>4. CASE Close \/ Cancel
  BY <1>4 DEF Close, Cancel
<1>5. ASSUME NEW g \in Servers, LaunchServer(g) PROVE StartupOrder'
  BY <1>5 DEF LaunchServer, Servers
<1>6. ASSUME NEW g \in Goroutines, Receive(g) PROVE StartupOrder'
  BY <1>6 DEF Receive
<1>7. ASSUME NEW s \in {"SIGINT", "SIGTERM"}, Watch(s) PROVE StartupOrder'
  BY <1>7 DEF Watch
<1>8. CASE NewClientSucceeds \/ NewClientFails \/ CloseStartCh
  BY <1>8 DEF NewClientSucceeds, NewClientFails, CloseStartCh
<1>9. ASSUME NEW g \in Servers, ServerFails(g) PROVE StartupOrder'
  BY <1>9 DEF ServerFails, Servers
<1>10. CASE Quit \/ ServeReturns
  BY <1>10 DEF Quit, ServeReturns
<1>11. QED
  BY <1>1, <1>2, <1>3, <1>4, <1>5, <1>6, <1>7, <1>8, <1>9, <1>10 DEF Next, Step, MainNext,
     Watching, Signal, ServerUp, ServerDown, SdNotify, ParentCancel, vars

\* main holds the client from the select to Close.
LEMMA ClientStep == TypeOK /\ StartupOrder /\ ClientHeld /\ [Next]_vars => ClientHeld'
<1> SUFFICES ASSUME TypeOK, StartupOrder, ClientHeld, [Next]_vars PROVE ClientHeld'
  OBVIOUS
<1> USE DEF TypeOK, StartupOrder, ClientHeld, Places, Before, Holding, Leaving, mainVars, startVars
<1>1. CASE UNCHANGED <<main, p, start, client>>
  BY <1>1
<1>2. CASE LoadConfig \/ Telemetry \/ Prometheus \/ LaunchServe
  BY <1>2 DEF LoadConfig, Telemetry, Prometheus, LaunchServe
<1>3. CASE Started
  BY <1>3 DEF Started
<1>4. CASE Unwind
  BY <1>4 DEF Unwind, After
<1>5. CASE Close \/ Cancel
  BY <1>5 DEF Close, Cancel
<1>6. ASSUME NEW g \in Servers, LaunchServer(g) PROVE ClientHeld'
  BY <1>6 DEF LaunchServer, Servers
<1>7. ASSUME NEW g \in Goroutines, Receive(g) PROVE ClientHeld'
  BY <1>7 DEF Receive
<1>8. CASE NewClientSucceeds \/ NewClientFails \/ CloseStartCh
  BY <1>8 DEF NewClientSucceeds, NewClientFails, CloseStartCh
<1>9. CASE Quit
  BY <1>9 DEF Quit
<1>10. QED
  BY <1>1, <1>2, <1>3, <1>4, <1>5, <1>6, <1>7, <1>8, <1>9 DEF Next, Step, MainNext, Watching,
     Watch, Signal, ServerUp, ServerFails, ServerDown, ServeReturns, SdNotify, ParentCancel, vars

\* systemd is told what startup decided.
LEMMA MessagesStep == TypeOK /\ StartupOrder /\ ClientHeld /\ Messages /\ [Next]_vars => Messages'
<1> SUFFICES ASSUME TypeOK, StartupOrder, ClientHeld, Messages, [Next]_vars PROVE Messages'
  OBVIOUS
<1> USE DEF TypeOK, StartupOrder, ClientHeld, Messages, Places, Before, Holding, Leaving, mainVars, sdVars
<1>1. CASE UNCHANGED <<main, p, sdPending, sdSent>>
  BY <1>1
<1>2. CASE LoadConfig \/ Telemetry \/ Prometheus \/ LaunchServe
  BY <1>2 DEF LoadConfig, Telemetry, Prometheus, LaunchServe
<1>3. CASE Started
  BY <1>3 DEF Started
<1>4. CASE Unwind
  BY <1>4 DEF Unwind, After
<1>5. CASE Close \/ Cancel
  BY <1>5 DEF Close, Cancel
<1>6. ASSUME NEW g \in Servers, LaunchServer(g) PROVE Messages'
  BY <1>6 DEF LaunchServer, Servers
<1>7. ASSUME NEW g \in Goroutines, Receive(g) PROVE Messages'
  BY <1>7 DEF Receive
<1>8. CASE Quit
  BY <1>8 DEF Quit
<1>9. ASSUME NEW x \in {"READY", "STOPPING"}, SdNotify(x) PROVE Messages'
  BY <1>9 DEF SdNotify
<1>10. QED
  BY <1>1, <1>2, <1>3, <1>4, <1>5, <1>6, <1>7, <1>8, <1>9 DEF Next, Step, MainNext, Watching,
     Watch, Signal, ServerUp, ServerFails, ServerDown, ServeReturns, ParentCancel,
     NewClientSucceeds, NewClientFails, CloseStartCh, vars

\* Errors that exit with zero stay backed by the request they answer.
LEMMA ResultStep == TypeOK /\ ResultBacked /\ [Next]_vars => ResultBacked'
<1> SUFFICES ASSUME TypeOK, ResultBacked, [Next]_vars PROVE ResultBacked'
  OBVIOUS
<1> USE DEF TypeOK, ResultBacked, Places, Goroutines, Leaving, mainVars, signalVars, netVars
<1>1. CASE UNCHANGED <<conf, main, err, signals, signalled, sends, quitOnce>>
  BY <1>1
<1>2. CASE LoadConfig \/ Telemetry \/ Started \/ Prometheus \/ LaunchServe
  BY <1>2 DEF LoadConfig, Telemetry, Started, Prometheus, LaunchServe
<1>3. CASE Unwind
  BY <1>3 DEF Unwind, After
<1>4. CASE Close \/ Cancel
  BY <1>4 DEF Close, Cancel
<1>5. ASSUME NEW g \in Servers, LaunchServer(g) PROVE ResultBacked'
  BY <1>5 DEF LaunchServer, Servers
<1>6. ASSUME NEW g \in Goroutines, Receive(g) PROVE ResultBacked'
  BY <1>6 DEF Receive
<1>7. ASSUME NEW s \in {"SIGINT", "SIGTERM"}, Watch(s) PROVE ResultBacked'
  BY <1>7 DEF Watch, SignalError
<1>8. ASSUME NEW s \in {"SIGINT", "SIGTERM"}, Signal(s) PROVE ResultBacked'
  BY <1>8, SignalsAssumption DEF Signal
<1>9. CASE NewClientFails \/ ServeReturns
  BY <1>9 DEF NewClientFails, ServeReturns
<1>10. ASSUME NEW g \in Servers, ServerFails(g) PROVE ResultBacked'
  BY <1>10 DEF ServerFails, Servers
<1>11. CASE Quit
  BY <1>11 DEF Quit
<1>12. QED
  BY <1>1, <1>2, <1>3, <1>4, <1>5, <1>6, <1>7, <1>8, <1>9, <1>10, <1>11 DEF Next, Step, MainNext,
     Watching, ServerUp, ServerDown, NewClientSucceeds, CloseStartCh, SdNotify, ParentCancel, vars

\* Every step of the command preserves the invariant.
LEMMA StepSW == SWInv /\ [Next]_vars => SWInv'
BY TypeStep, StartupStep, ClientStep, MessagesStep, ResultStep DEF SWInv
-----------------------------------------------------------------------------
(***************************************************************************)
(* The properties.                                                         *)
(***************************************************************************)

\* The invariant gives each of the properties.
LEMMA SWConsequences ==
    SWInv => TypeOK /\ OneStartupOutcome /\ ClientClosedAtExit /\ ExitStatusEarned
<1> SUFFICES ASSUME SWInv PROVE OneStartupOutcome /\ ClientClosedAtExit /\ ExitStatusEarned
  BY DEF SWInv
<1> USE DEF SWInv
<1>1. OneStartupOutcome
  <2>1. p # "nil"
    BY DEF ClientHeld
  <2> QED
    BY <2>1 DEF OneStartupOutcome, Messages
<1>2. ClientClosedAtExit
  BY DEF ClientClosedAtExit, ClientHeld, Leaving
<1>3. ASSUME main = "exited", ExitCode(err) = 0
      PROVE quitOnce = "sent" \/ (conf.exitZero /\ signalled > 0)
  <2>1. err \in {"none", "sigtermzero", "quit"}
    BY <1>3 DEF ExitCode, TypeOK, Errs
  <2> QED
    BY <1>3, <2>1 DEF ResultBacked, Leaving
<1>4. ASSUME main = "exited", quitOnce = "sent" PROVE ExitCode(err) = 0 \/ err = "close"
  BY <1>4 DEF ResultBacked, ExitCode
<1> QED
  BY <1>1, <1>2, <1>3, <1>4 DEF ExitStatusEarned

\* The invariant holds throughout.
THEOREM SWInvariance == Spec => []SWInv
<1>1. Init => SWInv
  BY InitSW
<1>2. SWInv /\ [Next]_vars => SWInv'
  BY StepSW
<1> QED
  BY <1>1, <1>2, PTL DEF Spec

\* Every variable of the command keeps its type; the signals channel holds one
\* signal at most, however many are delivered.
THEOREM SWTypeCorrect == Spec => []TypeOK
BY SWInvariance, SWConsequences, PTL

\* Startup has one outcome: main never goes on with the nil of a closed startCh,
\* and systemd is not told both READY and STOPPING.
THEOREM StartupOutcome == Spec => []OneStartupOutcome
BY SWInvariance, SWConsequences, PTL

\* Every path by which the process exits closes the client that main received.
THEOREM ExitClosesClient == Spec => []ClientClosedAtExit
BY SWInvariance, SWConsequences, PTL

\* The process exits with zero only if it was asked to, and a /quitquitquit that
\* was taken exits with zero unless Close fails.
THEOREM ExitStatus == Spec => []ExitStatusEarned
BY SWInvariance, SWConsequences, PTL
==============================================================================
