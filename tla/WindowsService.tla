--------------------------- MODULE WindowsService ---------------------------
(***************************************************************************)
(* windowsService.Execute around the command: the service control manager  *)
(* asks for a stop, Execute cancels the context of the command and goes on *)
(* with its loop until the command has returned.  The command may be       *)
(* anywhere by then: loading its configuration, starting, serving, on its  *)
(* way out or gone.  An Interrogate request only repeats the status and is *)
(* left out; the other operators run the command without a service.        *)
(***************************************************************************)
EXTENDS Subcommands

VARIABLES
    svc,        \* where Execute is: the status it has reported, or "launched"
    stopAsked,  \* whether Stop or Shutdown was handled
    svcExit     \* the exit code Execute returns

svcVars == <<svc, stopAsked, svcExit>>
allVars == <<vars, subVars, svcVars>>

ServiceInit ==
    /\ SubInit
    /\ svc = IF op = "service" THEN "StartPending" ELSE "off"
    /\ stopAsked = FALSE /\ svcExit = 0
-----------------------------------------------------------------------------
\* os.Executable fails, or the goroutine of the command is started.
ServiceStart ==
    /\ svc = "StartPending"
    /\ \/ svc' = "stopped" /\ svcExit' = 101
       \/ svc' = "launched" /\ UNCHANGED svcExit
    /\ UNCHANGED <<vars, subVars, stopAsked>>

\* The status is Running: requests are accepted from here on.
ServiceRunning ==
    /\ svc = "launched"
    /\ svc' = "Running"
    /\ UNCHANGED <<vars, subVars, stopAsked, svcExit>>

\* cancel(); once ctx is done, or the command gone, it does nothing.
CancelCommand == ParentCancel \/ ((ctxDone \/ ~Running) /\ UNCHANGED vars)

\* Mutant: the request ends the loop.
ServiceStopBreaks ==
    /\ svc = "Running" /\ ~stopAsked
    /\ CancelCommand
    /\ stopAsked' = TRUE /\ svc' = "StopPending"
    /\ UNCHANGED <<subVars, svcExit>>

\* Stop or Shutdown: the context is cancelled and the loop goes on.  A second
\* request changes nothing.
ServiceStop ==
    /\ svc = "Running" /\ ~stopAsked
    /\ CancelCommand
    /\ stopAsked' = TRUE
    /\ UNCHANGED <<subVars, svc, svcExit>>

\* The result of the command comes out of cmdErrCh.
ServiceResult ==
    /\ svc = "Running" /\ main = "exited"
    /\ svc' = "StopPending"
    /\ UNCHANGED <<vars, subVars, stopAsked, svcExit>>

\* errors.Is(cmdErr, context.Canceled): none of the command's errors wraps it,
\* since exitError and MultiErr have no Unwrap, the errors of startup are
\* formatted with %v, and serveFuse does not exist on Windows.
WrapsCanceled(e) == e \notin Errs

\* Execute returns, and the process ends.
ServiceExit ==
    /\ svc = "StopPending"
    /\ svc' = "stopped" /\ svcExit' = IF WrapsCanceled(err) THEN 2 ELSE 0
    /\ UNCHANGED <<vars, subVars, stopAsked>>

Service == ServiceStart \/ ServiceRunning \/ ServiceResult \/ ServiceExit

\* A step A of the command or of one of its goroutines.
OfCommand(A) ==
    /\ svc \notin {"StartPending", "stopped"}
    /\ A
    /\ UNCHANGED <<subVars, svcVars>>

\* A service gets no signals.
ServiceNext ==
    \/ OfCommand(Step /\ (op = "service" => signalled' = 0))
    \/ SubNext /\ UNCHANGED svcVars
    \/ Service \/ ServiceStop

ServiceSpec == ServiceInit /\ [][ServiceNext]_allVars

(***************************************************************************)
(* As in SignalWrapper; Execute runs when it can, the timer of wait fires, *)
(* and each request of wait is answered or fails.                          *)
(***************************************************************************)
FairServiceSpec ==
    /\ ServiceSpec
    /\ WF_allVars(OfCommand(MainNext)) /\ WF_allVars(OfCommand(Watching))
    /\ WF_allVars(Service)
    /\ WF_allVars(Waiting /\ UNCHANGED svcVars) /\ WF_allVars(WaitTimer /\ UNCHANGED svcVars)
-----------------------------------------------------------------------------
\* A stop that the service control manager asks for at any moment stops the
\* service, and the process ends only when the command has returned and the
\* client it had is closed.
ServiceStops ==
    stopAsked ~> (svc = "stopped" /\ main = "exited" /\ (p = "client" => client = "closed"))
==============================================================================
