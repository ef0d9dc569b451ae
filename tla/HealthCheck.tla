----------------------------- MODULE HealthCheck -----------------------------
(***************************************************************************)
(* healthcheck.Check next to the Client whose counter it reads, as         *)
(* runSignalWrapper puts them together: NotifyStarted is the notify        *)
(* callback of Serve, and NotifyStopped is deferred after Close and so     *)
(* runs before it.                                                         *)
(*                                                                         *)
(* A readiness request is handled in three steps, one per piece of shared  *)
(* state it looks at, with any steps of the Client in between.             *)
(***************************************************************************)
EXTENDS Client

VARIABLES
    started,        \* whether channel Check.started is closed
    stopped,        \* whether channel Check.stopped is closed
    probe,          \* where the handler of a readiness request is
    beganClosing    \* whether Close had been called when the request came in

hcVars  == <<started, stopped, probe, beganClosing>>
allVars == <<vars, hcVars>>

HCInit ==
    /\ Init
    /\ started = FALSE /\ stopped = FALSE
    /\ probe = "idle" /\ beganClosing = FALSE
-----------------------------------------------------------------------------
\* Mutant: Close is deferred after notifyStopped and so runs first.
StoppedFirstSwapped == TRUE

\* The deferred notifyStopped has run when Close is called.
StoppedFirst == closer = "idle" /\ closer' # "idle" => stopped

\* A step of the Client; the step in which Serve calls notify closes started.
ClientStep ==
    /\ Next
    /\ StoppedFirst
    /\ started' = (started \/ (serve = "notify" /\ serve' = "recv"))
    /\ UNCHANGED <<stopped, probe, beganClosing>>

NotifyStopped ==
    /\ ~stopped
    /\ stopped' = TRUE
    /\ UNCHANGED <<vars, started, probe, beganClosing>>

\* HandleReadiness, select on started.
ReadinessStarted ==
    /\ probe = "idle"
    /\ probe' = IF started THEN "stopped?" ELSE "unavailable"
    /\ beganClosing' = (closer # "idle")
    /\ UNCHANGED <<vars, started, stopped>>

\* HandleReadiness, select on stopped.
ReadinessStopped ==
    /\ probe = "stopped?"
    /\ probe' = IF stopped THEN "unavailable" ELSE "count?"
    /\ UNCHANGED <<vars, started, stopped, beganClosing>>

\* HandleReadiness, ConnCount: open == maxCount.
AtMaximum == MaxConnections > 0 /\ connCount = MaxConnections

\* HandleReadiness, the comparison with ConnCount and the answer.
ReadinessCount ==
    /\ probe = "count?"
    /\ probe' = IF AtMaximum THEN "unavailable" ELSE "ok"
    /\ UNCHANGED <<vars, started, stopped, beganClosing>>

\* The answer has been written and the handler is gone.
ProbeDone ==
    /\ probe \in {"ok", "unavailable"}
    /\ probe' = "idle"
    /\ UNCHANGED <<vars, started, stopped, beganClosing>>

HCNext ==
    \/ ClientStep \/ NotifyStopped
    \/ ReadinessStarted \/ ReadinessStopped \/ ReadinessCount \/ ProbeDone

HCSpec == HCInit /\ [][HCNext]_allVars
-----------------------------------------------------------------------------
\* A request that comes in after Close was called is never answered 200,
\* although the handler looks at its channels and the counter one by one.
NotReadyOnceClosing == probe = "ok" => ~beganClosing

\* The proxy is reported ready only once every mount has its accept loop.
ReadyMeansServing == probe = "ok" => \A m \in Mounts : accepting[m] # "off"

\* Comment on HandleReadiness: it ensures "that the proxy has not reached
\* maximum connections".
ReadyBelowMaximum ==
    [][probe = "count?" /\ probe' = "ok" => MaxConnections = 0 \/ connCount < MaxConnections]_allVars
==============================================================================
