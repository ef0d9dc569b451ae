----------------------------- MODULE Subcommands -----------------------------
(***************************************************************************)
(* The wait and shutdown subcommands: processes of their own that talk to  *)
(* the HTTP endpoints of a running proxy, module SignalWrapper.  wait asks *)
(* /startup again and again until the proxy has started or its time is up; *)
(* shutdown posts to /quitquitquit once.                                   *)
(*                                                                         *)
(* A request and its answer are one step, taken when the handler looks at  *)
(* the proxy's state; the request may also fail on its own.                *)
(***************************************************************************)
EXTENDS SignalWrapper

Operators == {"signals", "wait", "shutdown", "service"}

\* Who operates the proxy besides the senders of signals, and its flags.
CONSTANT Scenarios

ASSUME ScenariosAssumption == Scenarios \subseteq Operators \X Configs

VARIABLES
    op,         \* who operates the proxy, fixed
    started,    \* whether Serve has called notify, which closes Check.started
    wait,       \* the wait command: "off", in its loop, or its result
    timer,      \* whether the timer of --max has fired
    shut        \* the result of the shutdown command: "off", "ok" or "failed"

subVars == <<op, started, wait, timer, shut>>

SubInit ==
    /\ Init
    /\ op \in {s \in Operators : <<s, conf>> \in Scenarios}
    /\ started = FALSE
    /\ wait = (IF op = "wait" THEN "select" ELSE "off") /\ timer = FALSE
    /\ shut = "off"
-----------------------------------------------------------------------------
\* Serve has started its accept loops and calls notify.
ServeNotifies ==
    /\ Running /\ serving = "serve" /\ ~started
    /\ started' = TRUE
    /\ UNCHANGED <<vars, op, wait, timer, shut>>

\* /startup answers 200.  Without the health check there is no such endpoint,
\* and notify does nothing.
HandleStartup == Running /\ server["http"] = "up" /\ conf.healthCheck /\ started

\* time.After(wait) fires.
WaitTimer ==
    /\ wait \notin {"off", "ok", "failed"} /\ ~timer
    /\ timer' = TRUE
    /\ UNCHANGED <<vars, op, started, wait, shut>>

\* The select with a default: the time is up, or another request.
WaitSelect ==
    /\ wait = "select"
    /\ wait' = IF timer THEN "failed" ELSE "get"
    /\ UNCHANGED <<vars, op, started, timer, shut>>

\* Mutant: any answer will do.
WaitGetAnswered ==
    /\ wait = "get"
    /\ \/ Running /\ server["http"] = "up" /\ wait' = "ok"
       \/ wait' = "sleep"
    /\ UNCHANGED <<vars, op, started, timer, shut>>

\* http.Get: 200, or another status or an error.
WaitGet ==
    /\ wait = "get"
    /\ \/ HandleStartup /\ wait' = "ok"
       \/ wait' = "sleep"
    /\ UNCHANGED <<vars, op, started, timer, shut>>

\* Mutant: every turn of the loop has a timer of its own.
WaitSleepRearms ==
    /\ wait = "sleep"
    /\ wait' = "select" /\ timer' = FALSE
    /\ UNCHANGED <<vars, op, started, shut>>

\* time.Sleep, and break out of the select.
WaitSleep ==
    /\ wait = "sleep"
    /\ wait' = "select"
    /\ UNCHANGED <<vars, op, started, timer, shut>>

\* A request of /quitquitquit after the first one only gets its 200.
QuitAgain ==
    /\ Running /\ conf.quitQuitQuit /\ server["admin"] = "up" /\ quitOnce # "new"
    /\ UNCHANGED vars

\* The handler of /quitquitquit runs, and the answer arrives or not; or the
\* request is refused, fails, or finds no such endpoint.
ShutdownCmd ==
    /\ op = "shutdown" /\ shut = "off"
    /\ \/ (Quit \/ QuitAgain) /\ shut' \in {"ok", "failed"}
       \/ shut' = "failed" /\ UNCHANGED vars
    /\ UNCHANGED <<op, started, wait, timer>>

Waiting == WaitSelect \/ WaitGet \/ WaitSleep

SubNext == ServeNotifies \/ WaitTimer \/ Waiting \/ ShutdownCmd
-----------------------------------------------------------------------------
(***************************************************************************)
(* Properties.                                                             *)
(***************************************************************************)

\* The wait command exits with zero only for a proxy that has started: main has
\* its client, and Serve has gone through its connection test and started the
\* accept loops.
WaitTruthful == wait = "ok" => started /\ p = "client" /\ serving # "off"

\* A shutdown command that exits with zero is followed by the exit of the proxy,
\* with its client closed, whatever else asks the proxy to stop meanwhile; but
\* for a request that the handler of /quitquitquit dropped because main was not
\* receiving yet.
ShutdownHonoured ==
    shut = "ok" ~> \/ main = "exited" /\ client = "closed"
                   \/ quitOnce = "dropped"

\* The wait command ends, whatever the proxy does meanwhile: it starts, fails,
\* never answers 200, or exits between two requests.
WaitEnds == op = "wait" ~> wait \in {"ok", "failed"}
-----------------------------------------------------------------------------
(***************************************************************************)
(* What the help says and the code does not do.                            *)
(***************************************************************************)

\* Help of wait: "The wait command requires that the Proxy be started in another
\* process with the HTTP health check or Prometheus enabled."  A proxy that has
\* started and whose HTTP server is up answers 200 then.
WaitNeedsHealthCheckOrPrometheus ==
    wait = "get" /\ Running /\ server["http"] = "up" /\ started => HandleStartup
==============================================================================
