---------------------------- MODULE SignalWrapper ----------------------------
(***************************************************************************)
(* runSignalWrapper: the goroutine that runs the command, and the          *)
(* goroutines it starts, all of which report on the unbuffered channel     *)
(* shutdownCh: the signal watcher, the one that runs NewClient, the HTTP   *)
(* server, the admin server with its /quitquitquit handler, and the one    *)
(* that runs Serve.  main receives from shutdownCh at most once: in the    *)
(* select that waits for startup, or after everything has been started.    *)
(*                                                                         *)
(* The proxy.Client itself is module Client; here it is created, closed,   *)
(* and its Serve and Close may fail.                                       *)
(***************************************************************************)
EXTENDS Naturals

\* The command's flags that runSignalWrapper branches on.
Config == [telemetry : BOOLEAN, prometheus : BOOLEAN, healthCheck : BOOLEAN,
           quitQuitQuit : BOOLEAN, debug : BOOLEAN, exitZero : BOOLEAN]

CONSTANTS MaxSignals,   \* bound: signals the operating system delivers
          Configs       \* the combinations of flags to start from

ASSUME SignalsAssumption == MaxSignals \in Nat

ASSUME ConfigsAssumption == Configs \subseteq Config

VARIABLES
    conf,       \* the flags, fixed
    main,       \* where runSignalWrapper is
    err,        \* its named result
    p,          \* the client main received: "none", "client" or "nil"
    start,      \* the startup goroutine: "sendClient" at startCh <- p, "sendErr" at shutdownCh <- err
    startCh,    \* "open" or "closed"
    client,     \* the proxy.Client: "none", "open" or "closed"
    signals,    \* the buffer of the signals channel, at most one
    signalled,  \* signals delivered so far
    watcher,    \* the signal watcher: "off", "watch", "done" once past its select
    sends,      \* per goroutine, the error it is trying to send on shutdownCh
    ctxDone,    \* whether ctx is cancelled
    server,     \* per HTTP server: "off", "starting", "up", "failed", "down"
    serving,    \* the goroutine that runs Serve: "off", "serve", "returned"
    quitOnce,   \* the Once of /quitquitquit: "new", "sent" or "dropped"
    sdPending,  \* SdNotify messages whose goroutine has not run yet
    sdSent      \* SdNotify messages sent

mainVars   == <<main, err, p>>
startVars  == <<start, startCh, client>>
signalVars == <<signals, signalled, watcher>>
netVars    == <<server, serving, quitOnce>>
sdVars     == <<sdPending, sdSent>>
vars == <<conf, mainVars, startVars, signalVars, sends, ctxDone, netVars, sdVars>>

Goroutines == {"signal", "start", "http", "admin", "serve"}
Servers == {"http", "admin"}
Errs == {"none", "config", "telemetry", "start", "prometheus", "server", "serve", "close",
         "sigint", "sigterm", "sigtermzero", "quit"}
Places == {"config", "telemetry", "select", "prometheus", "http", "admin", "serve", "recv", "sleep",
           "notifyStopped", "close", "flush", "cancel", "cleanup", "exited"}

Init ==
    /\ conf \in Configs
    /\ main = "config" /\ err = "none" /\ p = "none"
    /\ start = "off" /\ startCh = "open" /\ client = "none"
    /\ signals = {} /\ signalled = 0 /\ watcher = "off"
    /\ sends = [g \in Goroutines |-> "none"]
    /\ ctxDone = FALSE
    /\ server = [g \in Servers |-> "off"]
    /\ serving = "off" /\ quitOnce = "new"
    /\ sdPending = {} /\ sdSent = {}

\* The other goroutines end with the process.
Running == main # "exited"
-----------------------------------------------------------------------------
(***************************************************************************)
(* main, up to the receive.                                                *)
(***************************************************************************)

\* loadConfig, before runSignalWrapper, fails or not.
LoadConfig ==
    /\ main = "config"
    /\ \/ main' = "telemetry" /\ UNCHANGED err
       \/ main' = "exited" /\ err' = "config"
    /\ UNCHANGED <<conf, p, startVars, signalVars, sends, ctxDone, netVars, sdVars>>

\* The exporter starts, or its error ends the command; then the signal watcher
\* and the startup goroutine are started.
Telemetry ==
    /\ main = "telemetry"
    /\ \/ /\ main' = "select" /\ start' = "NewClient" /\ watcher' = "watch"
          /\ UNCHANGED err
       \/ /\ conf.telemetry
          /\ main' = "cancel" /\ err' = "telemetry"
          /\ UNCHANGED <<start, watcher>>
    /\ UNCHANGED <<conf, p, startCh, client, signals, signalled, sends, ctxDone, netVars, sdVars>>

\* case p = <-startCh, which yields nil once startCh is closed.
Started ==
    /\ main = "select"
    /\ \/ /\ start = "sendClient"
          /\ p' = "client" /\ start' = "return"
       \/ /\ startCh = "closed"
          /\ p' = "nil" /\ UNCHANGED start
    /\ main' = "prometheus"
    /\ sdPending' = sdPending \cup {"READY"}
    /\ UNCHANGED <<conf, err, startCh, client, signalVars, sends, ctxDone, netVars, sdSent>>

\* Mutant: the deferred Close is set up after the exporter.
PrometheusNoClose ==
    /\ main = "prometheus"
    /\ \/ main' = "http" /\ UNCHANGED err
       \/ conf.prometheus /\ main' = "flush" /\ err' = "prometheus"
    /\ UNCHANGED <<conf, p, startVars, signalVars, sends, ctxDone, netVars, sdVars>>

\* prometheus.NewExporter may fail, when Close is deferred and notifyStopped is
\* not yet.
Prometheus ==
    /\ main = "prometheus"
    /\ \/ main' = "http" /\ UNCHANGED err
       \/ conf.prometheus /\ main' = "close" /\ err' = "prometheus"
    /\ UNCHANGED <<conf, p, startVars, signalVars, sends, ctxDone, netVars, sdVars>>

Needed(g) == IF g = "http" THEN conf.prometheus \/ conf.healthCheck
                           ELSE conf.quitQuitQuit \/ conf.debug

\* go startHTTPServer(...), if anything needs the server.
LaunchServer(g) ==
    /\ main = g
    /\ server' = IF Needed(g) THEN [server EXCEPT ![g] = "starting"] ELSE server
    /\ main' = IF g = "http" THEN "admin" ELSE "serve"
    /\ UNCHANGED <<conf, err, p, startVars, signalVars, sends, ctxDone, serving, quitOnce, sdVars>>

LaunchServe ==
    /\ main = "serve"
    /\ serving' = "serve"
    /\ main' = "recv"
    /\ UNCHANGED <<conf, err, p, startVars, signalVars, sends, ctxDone, server, quitOnce, sdVars>>

\* WaitBeforeClose is slept only for the errors that ask for a shutdown.
Requested(e) == e \in {"sigint", "sigterm", "sigtermzero", "quit"}

\* main receives the error that goroutine g is sending.
Receive(g) ==
    /\ sends[g] # "none"
    /\ sends' = [sends EXCEPT ![g] = "none"]
    /\ start' = IF g = "start" THEN "return" ELSE start
    /\ err' = sends[g]
    /\ \/ main = "select" /\ main' = "flush" /\ sdPending' = sdPending \cup {"STOPPING"}
       \/ /\ main = "recv"
          /\ main' = IF Requested(sends[g]) THEN "sleep" ELSE "notifyStopped"
          /\ UNCHANGED sdPending
    /\ UNCHANGED <<conf, p, startCh, client, signalVars, ctxDone, netVars, sdSent>>
-----------------------------------------------------------------------------
(***************************************************************************)
(* main, after the receive: WaitBeforeClose and the deferred calls.        *)
(***************************************************************************)

After(place) ==
    CASE place = "sleep" -> "notifyStopped" [] place = "notifyStopped" -> "close"
      [] place = "flush" -> "cancel"        [] place = "cleanup" -> "exited"

\* The sleep, notifyStopped, the exporter's flush, cmd.cleanup.
Unwind ==
    /\ main \in {"sleep", "notifyStopped", "flush", "cleanup"}
    /\ main' = After(main)
    /\ UNCHANGED <<conf, err, p, startVars, signalVars, sends, ctxDone, netVars, sdVars>>

\* p.Close(); its error replaces the result.
Close ==
    /\ main = "close"
    /\ client' = "closed"
    /\ err' \in {err, "close"}
    /\ main' = "flush"
    /\ UNCHANGED <<conf, p, start, startCh, signalVars, sends, ctxDone, netVars, sdVars>>

Cancel ==
    /\ main = "cancel"
    /\ main' = "cleanup"
    /\ ctxDone' = TRUE
    /\ UNCHANGED <<conf, err, p, startVars, signalVars, sends, netVars, sdVars>>

\* Mutant: SIGTERM exits with zero whether or not --exit-zero-on-sigterm is set.
ExitCodeZeroTerm(e) == CASE e = "none" -> 0 [] e = "sigint" -> 130
                         [] e \in {"sigterm", "sigtermzero", "quit"} -> 0 [] OTHER -> 1

\* The exit status Execute gives for the result.
ExitCode(e) == CASE e = "none" -> 0 [] e = "sigint" -> 130 [] e = "sigterm" -> 143
                 [] e \in {"sigtermzero", "quit"} -> 0 [] OTHER -> 1
-----------------------------------------------------------------------------
(***************************************************************************)
(* Signals and cancellation.                                               *)
(***************************************************************************)

\* Mutant: every signal is queued.
SignalQueued(s) ==
    /\ Running /\ watcher # "off" /\ signalled < MaxSignals
    /\ signalled' = signalled + 1
    /\ signals' = signals \cup {s}
    /\ UNCHANGED <<conf, mainVars, startVars, watcher, sends, ctxDone, netVars, sdVars>>

\* signal.Notify drops a signal that finds the buffer of one full.
Signal(s) ==
    /\ Running /\ watcher # "off" /\ signalled < MaxSignals
    /\ signalled' = signalled + 1
    /\ signals' = IF signals = {} THEN {s} ELSE signals
    /\ UNCHANGED <<conf, mainVars, startVars, watcher, sends, ctxDone, netVars, sdVars>>

\* The context given to the command is cancelled, as the Windows service does.
ParentCancel ==
    /\ Running /\ ~ctxDone
    /\ ctxDone' = TRUE
    /\ UNCHANGED <<conf, mainVars, startVars, signalVars, sends, netVars, sdVars>>

SignalError(s) == IF s = "SIGINT" THEN "sigint"
                  ELSE IF conf.exitZero THEN "sigtermzero" ELSE "sigterm"

\* Mutant: the watcher gives up when main is not receiving.
WatchNonBlocking(s) ==
    /\ Running /\ watcher = "watch"
    /\ \/ s \in signals /\ signals' = signals \ {s}
       \/ s = "SIGINT" /\ ctxDone /\ UNCHANGED signals
    /\ watcher' = "done"
    /\ sends' = IF main \in {"select", "recv"} THEN [sends EXCEPT !["signal"] = SignalError(s)]
                                                ELSE sends
    /\ UNCHANGED <<conf, mainVars, startVars, signalled, ctxDone, netVars, sdVars>>

\* The watcher takes one signal, or the cancellation for a SIGINT, and goes on
\* to send.  It never watches again.
Watch(s) ==
    /\ Running /\ watcher = "watch"
    /\ \/ s \in signals /\ signals' = signals \ {s}
       \/ s = "SIGINT" /\ ctxDone /\ UNCHANGED signals
    /\ watcher' = "done"
    /\ sends' = [sends EXCEPT !["signal"] = SignalError(s)]
    /\ UNCHANGED <<conf, mainVars, startVars, signalled, ctxDone, netVars, sdVars>>
-----------------------------------------------------------------------------
(***************************************************************************)
(* The startup goroutine.                                                  *)
(***************************************************************************)

NewClientSucceeds ==
    /\ Running /\ start = "NewClient"
    /\ client' = "open" /\ start' = "sendClient"
    /\ UNCHANGED <<conf, mainVars, startCh, signalVars, sends, ctxDone, netVars, sdVars>>

\* Mutant: the error is sent by a goroutine of its own, startCh closed meanwhile.
NewClientFailsAsync ==
    /\ Running /\ start = "NewClient"
    /\ sends' = [sends EXCEPT !["start"] = "start"]
    /\ start' = "return"
    /\ UNCHANGED <<conf, mainVars, startCh, client, signalVars, ctxDone, netVars, sdVars>>

NewClientFails ==
    /\ Running /\ start = "NewClient"
    /\ sends' = [sends EXCEPT !["start"] = "start"]
    /\ start' = "sendErr"
    /\ UNCHANGED <<conf, mainVars, startCh, client, signalVars, ctxDone, netVars, sdVars>>

\* The deferred close(startCh).
CloseStartCh ==
    /\ Running /\ start = "return"
    /\ start' = "done" /\ startCh' = "closed"
    /\ UNCHANGED <<conf, mainVars, client, signalVars, sends, ctxDone, netVars, sdVars>>
-----------------------------------------------------------------------------
(***************************************************************************)
(* The HTTP servers, Serve and systemd.                                    *)
(***************************************************************************)

ServerUp(g) ==
    /\ Running /\ server[g] = "starting"
    /\ server' = [server EXCEPT ![g] = "up"]
    /\ UNCHANGED <<conf, mainVars, startVars, signalVars, sends, ctxDone, serving, quitOnce, sdVars>>

\* ListenAndServe returns an error that is not ErrServerClosed.
ServerFails(g) ==
    /\ Running /\ server[g] \in {"starting", "up"}
    /\ server' = [server EXCEPT ![g] = "failed"]
    /\ sends' = [sends EXCEPT ![g] = "server"]
    /\ UNCHANGED <<conf, mainVars, startVars, signalVars, ctxDone, serving, quitOnce, sdVars>>

\* <-ctx.Done(), then server.Shutdown: ListenAndServe returns ErrServerClosed.
ServerDown(g) ==
    /\ Running /\ ctxDone /\ server[g] \in {"starting", "up"}
    /\ server' = [server EXCEPT ![g] = "down"]
    /\ UNCHANGED <<conf, mainVars, startVars, signalVars, sends, ctxDone, serving, quitOnce, sdVars>>

\* Mutant: the send is to a channel that main does not receive from.
QuitUnreceived ==
    /\ Running /\ conf.quitQuitQuit /\ server["admin"] = "up" /\ quitOnce = "new"
    /\ quitOnce' = "sent"
    /\ UNCHANGED <<conf, mainVars, startVars, signalVars, sends, ctxDone, server, serving, sdVars>>

\* The first POST or GET of /quitquitquit: a send that does not wait.  Later
\* ones find quitOnce spent and only answer 200.
Quit ==
    /\ Running /\ conf.quitQuitQuit /\ server["admin"] = "up" /\ quitOnce = "new"
    /\ \/ main = "recv" /\ main' = "sleep" /\ err' = "quit" /\ quitOnce' = "sent"
       \/ main # "recv" /\ quitOnce' = "dropped" /\ UNCHANGED <<main, err>>
    /\ UNCHANGED <<conf, p, startVars, signalVars, sends, ctxDone, server, serving, sdVars>>

\* Serve returns, by itself or because Close closed its listeners.
ServeReturns ==
    /\ Running /\ serving = "serve"
    /\ serving' = "returned"
    /\ sends' = [sends EXCEPT !["serve"] = "serve"]
    /\ UNCHANGED <<conf, mainVars, startVars, signalVars, ctxDone, server, quitOnce, sdVars>>

SdNotify(x) ==
    /\ Running /\ x \in sdPending
    /\ sdPending' = sdPending \ {x} /\ sdSent' = sdSent \cup {x}
    /\ UNCHANGED <<conf, mainVars, startVars, signalVars, sends, ctxDone, netVars>>
-----------------------------------------------------------------------------
MainNext ==
    \/ LoadConfig \/ Telemetry \/ Started \/ Prometheus \/ LaunchServe \/ Unwind \/ Close \/ Cancel
    \/ \E g \in Servers : LaunchServer(g)
    \/ \E g \in Goroutines : Receive(g)

Watching == \E s \in {"SIGINT", "SIGTERM"} : Watch(s)

\* Everything but the cancellation of the context that the command is given.
Step ==
    \/ MainNext
    \/ Watching \/ \E s \in {"SIGINT", "SIGTERM"} : Signal(s)
    \/ NewClientSucceeds \/ NewClientFails \/ CloseStartCh
    \/ \E g \in Servers : ServerUp(g) \/ ServerFails(g) \/ ServerDown(g)
    \/ Quit \/ ServeReturns
    \/ \E x \in {"READY", "STOPPING"} : SdNotify(x)

Next == Step \/ ParentCancel

Spec == Init /\ [][Next]_vars

(***************************************************************************)
(* main and the watcher run when they can, and Close returns (CloseReturns *)
(* of module Client).  NewClient may wait for the network for ever, and    *)
(* nothing obliges a server to come up, to fail, or a message to be sent.  *)
(***************************************************************************)
FairSpec == Spec /\ WF_vars(MainNext) /\ WF_vars(Watching)
-----------------------------------------------------------------------------
(***************************************************************************)
(* Properties.                                                             *)
(***************************************************************************)

\* Every variable keeps its type; the signals channel holds one signal at most.
TypeOK ==
    /\ conf \in Config
    /\ main \in Places /\ err \in Errs /\ p \in {"none", "client", "nil"}
    /\ start \in {"off", "NewClient", "sendClient", "sendErr", "return", "done"}
    /\ startCh \in {"open", "closed"} /\ client \in {"none", "open", "closed"}
    /\ signals \in {{}, {"SIGINT"}, {"SIGTERM"}} /\ signalled \in 0..MaxSignals
    /\ watcher \in {"off", "watch", "done"}
    /\ sends \in [Goroutines -> Errs] /\ ctxDone \in BOOLEAN
    /\ server \in [Servers -> {"off", "starting", "up", "failed", "down"}]
    /\ serving \in {"off", "serve", "returned"} /\ quitOnce \in {"new", "sent", "dropped"}
    /\ sdPending \subseteq {"READY", "STOPPING"} /\ sdSent \subseteq {"READY", "STOPPING"}

\* Startup has one outcome.  main never goes on with the nil that a closed
\* startCh yields, since the startup goroutine closes it only after main has
\* taken the error or the client; and systemd is told READY only when main has
\* a client and STOPPING only when it has none, so never both.
OneStartupOutcome ==
    /\ p # "nil"
    /\ "READY" \in sdSent => p = "client"
    /\ "STOPPING" \in sdSent => p = "none"

\* A client that main received is closed before the process exits, on every
\* path: signals, /quitquitquit, server and Serve errors, a failed exporter.
ClientClosedAtExit == main = "exited" /\ p = "client" => client = "closed"

\* The exit status tells why the process ended: zero only if /quitquitquit, or
\* SIGTERM under --exit-zero-on-sigterm, asked for it; and a /quitquitquit that
\* was taken ends with zero unless Close failed.
ExitStatusEarned ==
    main = "exited" =>
        /\ ExitCode(err) = 0 => quitOnce = "sent" \/ (conf.exitZero /\ signalled > 0)
        /\ quitOnce = "sent" => ExitCode(err) = 0 \/ err = "close"

\* Whenever main asks to be stopped, by a signal, by the cancellation of its
\* context or by an error of any of its goroutines, the process exits, also
\* when that happens during startup or while it is already shutting down.
ShutdownCompletes ==
    (signals # {} \/ ctxDone \/ \E g \in Goroutines : sends[g] # "none") ~> main = "exited"
-----------------------------------------------------------------------------
(***************************************************************************)
(* What a comment of the code says and the code does not do.               *)
(***************************************************************************)

\* Comment in quitquitquit: "The write attempt to shutdownCh failed and the
\* proxy is already exiting."
DroppedQuitMeansExiting ==
    quitOnce = "dropped" => main \in {"sleep", "notifyStopped", "close", "flush", "cancel",
                                      "cleanup", "exited"}
==============================================================================
