----------------------------- MODULE MCOperators -----------------------------
(***************************************************************************)
(* Instances of WindowsService, and so of Subcommands and SignalWrapper,   *)
(* for TLC.  Two signals make the second one meet a full buffer or a       *)
(* watcher that is gone.                                                   *)
(*                                                                         *)
(* Nothing obliges a server that is asked for to come up or an exporter to *)
(* fail, so the behaviours without them are contained in those with them,  *)
(* and the scenario of signals needs only the flags that bring everything  *)
(* in.  The others leave out servers that they do not talk to; the signals *)
(* of the wait scenario meet --exit-zero-on-sigterm.                       *)
(***************************************************************************)
EXTENDS WindowsService

Conf(http, admin, zero) ==
    [telemetry |-> TRUE, prometheus |-> http \in {"prometheus", "both"},
     healthCheck |-> http \in {"health", "both"}, quitQuitQuit |-> admin = "quit",
     debug |-> admin = "debug", exitZero |-> zero]

WaitScenarios(http) == {<<"wait", Conf(http, "none", TRUE)>>}
PrometheusScenarios == WaitScenarios("prometheus")

OpScenarios ==
    {<<"signals", Conf("both", "quit", FALSE)>>}
    \cup WaitScenarios("health")
    \cup {<<"shutdown", Conf("none", a, FALSE)>> : a \in {"quit", "debug"}}
    \cup {<<"service", Conf("health", "quit", FALSE)>>}
==============================================================================
