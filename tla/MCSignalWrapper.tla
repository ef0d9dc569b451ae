--------------------------- MODULE MCSignalWrapper ---------------------------
(***************************************************************************)
(* The instance of SignalWrapper on which TLC looks for a /quitquitquit    *)
(* that is lost.  Module MCOperators has the larger ones.                  *)
(***************************************************************************)
EXTENDS SignalWrapper

\* An exporter that is asked for may fail to start or not, so the runs without
\* one are contained in the runs with one; and --debug only brings up an admin
\* server that has no /quitquitquit.
StepConfigs == {c \in Config : c.telemetry /\ ~c.debug}
==============================================================================
