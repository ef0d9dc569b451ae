-------------------------- MODULE HealthCheckProofs --------------------------
(***************************************************************************)
(* What the readiness endpoint says, for any number of connections and     *)
(* mounts.  The handler looks at three pieces of shared state one by one;  *)
(* it is right because each of them, once it has changed, stays changed.   *)
(***************************************************************************)
EXTENDS HealthCheck, ClientProofs

\* notifyStopped ran before Close was called, so that a request that came in
\* later finds stopped closed, whenever it looks.
StoppedBeforeClose ==
    /\ closer # "idle" => stopped
    /\ beganClosing => stopped
    /\ probe \in {"count?", "ok"} => ~beganClosing

\* Serve notifies when every accept loop runs, and a request gets past its first
\* select only after that.
Loops == \A m \in Mounts : accepting[m] # "off"
StartedAfterLoops ==
    /\ serve = "notify" => Loops
    /\ started => Loops
    /\ probe \in {"stopped?", "count?", "ok"} => started

\* The inductive invariant of the health check, next to that of the Client.
HCInv == started \in BOOLEAN /\ stopped \in BOOLEAN /\ StoppedBeforeClose /\ StartedAfterLoops
-----------------------------------------------------------------------------
\* A step next to the health check is a step of the Client or leaves it alone.
LEMMA HealthStep == [HCNext]_allVars => [Next]_vars
BY DEF HCNext, ClientStep, NotifyStopped, ReadinessStarted, ReadinessStopped, ReadinessCount, ProbeDone, allVars

\* The health check does not disturb the Client: all that is proved of the Client
\* holds of the Client with its health check.
THEOREM HealthKeepsClient == HCSpec => Spec
<1>1. HCInit => Init
  BY DEF HCInit
<1> QED
  BY <1>1, HealthStep, PTL DEF HCSpec, Spec

\* An accept loop that was started may end but never counts as not started, and
\* Serve notifies only when it has started them all.
LEMMA LoopsStay ==
    ASSUME TypeOK, [Next]_vars, serve = "notify" => Loops
    PROVE  /\ Loops => Loops'
           /\ serve' = "notify" => Loops'
<1> USE DEF TypeOK, Loops
<1>1. CASE UNCHANGED accepting /\ (serve' = "notify" => serve = "notify")
  BY <1>1
<1>2. CASE ServeNext
  BY <1>2, FlagAssumption DEF ServeNext, ServeBegin, ServeTested, ServeSpawned, ServeNotify
<1>3. CASE CloseNext \/ UNCHANGED vars
  BY <1>1, <1>3 DEF CloseNext, CloseBegin, CloseDialer, CloseTick, CloseTimeout, CloseListenersDone,
     CloseVerify, serveVars, vars
<1>4. ASSUME NEW m \in Mounts, MountNext(m) PROVE (Loops => Loops') /\ (serve' = "notify" => Loops')
  <2>1. CASE ReportExit(m)
    BY <2>1 DEF ReportExit
  <2>2. CASE Accept(m)
    BY <1>1, <2>2 DEF Accept, serveVars
  <2>3. CASE ServeSpawn(m) \/ AcceptTimeout(m) \/ AcceptRetry(m) \/ AcceptFails(m)
    BY <2>3 DEF ServeSpawn, AcceptTimeout, AcceptRetry, AcceptFails
  <2> QED
    BY <1>4, <2>1, <2>2, <2>3 DEF MountNext
<1>5. ASSUME NEW m \in Mounts, CloseMount(m) PROVE UNCHANGED <<accepting, serve>>
  BY <1>5 DEF CloseMount
<1>6. ASSUME NEW c \in Conns, ConnNext(c) \/ \E m \in Mounts : Connect(c, m)
      PROVE  UNCHANGED <<accepting, serve>>
  BY <1>6 DEF ConnNext, Enter, Refuse, RefuseNotify, DialSucceeds, DialFails, ProxyEnds,
     Exit, Connect, serveVars
<1> QED
  BY <1>1, <1>2, <1>3, <1>4, <1>5, <1>6 DEF Next

\* Every step preserves the invariant.
LEMMA HCStep == TypeOK /\ HCInv /\ [HCNext]_allVars => HCInv'
<1> SUFFICES ASSUME TypeOK, HCInv, [HCNext]_allVars PROVE HCInv'
  OBVIOUS
<1> USE DEF HCInv
<1>1. (Loops => Loops') /\ (serve' = "notify" => Loops')
  BY HealthStep, LoopsStay DEF StartedAfterLoops
<1>2. CASE ClientStep
  <2>1. StoppedBeforeClose'
    BY <1>2 DEF ClientStep, StoppedFirst, StoppedBeforeClose
  <2>2. StartedAfterLoops'
    BY <1>1, <1>2 DEF ClientStep, StartedAfterLoops
  <2>3. started' \in BOOLEAN /\ stopped' \in BOOLEAN
    BY <1>2 DEF ClientStep
  <2> QED
    BY <2>1, <2>2, <2>3
<1>3. CASE UNCHANGED vars /\ ~ClientStep
  <2>1. UNCHANGED <<closer, serve, accepting>>
    BY <1>3 DEF vars, closeVars, serveVars
  <2>2. StoppedBeforeClose' /\ started' \in BOOLEAN /\ stopped' \in BOOLEAN
    <3> USE <2>1 DEF StoppedBeforeClose
    <3>1. CASE NotifyStopped
      BY <3>1 DEF NotifyStopped
    <3>2. CASE ReadinessStarted
      BY <3>2 DEF ReadinessStarted
    <3>3. CASE ReadinessStopped
      BY <3>3 DEF ReadinessStopped
    <3>4. CASE ReadinessCount \/ ProbeDone
      BY <3>4 DEF ReadinessCount, ProbeDone
    <3>5. CASE UNCHANGED allVars
      BY <3>5 DEF allVars, hcVars
    <3> QED
      BY <1>3, <3>1, <3>2, <3>3, <3>4, <3>5 DEF HCNext
  <2>3. StartedAfterLoops'
    BY <1>1, <1>3, <2>1 DEF HCNext, NotifyStopped, ReadinessStarted, ReadinessStopped, ReadinessCount,
       ProbeDone, StartedAfterLoops, allVars, hcVars
  <2> QED
    BY <2>2, <2>3
<1> QED
  BY <1>2, <1>3 DEF HCNext, NotifyStopped, ReadinessStarted, ReadinessStopped, ReadinessCount, ProbeDone,
     allVars

\* The invariant holds throughout.
LEMMA HCInvariance == HCSpec => []HCInv
<1>1. HCInit => HCInv
  BY DEF HCInit, Init, HCInv, StoppedBeforeClose, StartedAfterLoops
<1> QED
  BY <1>1, HCStep, HealthKeepsClient, TypeCorrect, PTL DEF HCSpec

\* A readiness request that comes in after Close was called is never answered
\* 200, whatever happens between the three looks of its handler.
THEOREM NotReady == HCSpec => []NotReadyOnceClosing
<1>1. HCInv => NotReadyOnceClosing
  BY DEF HCInv, StoppedBeforeClose, NotReadyOnceClosing
<1> QED
  BY <1>1, HCInvariance, PTL

\* The proxy is reported ready only once every mount has its accept loop.
THEOREM ReadyServing == HCSpec => []ReadyMeansServing
<1>1. HCInv => ReadyMeansServing
  BY DEF HCInv, StartedAfterLoops, Loops, ReadyMeansServing
<1> QED
  BY <1>1, HCInvariance, PTL

\* The safety properties of the Client, with the health check beside it.
THEOREM HealthyClientSafe ==
    HCSpec => /\ [](CountMatches /\ LimitRespected /\ NoLeak /\ FirstErrorOnly /\ DrainsFirst)
              /\ NoAcceptAfterClose /\ CleanCloseNoSession /\ ImplementsAdmission
BY HealthKeepsClient, Limit, Count, Leak, OneReport, Drains, Closed, CleanClose, Implements, PTL
==============================================================================
