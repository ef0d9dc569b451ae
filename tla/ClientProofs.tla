---------------------------- MODULE ClientProofs ----------------------------
(***************************************************************************)
(* The safety properties of module Client for every number of connections, *)
(* mounts and every limit.  One inductive invariant, IInv, carries them    *)
(* all; the count of the connections let through is what needs an          *)
(* argument, the other parts are the facts that argument rests on.         *)
(***************************************************************************)
EXTENDS Client, FiniteSetTheorems, TLAPS

\* The connections counted are finitely many and fewer than a uint64 can say.
LEMMA CountedFinite ==
    /\ IsFiniteSet(Counted) /\ Cardinality(Counted) \in Nat
    /\ Cardinality(Counted) + 1 < Word
    /\ IsFiniteSet(Admitted) /\ Cardinality(Admitted) \in Nat
    /\ Cardinality(Admitted) <= Cardinality(Counted)
<1>1. /\ Counted \in SUBSET Conns /\ Admitted \in SUBSET Conns
      /\ Admitted \in SUBSET Counted
  BY DEF Counted, Admitted
<1>2. /\ IsFiniteSet(Counted) /\ Cardinality(Counted) <= Cardinality(Conns)
      /\ IsFiniteSet(Admitted)
  BY <1>1, FS_Subset, ConnsAssumption
<1>3. Cardinality(Admitted) <= Cardinality(Counted)
  BY <1>1, <1>2, FS_Subset
<1>4. Cardinality(Counted) \in Nat /\ Cardinality(Admitted) \in Nat
      /\ Cardinality(Conns) \in Nat
  BY <1>2, FS_CardinalityType, ConnsAssumption
<1> QED
  BY <1>2, <1>3, <1>4, WordAssumption

\* A uint64 has room for a one.
LEMMA WordSize == Word \in Nat /\ Word > 1
BY FS_CardinalityType, ConnsAssumption, WordAssumption

\* atomic.AddUint64 stays within a uint64.
LEMMA AddType ==
    ASSUME NEW a \in 0..(Word - 1), NEW b \in 0..(Word - 1)
    PROVE  AddUint64(a, b) \in 0..(Word - 1)
BY WordAssumption DEF AddUint64

\* The variables keep their types.
LEMMA TypeStep == TypeOK /\ [Next]_vars => TypeOK'
<1> SUFFICES ASSUME TypeOK, [Next]_vars PROVE TypeOK'
  OBVIOUS
<1> USE DEF TypeOK, ConnStates, AcceptStates, ServeStates, CloserStates, connVars, serveVars, closeVars
<1>1. CASE ServeNext
  BY <1>1 DEF ServeNext, ServeBegin, ServeTested, ServeSpawned, ServeNotify
<1>2. CASE CloseNext
  BY <1>2 DEF CloseNext, CloseBegin, CloseDialer, CloseTick, CloseTimeout, CloseListenersDone, CloseVerify,
     Counted
<1>3. ASSUME NEW m \in Mounts, MountNext(m) PROVE TypeOK'
  <2>1. CASE Accept(m)
    BY <2>1 DEF Accept
  <2>2. CASE ServeSpawn(m) \/ AcceptTimeout(m) \/ AcceptRetry(m) \/ AcceptFails(m)
    <3>1. CASE ServeSpawn(m)
      BY <3>1 DEF ServeSpawn
    <3>2. CASE AcceptTimeout(m)
      BY <3>2 DEF AcceptTimeout
    <3>3. CASE AcceptRetry(m)
      BY <3>3 DEF AcceptRetry
    <3>4. CASE AcceptFails(m)
      BY <3>4 DEF AcceptFails
    <3> QED
      BY <2>2, <3>1, <3>2, <3>3, <3>4
  <2>3. CASE ReportExit(m)
    BY <2>3 DEF ReportExit
  <2> QED
    BY <1>3, <2>1, <2>2, <2>3 DEF MountNext
<1>4. ASSUME NEW m \in Mounts, CloseMount(m) PROVE TypeOK'
  BY <1>4 DEF CloseMount
<1>5. ASSUME NEW c \in Conns, Enter(c) PROVE TypeOK'
  <2>1. AddUint64(connCount, 1) \in 0..(Word - 1)
    BY AddType, WordSize
  <2> QED
    BY <1>5, <2>1 DEF Enter
<1>6. ASSUME NEW c \in Conns, Exit(c) PROVE TypeOK'
  <2>1. AddUint64(connCount, Word - 1) \in 0..(Word - 1)
    BY AddType, WordSize
  <2> QED
    BY <1>6, <2>1 DEF Exit
<1>7. ASSUME NEW c \in Conns,
             Refuse(c) \/ RefuseNotify(c) \/ DialSucceeds(c) \/ DialFails(c) \/ ProxyEnds(c)
      PROVE  TypeOK'
  <2>1. CASE Refuse(c)
    BY <2>1 DEF Refuse
  <2>2. CASE RefuseNotify(c)
    BY <2>2 DEF RefuseNotify
  <2>3. CASE DialSucceeds(c)
    BY <2>3 DEF DialSucceeds
  <2>4. CASE DialFails(c)
    BY <2>4 DEF DialFails
  <2>5. CASE ProxyEnds(c)
    BY <2>5 DEF ProxyEnds
  <2> QED
    BY <1>7, <2>1, <2>2, <2>3, <2>4, <2>5
<1>8. ASSUME NEW c \in Conns, NEW m \in Mounts, Connect(c, m) PROVE TypeOK'
  BY <1>8 DEF Connect
<1>9. CASE UNCHANGED vars
  BY <1>9 DEF vars
<1> QED
  BY <1>1, <1>2, <1>3, <1>4, <1>5, <1>6, <1>7, <1>8, <1>9 DEF Next, ConnNext

-----------------------------------------------------------------------------
(***************************************************************************)
(* The counter and the limit.                                              *)
(***************************************************************************)

\* A handler that counts itself in: the counter follows the set, and the limit
\* is compared with the size of the set that includes the newcomer.
LEMMA EnterStep ==
    ASSUME NEW c \in Conns, IInv, Enter(c)
    PROVE  CountMatches' /\ LimitRespected'
<1> USE DEF IInv, TypeOK
<1>1. Counted' = Counted \cup {c} /\ c \notin Counted
  BY DEF Enter, Counted
<1>2. Cardinality(Counted') = Cardinality(Counted) + 1
  BY <1>1, CountedFinite, FS_AddElement
<1>3. connCount' = Cardinality(Counted) + 1
  BY CountedFinite DEF Enter, AddUint64, CountMatches
<1>4. CountMatches'
  BY <1>2, <1>3 DEF CountMatches
<1>5. LimitRespected'
  <2>1. CASE Exceeds(AddUint64(connCount, 1))
    <3>1. Admitted' = Admitted
      BY <2>1 DEF Enter, Admitted
    <3> QED
      BY <3>1 DEF LimitRespected
  <2>2. CASE ~Exceeds(AddUint64(connCount, 1))
    <3>1. connCount' = AddUint64(connCount, 1)
      BY DEF Enter
    <3>2. MaxConnections > 0 => Cardinality(Counted') <= MaxConnections
      BY <1>2, <1>3, <2>2, <3>1, CountedFinite, LimitAssumption DEF Exceeds
    <3>3. Cardinality(Admitted') <= Cardinality(Counted')
         /\ Cardinality(Admitted') \in Nat /\ Cardinality(Counted') \in Nat
      <4>1. /\ Admitted' \in SUBSET Conns /\ Counted' \in SUBSET Conns
            /\ Admitted' \in SUBSET Counted'
        BY DEF Admitted, Counted
      <4>2. IsFiniteSet(Admitted') /\ IsFiniteSet(Counted')
        BY <4>1, FS_Subset, ConnsAssumption
      <4> QED
        BY <4>1, <4>2, FS_Subset, FS_CardinalityType
    <3> QED
      BY <3>2, <3>3, LimitAssumption DEF LimitRespected
  <2> QED
    BY <2>1, <2>2
<1> QED
  BY <1>4, <1>5

\* The deferred decrement: adding 2^64 - 1 takes one away, and never from zero.
LEMMA ExitStep ==
    ASSUME NEW c \in Conns, IInv, Exit(c)
    PROVE  CountMatches' /\ LimitRespected'
<1> USE DEF IInv, TypeOK
<1>1. Counted' = Counted \ {c} /\ c \in Counted /\ Admitted' = Admitted
  BY DEF Exit, Counted, Admitted
<1>2. Cardinality(Counted') = Cardinality(Counted) - 1 /\ Cardinality(Counted) # 0
  BY <1>1, CountedFinite, FS_RemoveElement, FS_EmptySet
<1>3. connCount' = Cardinality(Counted) - 1
  BY <1>2, CountedFinite, WordSize DEF Exit, AddUint64, CountMatches
<1> QED
  BY <1>1, <1>2, <1>3 DEF CountMatches, LimitRespected

\* A handler that stops using the limit without leaving the count.
LEMMA ReleaseStep ==
    ASSUME NEW c \in Conns, IInv, DialFails(c) \/ ProxyEnds(c)
    PROVE  CountMatches' /\ LimitRespected'
<1> USE DEF IInv, TypeOK
<1>1. Counted' = Counted /\ connCount' = connCount
      /\ Admitted' = Admitted \ {c} /\ c \in Admitted
  BY DEF DialFails, ProxyEnds, Counted, Admitted
<1>2. Cardinality(Admitted') = Cardinality(Admitted) - 1
  BY <1>1, CountedFinite, FS_RemoveElement
<1> QED
  BY <1>1, <1>2, CountedFinite, LimitAssumption DEF CountMatches, LimitRespected

\* No other step moves a handler across the counter or the limit.
LEMMA CountStep == IInv /\ [Next]_vars => CountMatches' /\ LimitRespected'
<1> SUFFICES ASSUME IInv, [Next]_vars PROVE CountMatches' /\ LimitRespected'
  OBVIOUS
<1> DEFINE Same == Counted' = Counted /\ Admitted' = Admitted /\ connCount' = connCount
<1>1. ASSUME pc' = pc, connCount' = connCount PROVE Same
  BY <1>1 DEF Counted, Admitted
<1>2. ASSUME ServeNext \/ CloseNext \/ UNCHANGED vars PROVE Same
  BY <1>1, <1>2 DEF ServeNext, ServeBegin, ServeTested, ServeSpawned, ServeNotify,
     CloseNext, CloseBegin, CloseDialer, CloseTick, CloseTimeout, CloseListenersDone,
     CloseVerify, connVars, vars
<1>3. ASSUME NEW m \in Mounts, MountNext(m) PROVE Same
  <2>1. CASE Accept(m)
    BY <2>1 DEF Accept, IInv, TypeOK, QueuedOnce, Counted, Admitted, Same
  <2>2. CASE ~Accept(m)
    BY <1>1, <1>3, <2>2 DEF MountNext, ServeSpawn, AcceptTimeout, AcceptRetry, AcceptFails,
       ReportExit, connVars
  <2> QED
    BY <2>1, <2>2
<1>4. ASSUME NEW m \in Mounts, CloseMount(m) PROVE Same
  BY <1>4 DEF CloseMount, IInv, TypeOK, QueuedOnce, Counted, Admitted, Same
<1>5. ASSUME NEW c \in Conns, NEW m \in Mounts, Connect(c, m) PROVE Same
  BY <1>5 DEF Connect, IInv, TypeOK, Counted, Admitted, Same
<1>6. ASSUME NEW c \in Conns, Refuse(c) \/ RefuseNotify(c) \/ DialSucceeds(c) PROVE Same
  BY <1>6 DEF Refuse, RefuseNotify, DialSucceeds, IInv, TypeOK, Counted, Admitted, Same
<1>7. ASSUME Same PROVE CountMatches' /\ LimitRespected'
  BY <1>7 DEF IInv, CountMatches, LimitRespected
<1> QED
  BY <1>2, <1>3, <1>4, <1>5, <1>6, <1>7, EnterStep, ExitStep, ReleaseStep DEF Next, ConnNext
-----------------------------------------------------------------------------
(***************************************************************************)
(* Queues, connections, exitCh and listeners.                              *)
(***************************************************************************)

\* A connection waits in one queue only, and leaves it when it is accepted or
\* reset.
LEMMA QueueStep == IInv /\ [Next]_vars => QueuedOnce'
<1> SUFFICES ASSUME IInv, [Next]_vars PROVE QueuedOnce'
  OBVIOUS
<1> USE DEF IInv, TypeOK, QueuedOnce
<1>1. ASSUME pc' = pc, backlog' = backlog PROVE QueuedOnce'
  BY <1>1
<1>2. CASE ServeNext \/ CloseNext \/ UNCHANGED vars
  BY <1>1, <1>2 DEF ServeNext, ServeBegin, ServeTested, ServeSpawned, ServeNotify,
     CloseNext, CloseBegin, CloseDialer, CloseTick, CloseTimeout, CloseListenersDone,
     CloseVerify, connVars, vars
<1>3. ASSUME NEW m \in Mounts, MountNext(m) PROVE QueuedOnce'
  <2>1. CASE Accept(m)
    BY <2>1 DEF Accept
  <2>2. CASE ~Accept(m)
    BY <1>1, <1>3, <2>2 DEF MountNext, ServeSpawn, AcceptTimeout, AcceptRetry, AcceptFails,
       ReportExit, connVars
  <2> QED
    BY <2>1, <2>2
<1>4. ASSUME NEW m \in Mounts, CloseMount(m) PROVE QueuedOnce'
  BY <1>4 DEF CloseMount
<1>5. ASSUME NEW c \in Conns, NEW m \in Mounts, Connect(c, m) PROVE QueuedOnce'
  BY <1>5 DEF Connect
<1>6. ASSUME NEW c \in Conns, ConnNext(c) PROVE QueuedOnce'
  <2>1. (pc[c] # "queued" \/ pc' = pc) /\ backlog' = backlog
    BY <1>6 DEF ConnNext, Enter, Refuse, RefuseNotify, DialSucceeds, DialFails, ProxyEnds, Exit
  <2>2. \A d \in Conns : d # c => pc'[d] = pc[d]
    BY <1>6 DEF ConnNext, Enter, Refuse, RefuseNotify, DialSucceeds, DialFails, ProxyEnds, Exit
  <2> QED
    BY <2>1, <2>2
<1> QED
  BY <1>2, <1>3, <1>4, <1>5, <1>6 DEF Next

\* Every way out of the handler closes what the handler had opened.
LEMMA LeakStep == IInv /\ [Next]_vars => NoLeak' /\ ServerWhileProxying'
<1> SUFFICES ASSUME IInv, [Next]_vars PROVE NoLeak' /\ ServerWhileProxying'
  OBVIOUS
<1> USE DEF IInv, TypeOK, NoLeak, ServerWhileProxying
<1>1. ASSUME pc' = pc, clientOpen' = clientOpen, serverOpen' = serverOpen
      PROVE  NoLeak' /\ ServerWhileProxying'
  BY <1>1
<1>2. CASE ServeNext \/ CloseNext \/ UNCHANGED vars
  BY <1>1, <1>2 DEF ServeNext, ServeBegin, ServeTested, ServeSpawned, ServeNotify,
     CloseNext, CloseBegin, CloseDialer, CloseTick, CloseTimeout, CloseListenersDone,
     CloseVerify, connVars, vars
<1>3. ASSUME NEW m \in Mounts, MountNext(m) PROVE NoLeak' /\ ServerWhileProxying'
  <2>1. CASE Accept(m)
    BY <2>1 DEF Accept, QueuedOnce
  <2>2. CASE ~Accept(m)
    BY <1>1, <1>3, <2>2 DEF MountNext, ServeSpawn, AcceptTimeout, AcceptRetry, AcceptFails,
       ReportExit, connVars
  <2> QED
    BY <2>1, <2>2
<1>4. ASSUME NEW m \in Mounts, CloseMount(m) PROVE NoLeak' /\ ServerWhileProxying'
  BY <1>4 DEF CloseMount, QueuedOnce
<1>5. ASSUME NEW c \in Conns, NEW m \in Mounts, Connect(c, m)
      PROVE  NoLeak' /\ ServerWhileProxying'
  BY <1>5 DEF Connect
<1>6. ASSUME NEW c \in Conns, Enter(c) \/ Exit(c) PROVE NoLeak' /\ ServerWhileProxying'
  BY <1>6 DEF Enter, Exit
<1>7. ASSUME NEW c \in Conns, Refuse(c) \/ RefuseNotify(c) PROVE NoLeak' /\ ServerWhileProxying'
  BY <1>7 DEF Refuse, RefuseNotify
<1>8. ASSUME NEW c \in Conns, DialSucceeds(c) \/ DialFails(c) \/ ProxyEnds(c)
      PROVE  NoLeak' /\ ServerWhileProxying'
  BY <1>8 DEF DialSucceeds, DialFails, ProxyEnds
<1> QED
  BY <1>2, <1>3, <1>4, <1>5, <1>6, <1>7, <1>8 DEF Next, ConnNext

\* One accept loop at most hands its error to Serve, and Serve returns by it.
LEMMA ReportStep == IInv /\ [Next]_vars => FirstErrorOnly' /\ ReportedReturned'
<1> SUFFICES ASSUME IInv, [Next]_vars PROVE FirstErrorOnly' /\ ReportedReturned'
  OBVIOUS
<1> USE DEF IInv, TypeOK, FirstErrorOnly, ReportedReturned
<1>1. ASSUME accepting' = accepting, serve' = serve PROVE FirstErrorOnly' /\ ReportedReturned'
  BY <1>1
<1>2. CASE CloseNext \/ UNCHANGED vars
  BY <1>1, <1>2 DEF CloseNext, CloseBegin, CloseDialer, CloseTick, CloseTimeout,
     CloseListenersDone, CloseVerify, serveVars, vars
<1>3. CASE ServeNext
  BY <1>3, FlagAssumption DEF ServeNext, ServeBegin, ServeTested, ServeSpawned, ServeNotify
<1>4. ASSUME NEW m \in Mounts, MountNext(m) PROVE FirstErrorOnly' /\ ReportedReturned'
  <2>1. CASE ReportExit(m)
    BY <2>1 DEF ReportExit
  <2>2. CASE Accept(m)
    BY <1>1, <2>2 DEF Accept, serveVars
  <2>3. CASE ServeSpawn(m) \/ AcceptTimeout(m) \/ AcceptRetry(m) \/ AcceptFails(m)
    BY <2>3 DEF ServeSpawn, AcceptTimeout, AcceptRetry, AcceptFails
  <2> QED
    BY <1>4, <2>1, <2>2, <2>3 DEF MountNext
<1>5. ASSUME NEW m \in Mounts, CloseMount(m) PROVE FirstErrorOnly' /\ ReportedReturned'
  BY <1>1, <1>5 DEF CloseMount
<1>6. ASSUME NEW c \in Conns, ConnNext(c) \/ \E m \in Mounts : Connect(c, m)
      PROVE  FirstErrorOnly' /\ ReportedReturned'
  BY <1>1, <1>6 DEF ConnNext, Enter, Refuse, RefuseNotify, DialSucceeds, DialFails, ProxyEnds,
     Exit, Connect, serveVars
<1> QED
  BY <1>2, <1>3, <1>4, <1>5, <1>6 DEF Next

\* Close passes its loop over the mounts only when all of them are closed, and
\* nothing opens a listener again.
LEMMA ListenerStep == IInv /\ [Next]_vars => ListenersClosed'
<1> SUFFICES ASSUME IInv, [Next]_vars PROVE ListenersClosed'
  OBVIOUS
<1> USE DEF IInv, TypeOK, ListenersClosed
<1>1. ASSUME closer' = closer, listener' = listener PROVE ListenersClosed'
  BY <1>1
<1>2. CASE ServeNext \/ UNCHANGED vars
  BY <1>1, <1>2 DEF ServeNext, ServeBegin, ServeTested, ServeSpawned, ServeNotify,
     serveVars, closeVars, vars
<1>3. CASE CloseNext
  BY <1>3 DEF CloseNext, CloseBegin, CloseDialer, CloseTick, CloseTimeout,
     CloseListenersDone, CloseVerify, serveVars
<1>4. ASSUME NEW m \in Mounts, MountNext(m) PROVE ListenersClosed'
  BY <1>1, <1>4 DEF MountNext, ServeSpawn, Accept, AcceptTimeout, AcceptRetry, AcceptFails,
     ReportExit, serveVars, closeVars
<1>5. ASSUME NEW m \in Mounts, CloseMount(m) PROVE ListenersClosed'
  BY <1>5 DEF CloseMount
<1>6. ASSUME NEW c \in Conns, ConnNext(c) \/ \E m \in Mounts : Connect(c, m)
      PROVE  ListenersClosed'
  BY <1>1, <1>6 DEF ConnNext, Enter, Refuse, RefuseNotify, DialSucceeds, DialFails, ProxyEnds,
     Exit, Connect, serveVars, closeVars
<1> QED
  BY <1>2, <1>3, <1>4, <1>5, <1>6 DEF Next

\* No step but its own decrement takes a handler out of the count, so a counter
\* of zero means that nothing that Close waits for is left.
LEMMA DrainStep == IInv /\ [Next]_vars => DrainsFirst' /\ DrainingCounted'
<1> SUFFICES ASSUME IInv, [Next]_vars PROVE DrainsFirst' /\ DrainingCounted'
  OBVIOUS
<1> USE DEF IInv, TypeOK, DrainsFirst, DrainingCounted
<1> DEFINE Same == /\ closer' = closer /\ timedOut' = timedOut
                   /\ draining' = draining /\ Counted \subseteq Counted'
<1>1. ASSUME Same PROVE DrainsFirst' /\ DrainingCounted'
  BY <1>1
<1>2. ASSUME ServeNext \/ UNCHANGED vars PROVE Same
  BY <1>2 DEF ServeNext, ServeBegin, ServeTested, ServeSpawned, ServeNotify, Counted,
     connVars, closeVars, vars
<1>3. CASE CloseNext
  <2>1. Counted' = Counted
    BY <1>3 DEF CloseNext, CloseBegin, CloseDialer, CloseTick, CloseTimeout, CloseListenersDone,
       CloseVerify, connVars, Counted
  <2>2. CASE CloseTick
    <3>1. Counted = {}
      BY <2>2, CountedFinite, FS_EmptySet DEF CloseTick, CountMatches
    <3> QED
      BY <2>1, <2>2, <3>1 DEF CloseTick
  <2>3. CASE CloseBegin \/ CloseTimeout
    BY <2>1, <2>3 DEF CloseBegin, CloseTimeout
  <2>4. CASE CloseDialer \/ CloseListenersDone \/ CloseVerify
    BY <2>1, <2>4 DEF CloseDialer, CloseListenersDone, CloseVerify
  <2> QED
    BY <1>3, <2>2, <2>3, <2>4 DEF CloseNext
<1>4. ASSUME NEW m \in Mounts, MountNext(m) PROVE Same
  <2>1. CASE Accept(m)
    BY <2>1 DEF Accept, QueuedOnce, Counted, closeVars
  <2>2. CASE ~Accept(m)
    BY <1>4, <2>2 DEF MountNext, ServeSpawn, AcceptTimeout, AcceptRetry, AcceptFails,
       ReportExit, Counted, connVars, closeVars
  <2> QED
    BY <2>1, <2>2
<1>5. ASSUME NEW m \in Mounts, CloseMount(m) PROVE DrainsFirst' /\ DrainingCounted'
  <2>1. Counted \subseteq Counted' /\ draining' = draining
    BY <1>5 DEF CloseMount, QueuedOnce, Counted
  <2>2. closer' = closer /\ timedOut' = timedOut
    BY <1>5 DEF CloseMount
  <2> QED
    BY <2>1, <2>2
<1>6. ASSUME NEW c \in Conns, NEW m \in Mounts, Connect(c, m) PROVE Same
  BY <1>6 DEF Connect, Counted, closeVars
<1>7. ASSUME NEW c \in Conns,
             Enter(c) \/ Refuse(c) \/ RefuseNotify(c) \/ DialSucceeds(c) \/ DialFails(c) \/ ProxyEnds(c)
      PROVE  Same
  BY <1>7 DEF Enter, Refuse, RefuseNotify, DialSucceeds, DialFails, ProxyEnds, Counted, closeVars
<1>8. ASSUME NEW c \in Conns, Exit(c) PROVE DrainsFirst' /\ DrainingCounted'
  BY <1>8 DEF Exit, Counted
<1> QED
  BY <1>1, <1>2, <1>3, <1>4, <1>5, <1>6, <1>7, <1>8 DEF Next, ConnNext
-----------------------------------------------------------------------------
(***************************************************************************)
(* The theorems.                                                           *)
(***************************************************************************)

\* The counter, the limit, the queues, the open connections, exitCh and the
\* listeners of the Client stay consistent in every reachable state.
THEOREM Inductive == Spec => []IInv
<1>1. Init => IInv
  <2> SUFFICES ASSUME Init PROVE IInv
    OBVIOUS
  <2>1. TypeOK
    <3>1. 0 \in 0..(Word - 1)
      BY WordSize
    <3> QED
      BY <3>1 DEF Init, TypeOK, ConnStates, AcceptStates, ServeStates, CloserStates
  <2>2. Counted = {} /\ Admitted = {}
    BY DEF Init, Counted, Admitted
  <2>3. CountMatches /\ LimitRespected
    BY <2>2, FS_EmptySet, LimitAssumption DEF Init, CountMatches, LimitRespected
  <2>4. NoLeak /\ FirstErrorOnly /\ QueuedOnce /\ ServerWhileProxying
        /\ ReportedReturned /\ ListenersClosed /\ DrainsFirst /\ DrainingCounted
    BY DEF Init, NoLeak, FirstErrorOnly, QueuedOnce, ServerWhileProxying, ReportedReturned,
       ListenersClosed, DrainsFirst, DrainingCounted
  <2> QED
    BY <2>1, <2>3, <2>4 DEF IInv
<1>2. IInv /\ [Next]_vars => IInv'
  <2>1. IInv => TypeOK
    BY DEF IInv
  <2> QED
    BY <2>1, TypeStep, CountStep, QueueStep, LeakStep, ReportStep, ListenerStep, DrainStep DEF IInv
<1> QED
  BY <1>1, <1>2, PTL DEF Spec

\* Every variable of the Client keeps its type; connCount stays a uint64.
THEOREM TypeCorrect == Spec => []TypeOK
<1>1. IInv => TypeOK
  BY DEF IInv
<1> QED
  BY <1>1, Inductive, PTL

\* For every MaxConnections the atomic counter bounds the connections being
\* dialled or proxied, whatever the interleaving of the handlers.
THEOREM Limit == Spec => []LimitRespected
<1>1. IInv => LimitRespected
  BY DEF IInv
<1> QED
  BY <1>1, Inductive, PTL

\* connCount equals the number of handlers between increment and decrement.
THEOREM Count == Spec => []CountMatches
<1>1. IInv => CountMatches
  BY DEF IInv
<1> QED
  BY <1>1, Inductive, PTL

\* A handler that is done has closed both connections.
THEOREM Leak == Spec => []NoLeak
<1>1. IInv => NoLeak
  BY DEF IInv
<1> QED
  BY <1>1, Inductive, PTL

\* Serve returns the error of exactly one accept loop.
THEOREM OneReport == Spec => []FirstErrorOnly
<1>1. IInv => FirstErrorOnly
  BY DEF IInv
<1> QED
  BY <1>1, Inductive, PTL

\* Close keeps the listeners open until the connections it found have ended or
\* its timer has fired.
THEOREM Drains == Spec => []DrainsFirst
<1>1. IInv => DrainsFirst
  BY DEF IInv
<1> QED
  BY <1>1, Inductive, PTL

\* After Close has returned no accept loop hands over another connection.
THEOREM Closed == Spec => NoAcceptAfterClose
<1> DEFINE Step == closer = "returned" => \A c \in Conns : pc'[c] = "spawned" => pc[c] = "spawned"
<1>1. IInv /\ [Next]_vars => [Step]_vars
  <2> SUFFICES ASSUME IInv, Next, closer = "returned", NEW c \in Conns, pc'[c] = "spawned"
               PROVE  pc[c] = "spawned"
    OBVIOUS
  <2> USE DEF IInv, TypeOK
  <2>1. CASE pc' = pc
    BY <2>1
  <2>2. ASSUME NEW m \in Mounts, Accept(m) PROVE FALSE
    BY <2>2 DEF Accept, ListenersClosed
  <2>3. ASSUME NEW m \in Mounts, CloseMount(m) PROVE FALSE
    BY <2>3 DEF CloseMount
  <2>4. ASSUME NEW d \in Conns, ConnNext(d) \/ \E m \in Mounts : Connect(d, m)
        PROVE  pc[c] = "spawned"
    BY <2>4 DEF ConnNext, Enter, Refuse, RefuseNotify, DialSucceeds, DialFails, ProxyEnds,
       Exit, Connect
  <2>5. ASSUME NEW m \in Mounts, MountNext(m), ~Accept(m) PROVE pc' = pc
    BY <2>5 DEF MountNext, ServeSpawn, AcceptTimeout, AcceptRetry, AcceptFails, ReportExit, connVars
  <2>6. CASE ServeNext \/ CloseNext
    <3>1. pc' = pc
      BY <2>6 DEF ServeNext, ServeBegin, ServeTested, ServeSpawned, ServeNotify,
         CloseNext, CloseBegin, CloseDialer, CloseTick, CloseTimeout, CloseListenersDone,
         CloseVerify, connVars
    <3> QED
      BY <2>1, <3>1
  <2> QED
    BY <2>1, <2>2, <2>3, <2>4, <2>5, <2>6 DEF Next
<1> QED
  BY <1>1, Inductive, PTL DEF Spec, NoAcceptAfterClose

\* When Close with a wait reports no open connection there is no session.
THEOREM CleanClose == Spec => CleanCloseNoSession
<1> DEFINE Step == closer = "verify" /\ closer' = "returned" /\ WaitOnClose /\ "open" \notin closeErr'
                     => Admitted = {} /\ serverOpen = {}
<1>1. IInv /\ [Next]_vars => [Step]_vars
  <2> SUFFICES ASSUME IInv, Next, closer = "verify", closer' = "returned", WaitOnClose,
                      "open" \notin closeErr'
               PROVE  Admitted = {} /\ serverOpen = {}
    OBVIOUS
  <2> USE DEF IInv, TypeOK
  <2>1. CloseVerify
    <3>1. CASE CloseNext
      BY <3>1 DEF CloseNext, CloseBegin, CloseDialer, CloseTick, CloseTimeout, CloseListenersDone
    <3>2. CASE ~CloseNext
      BY <3>2 DEF Next, ServeNext, ServeBegin, ServeTested, ServeSpawned, ServeNotify, MountNext,
         ServeSpawn, Accept, AcceptTimeout, AcceptRetry, AcceptFails, ReportExit, CloseMount,
         ConnNext, Enter, Refuse, RefuseNotify, DialSucceeds, DialFails, ProxyEnds, Exit, Connect,
         closeVars
    <3> QED
      BY <3>1, <3>2
  <2>2. connCount = 0
    BY <2>1 DEF CloseVerify
  <2>3. Counted = {}
    BY <2>2, CountedFinite, FS_EmptySet DEF CountMatches
  <2> QED
    BY <2>3 DEF Counted, Admitted, ServerWhileProxying
<1> QED
  BY <1>1, Inductive, PTL DEF Spec, CleanCloseNoSession

\* The counter implements the promise of module Admission: every step of the
\* Client admits one connection below the limit, releases one, or does neither.
THEOREM Implements == Spec => ImplementsAdmission
<1>1. Init => Promise!Init
  BY DEF Init, Promise!Init, Admitted
<1>2. IInv /\ IInv' /\ [Next]_vars => [Promise!Next]_Admitted
  <2> SUFFICES ASSUME IInv, IInv', [Next]_vars, Admitted' # Admitted PROVE Promise!Next
    OBVIOUS
  <2> USE DEF IInv, TypeOK
  <2>1. ASSUME NEW c \in Conns, DialFails(c) \/ ProxyEnds(c) PROVE Promise!Release(c)
    BY <2>1 DEF DialFails, ProxyEnds, Admitted, Promise!Release
  <2>2. ASSUME NEW c \in Conns, Enter(c) PROVE Promise!Admit(c)
    <3>1. Admitted' = Admitted \cup {c} /\ c \notin Admitted
      BY <2>2 DEF Enter, Admitted
    <3>2. Cardinality(Admitted') = Cardinality(Admitted) + 1
      BY <3>1, CountedFinite, FS_AddElement
    <3>3. MaxConnections > 0 => Cardinality(Admitted) < MaxConnections
      BY <3>2, CountedFinite, LimitAssumption DEF LimitRespected
    <3>4. Promise!Cardinality(Admitted) = Cardinality(Admitted)
      BY DEF Promise!Cardinality, Cardinality
    <3> QED
      BY <3>1, <3>3, <3>4 DEF Promise!Admit
  <2>3. ASSUME pc' = pc PROVE FALSE
    BY <2>3 DEF Admitted
  <2>4. CASE ServeNext \/ CloseNext \/ UNCHANGED vars
    BY <2>3, <2>4 DEF ServeNext, ServeBegin, ServeTested, ServeSpawned, ServeNotify,
       CloseNext, CloseBegin, CloseDialer, CloseTick, CloseTimeout, CloseListenersDone,
       CloseVerify, connVars, vars
  <2>5. ASSUME NEW m \in Mounts, MountNext(m) PROVE FALSE
    <3>1. CASE Accept(m)
      BY <3>1 DEF Accept, QueuedOnce, Admitted
    <3>2. CASE ~Accept(m)
      BY <2>3, <2>5, <3>2 DEF MountNext, ServeSpawn, AcceptTimeout, AcceptRetry, AcceptFails,
         ReportExit, connVars
    <3> QED
      BY <3>1, <3>2
  <2>6. ASSUME NEW m \in Mounts, CloseMount(m) PROVE FALSE
    BY <2>6 DEF CloseMount, QueuedOnce, Admitted
  <2>7. ASSUME NEW c \in Conns, NEW m \in Mounts, Connect(c, m) PROVE FALSE
    BY <2>7 DEF Connect, Admitted
  <2>8. ASSUME NEW c \in Conns, Exit(c) \/ Refuse(c) \/ RefuseNotify(c) \/ DialSucceeds(c)
        PROVE  FALSE
    BY <2>8 DEF Exit, Refuse, RefuseNotify, DialSucceeds, Admitted
  <2> QED
    BY <2>1, <2>2, <2>4, <2>5, <2>6, <2>7, <2>8 DEF Next, ConnNext, Promise!Next
<1> QED
  BY <1>1, <1>2, Inductive, PTL DEF Spec, ImplementsAdmission, Promise!Spec
==============================================================================
