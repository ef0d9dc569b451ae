----------------------------- MODULE FuseProofs -----------------------------
(***************************************************************************)
(* The safety properties of module Fuse for any instances, any number of   *)
(* requests at once and of sockets made.  fuseSockets agrees with the      *)
(* accept loops at every step, but for the socket that the holder of the   *)
(* mutex has made and not registered yet; and after a successful unmount   *)
(* there is no request left to make another.                               *)
(***************************************************************************)
EXTENDS Fuse, TLAPS

\* One loop at a time is between its Lock and its Unlock, and a socketMount that
\* was never made has no loop.
LoopOrder ==
    /\ \A m, j \in Ids : loop[m] = "report" /\ loop[j] = "report" => m = j
    /\ \A m \in Ids : listener[m] = "none" => loop[m] = "off"

\* Every entry is a live socket of that instance.
EntriesLive ==
    \A i \in Instances : fuseSockets[i] # 0 => fuseSockets[i] \in Live /\ inst[fuseSockets[i]] = i

\* Every live socket has its entry, or the Lookup that made it is about to store
\* it.
LiveEntered ==
    \A m \in Live : fuseSockets[inst[m]] = m \/ \E k \in Callers : lookup[k] = "store" /\ made[k] = m

\* The Lookup that holds the mutex found no entry, and has made a live socket of
\* the instance it was asked for.
HolderMakes ==
    \A k \in Callers :
        /\ lookup[k] \in {"mount", "store"} => fuseSockets[wanted[k]] = 0
        /\ lookup[k] = "store" => made[k] \in Live /\ inst[made[k]] = wanted[k]

\* How far serveFuse and Close have brought the FUSE server.
ServerOrder ==
    /\ serve = "idle" => server = "none"
    /\ serve = "mounted" => server = "mounted"
    /\ server = "unmounting" => closer = "unmount"
    /\ server = "unmounted" => /\ closer \in {"snapshot", "wait", "close", "returned"}
                               /\ \A k \in Callers : lookup[k] = "idle"

\* The inductive invariant of the FUSE file system.
FuseInv ==
    /\ TypeOK /\ LoopOrder /\ EntriesLive /\ LiveEntered /\ HolderMakes /\ ServerOrder
    /\ CloseMissesNoSocket
-----------------------------------------------------------------------------
\* There is an instance to write where there is none.
LEMMA BlankInstance == Blank \in Instances
BY FuseAssumption DEF Blank

\* The directory starts empty.
LEMMA InitFuse == Init => FuseInv
<1> SUFFICES ASSUME Init PROVE FuseInv
  OBVIOUS
<1>1. TypeOK
  BY BlankInstance, FuseAssumption DEF Init, TypeOK
<1>2. Live = {}
  BY DEF Init, Live
<1> QED
  BY <1>1, <1>2 DEF Init, FuseInv, LoopOrder, EntriesLive, LiveEntered, HolderMakes, ServerOrder,
     CloseMissesNoSocket

\* The variables keep their types and the mutex its holder.
LEMMA FuseTypeStep == TypeOK /\ LoopOrder /\ [Next]_vars => TypeOK' /\ LoopOrder'
<1> SUFFICES ASSUME TypeOK, LoopOrder, [Next]_vars PROVE TypeOK' /\ LoopOrder'
  OBVIOUS
<1> USE FuseAssumption, BlankInstance DEF TypeOK, LoopOrder, lookupVars, mountVars, serveVars, closeVars
<1>1. ASSUME NEW k \in Callers, NEW i \in Instances, Request(k, i) PROVE TypeOK' /\ LoopOrder'
  BY <1>1 DEF Request
<1>2. ASSUME NEW k \in Callers, LookupLocked(k) PROVE TypeOK' /\ LoopOrder'
  BY <1>2 DEF LookupLocked, Answer
<1>3. ASSUME NEW k \in Callers, LookupMounted(k) PROVE TypeOK' /\ LoopOrder'
  BY <1>3 DEF LookupMounted
<1>4. ASSUME NEW k \in Callers, LookupFails(k) PROVE TypeOK' /\ LoopOrder'
  BY <1>4 DEF LookupFails, Answer
<1>5. ASSUME NEW k \in Callers, LookupStore(k) PROVE TypeOK' /\ LoopOrder'
  BY <1>5 DEF LookupStore, Answer
<1>6. ASSUME NEW m \in Ids, AcceptFails(m) PROVE TypeOK' /\ LoopOrder'
  BY <1>6 DEF AcceptFails
<1>7. ASSUME NEW m \in Ids, Unregister(m) PROVE TypeOK' /\ LoopOrder'
  BY <1>7 DEF Unregister
<1>8. ASSUME NEW m \in Ids, Report(m) PROVE TypeOK' /\ LoopOrder'
  BY <1>8 DEF Report
<1>9. ASSUME NEW m \in Ids, CloseMount(m) PROVE TypeOK' /\ LoopOrder'
  BY <1>9 DEF CloseMount
<1>10. CASE ServeNext \/ Cancel
  <2>1. CASE ServeMount
    BY <2>1 DEF ServeMount
  <2>2. CASE ServeSet
    BY <2>2 DEF ServeSet
  <2>3. CASE ServeNotify
    BY <2>3 DEF ServeNotify
  <2>4. CASE ServeCancelled
    BY <2>4 DEF ServeCancelled
  <2>5. CASE Cancel
    BY <2>5 DEF Cancel
  <2> QED
    BY <1>10, <2>1, <2>2, <2>3, <2>4, <2>5 DEF ServeNext
<1>11. CASE CloseBegin \/ CloseNext
  <2>1. CASE CloseBegin \/ Unmount \/ UnmountDone
    BY <2>1 DEF CloseBegin, Unmount, UnmountDone
  <2>2. CASE FuseMounts
    BY <2>2 DEF FuseMounts
  <2>3. CASE CloseWaited
    BY <2>3 DEF CloseWaited
  <2>4. CASE WaitForFUSEMounts
    BY <2>4 DEF WaitForFUSEMounts
  <2> QED
    BY <1>11, <2>1, <2>2, <2>3, <2>4 DEF CloseNext
<1>12. CASE UNCHANGED vars
  BY <1>12 DEF vars
<1> QED
  BY <1>1, <1>2, <1>3, <1>4, <1>5, <1>6, <1>7, <1>8, <1>9, <1>10, <1>11, <1>12 DEF Next, LookupNext, LoopNext
-----------------------------------------------------------------------------
(***************************************************************************)
(* The entries of fuseSockets.                                             *)
(***************************************************************************)

\* What fuseSockets and the loops say of one another.
Registry == EntriesLive /\ LiveEntered /\ HolderMakes

\* The mutex has one holder.
LEMMA OneHolder ==
    ASSUME TypeOK, NEW k \in Callers, lookup[k] \in {"mount", "store"}
    PROVE  /\ fuseMu = k /\ \A j \in Callers : lookup[j] \in {"mount", "store"} => j = k
           /\ \A m \in Ids : loop[m] # "report"
BY FuseAssumption DEF TypeOK

\* A step that touches neither the entries, nor the live sockets, nor the holder.
LEMMA RegistryFrame ==
    ASSUME Registry, Live' = Live, UNCHANGED <<fuseSockets, inst>>,
           \A k \in Callers : lookup'[k] \in {"mount", "store"} <=> lookup[k] \in {"mount", "store"},
           \A k \in Callers : lookup'[k] = "store" <=> lookup[k] = "store",
           \A k \in Callers : lookup[k] \in {"mount", "store"} => wanted'[k] = wanted[k],
           made' = made
    PROVE  Registry'
BY DEF Registry, EntriesLive, LiveEntered, HolderMakes

\* A Lookup makes a socket of an instance without an entry.
LEMMA MountedStep ==
    ASSUME TypeOK, LoopOrder, Registry, NEW k \in Callers, LookupMounted(k) PROVE Registry'
<1> USE DEF TypeOK, Registry
<1>1. PICK m \in Ids :
          /\ listener[m] = "none"
          /\ inst' = [inst EXCEPT ![m] = wanted[k]]
          /\ loop' = [loop EXCEPT ![m] = "accept"]
          /\ made' = [made EXCEPT ![k] = m]
  BY DEF LookupMounted
<1>2. /\ lookup[k] = "mount" /\ lookup' = [lookup EXCEPT ![k] = "store"]
      /\ UNCHANGED <<fuseSockets, wanted>>
  BY DEF LookupMounted
<1>3. m \notin Live /\ Live' = Live \cup {m}
  BY <1>1 DEF LoopOrder, Live
<1>4. \A j \in Callers : j # k => lookup[j] \notin {"mount", "store"}
  BY <1>2, OneHolder
<1>5. EntriesLive'
  BY <1>1, <1>2, <1>3 DEF EntriesLive
<1>6. LiveEntered'
  BY <1>1, <1>2, <1>3, <1>4 DEF LiveEntered, Live
<1>7. HolderMakes'
  BY <1>1, <1>2, <1>3, <1>4 DEF HolderMakes
<1> QED
  BY <1>5, <1>6, <1>7

\* The Lookup registers its socket.
LEMMA StoreStep ==
    ASSUME TypeOK, Registry, NEW k \in Callers, LookupStore(k) PROVE Registry'
<1> USE DEF TypeOK, Registry
<1>1. /\ lookup[k] = "store" /\ lookup' = [lookup EXCEPT ![k] = "idle"]
      /\ fuseSockets' = [fuseSockets EXCEPT ![wanted[k]] = made[k]]
      /\ made' = [made EXCEPT ![k] = 0] /\ wanted' = [wanted EXCEPT ![k] = Blank]
      /\ UNCHANGED <<inst, loop>> /\ Live' = Live
  BY DEF LookupStore, Answer, mountVars, Live
<1>2. \A j \in Callers : j # k => lookup[j] \notin {"mount", "store"}
  BY <1>1, OneHolder
<1>3. /\ made[k] \in Live /\ inst[made[k]] = wanted[k] /\ fuseSockets[wanted[k]] = 0
  BY <1>1 DEF HolderMakes
<1>4. EntriesLive'
  BY <1>1, <1>3 DEF EntriesLive
<1>5. LiveEntered'
  <2> SUFFICES ASSUME NEW m \in Live PROVE fuseSockets'[inst[m]] = m
    BY <1>1 DEF LiveEntered
  <2>1. CASE m = made[k]
    BY <1>1, <1>3, <2>1
  <2>2. CASE m # made[k]
    <3>1. fuseSockets[inst[m]] = m
      BY <1>2, <2>2 DEF LiveEntered
    <3>2. m # 0 /\ inst[m] \in Instances
      BY DEF Live, Ids
    <3> QED
      BY <1>1, <1>3, <3>1, <3>2
  <2> QED
    BY <2>1, <2>2
<1>6. HolderMakes'
  BY <1>1, <1>2 DEF HolderMakes
<1> QED
  BY <1>4, <1>5, <1>6

\* A loop that has failed deletes its own entry, and nobody else's.
LEMMA UnregisterStep ==
    ASSUME TypeOK, Registry, NEW m \in Ids, Unregister(m) PROVE Registry'
<1> USE DEF TypeOK, Registry
<1>1. /\ fuseMu = "free" /\ m \in Live /\ Live' = Live \ {m}
      /\ fuseSockets' = [fuseSockets EXCEPT ![inst[m]] = 0]
      /\ UNCHANGED <<inst, lookup, wanted, made>>
  BY DEF Unregister, Live, lookupVars
<1>2. \A k \in Callers : lookup[k] \notin {"mount", "store"}
  BY <1>1, FuseAssumption
<1>3. \A j \in Live : fuseSockets[inst[j]] = j
  BY <1>2 DEF LiveEntered
<1>4. EntriesLive'
  BY <1>1, <1>3 DEF EntriesLive
<1>5. LiveEntered'
  <2> SUFFICES ASSUME NEW j \in Live, j # m PROVE fuseSockets'[inst[j]] = j
    BY <1>1 DEF LiveEntered
  <2>1. inst[j] # inst[m] /\ inst[j] \in Instances
    BY <1>1, <1>3 DEF Live
  <2> QED
    BY <1>1, <1>3, <2>1
<1>6. HolderMakes'
  BY <1>1, <1>2 DEF HolderMakes
<1> QED
  BY <1>4, <1>5, <1>6

\* No other step disturbs the registry.
LEMMA RegistryStep == TypeOK /\ LoopOrder /\ Registry /\ [Next]_vars => Registry'
<1> SUFFICES ASSUME TypeOK, LoopOrder, Registry, [Next]_vars PROVE Registry'
  OBVIOUS
<1> USE DEF TypeOK, lookupVars, mountVars
<1>1. ASSUME UNCHANGED <<fuseSockets, lookup, wanted, made, inst>>, Live' = Live PROVE Registry'
  BY <1>1, RegistryFrame
<1>2. ASSUME NEW k \in Callers, NEW i \in Instances, Request(k, i) PROVE Registry'
  <2>1. Live' = Live
    BY <1>2 DEF Request, Live
  <2> QED
    BY <1>2, <2>1, RegistryFrame DEF Request
<1>3. ASSUME NEW k \in Callers, LookupLocked(k) PROVE Registry'
  <2>1. Live' = Live
    BY <1>3 DEF LookupLocked, Live
  <2>2. CASE fuseSockets[wanted[k]] # 0
    BY <1>3, <2>1, <2>2, RegistryFrame DEF LookupLocked, Answer
  <2>3. CASE fuseSockets[wanted[k]] = 0
    BY <1>3, <2>1, <2>3 DEF LookupLocked, Registry, EntriesLive, LiveEntered, HolderMakes
  <2> QED
    BY <2>2, <2>3
<1>4. ASSUME NEW k \in Callers, LookupFails(k) PROVE Registry'
  <2>1. Live' = Live
    BY <1>4 DEF LookupFails, Live
  <2> QED
    BY <1>4, <2>1 DEF LookupFails, Answer, Registry, EntriesLive, LiveEntered, HolderMakes
<1>5. ASSUME NEW m \in Ids, AcceptFails(m) \/ Report(m) \/ CloseMount(m) PROVE Registry'
  <2>1. Live' = Live
    BY <1>5 DEF AcceptFails, Report, CloseMount, Live
  <2> QED
    BY <1>1, <1>5, <2>1 DEF AcceptFails, Report, CloseMount
<1>6. CASE ServeNext \/ Cancel \/ CloseBegin \/ CloseNext \/ UNCHANGED vars
  <2>1. UNCHANGED <<fuseSockets, lookup, wanted, made, inst, loop>>
    BY <1>6 DEF ServeNext, ServeMount, ServeSet, ServeNotify, ServeCancelled, Cancel, CloseBegin,
       CloseNext, Unmount, UnmountDone, FuseMounts, CloseWaited, WaitForFUSEMounts, vars
  <2> QED
    BY <1>1, <2>1 DEF Live
<1> QED
  BY <1>2, <1>3, <1>4, <1>5, <1>6, MountedStep, StoreStep, UnregisterStep DEF Next, LookupNext, LoopNext
-----------------------------------------------------------------------------
(***************************************************************************)
(* Unmount and Close.                                                      *)
(***************************************************************************)

\* serveFuse and Close take the FUSE server through its states in order, and no
\* request comes in once it is cut off.
LEMMA ServerStep == TypeOK /\ ServerOrder /\ [Next]_vars => ServerOrder'
<1> SUFFICES ASSUME TypeOK, ServerOrder, [Next]_vars PROVE ServerOrder'
  OBVIOUS
<1> USE DEF TypeOK, ServerOrder, lookupVars, serveVars, closeVars
<1>1. CASE UNCHANGED <<server, serve, closer, lookup>>
  BY <1>1
<1>2. ASSUME NEW k \in Callers, LookupNext(k) \/ \E i \in Instances : Request(k, i) PROVE ServerOrder'
  <2>1. UNCHANGED <<server, serve, closer>>
    BY <1>2 DEF LookupNext, LookupLocked, LookupMounted, LookupFails, LookupStore, Request
  <2>2. server # "unmounted"
    BY <1>2 DEF LookupNext, LookupLocked, LookupMounted, LookupFails, LookupStore, Request
  <2> QED
    BY <2>1, <2>2
<1>3. ASSUME NEW m \in Ids, LoopNext(m) \/ CloseMount(m) PROVE ServerOrder'
  BY <1>3 DEF LoopNext, AcceptFails, Unregister, Report, CloseMount
<1>4. CASE ServeNext
  BY <1>4 DEF ServeNext, ServeMount, ServeSet, ServeNotify, ServeCancelled
<1>5. CASE CloseNext
  BY <1>5 DEF CloseNext, Unmount, UnmountDone, FuseMounts, CloseWaited, WaitForFUSEMounts
<1>6. CASE Cancel \/ CloseBegin \/ UNCHANGED vars
  BY <1>6 DEF Cancel, CloseBegin, vars
<1> QED
  BY <1>2, <1>3, <1>4, <1>5, <1>6 DEF Next

\* The snapshot of Close is complete and stays so: it is taken with the mutex
\* free, when every live socket has its entry, and no Lookup is left.
LEMMA MissesNoneStep ==
    TypeOK /\ Registry /\ ServerOrder /\ CloseMissesNoSocket /\ [Next]_vars => CloseMissesNoSocket'
<1> SUFFICES ASSUME TypeOK, Registry, ServerOrder, CloseMissesNoSocket, [Next]_vars,
                    server' = "unmounted", closer' \in {"wait", "close", "returned"}
             PROVE  \A m \in Live' : m \in closing' \/ listener'[m] = "closed"
  BY DEF CloseMissesNoSocket
<1> USE DEF TypeOK, lookupVars, mountVars, serveVars, closeVars
<1>1. CASE /\ UNCHANGED <<server, closer, closing, listener>>
           /\ Live' \subseteq Live
  BY <1>1 DEF CloseMissesNoSocket
<1>2. ASSUME NEW k \in Callers, LookupNext(k) \/ \E i \in Instances : Request(k, i) PROVE FALSE
  BY <1>2 DEF LookupNext, LookupLocked, LookupMounted, LookupFails, LookupStore, Request, ServerOrder
<1>3. ASSUME NEW m \in Ids, LoopNext(m)
      PROVE  UNCHANGED <<server, closer, closing, listener>> /\ Live' \subseteq Live
  BY <1>3 DEF LoopNext, AcceptFails, Unregister, Report, Live
<1>4. ASSUME NEW j \in Ids, CloseMount(j)
      PROVE  \A m \in Live' : m \in closing' \/ listener'[m] = "closed"
  BY <1>4 DEF CloseMount, CloseMissesNoSocket, Live
<1>5. CASE ServeNext
  <2>1. server = "unmounted"
    BY <1>5 DEF ServeNext, ServeMount, ServeSet, ServeNotify, ServeCancelled
  <2> QED
    BY <1>1, <1>5, <2>1 DEF ServeNext, ServeMount, ServeSet, ServeNotify, ServeCancelled, Live
<1>6. CASE Cancel \/ UNCHANGED vars
  BY <1>1, <1>6 DEF Cancel, Live, vars
<1>7. CASE FuseMounts
  <2>1. \A k \in Callers : lookup[k] # "store"
    BY <1>7, FuseAssumption DEF FuseMounts
  <2>2. Live' = Live /\ \A m \in Live : fuseSockets[inst[m]] = m /\ inst[m] \in Instances /\ m # 0
    BY <1>7, <2>1 DEF FuseMounts, Registry, LiveEntered, Live, Ids
  <2> QED
    BY <1>7, <2>2 DEF FuseMounts
<1>8. CASE CloseWaited \/ WaitForFUSEMounts
  BY <1>8 DEF CloseWaited, WaitForFUSEMounts, CloseMissesNoSocket, Live
<1>9. CASE CloseBegin \/ Unmount \/ UnmountDone
  BY <1>9 DEF CloseBegin, Unmount, UnmountDone
<1> QED
  BY <1>1, <1>2, <1>3, <1>4, <1>5, <1>6, <1>7, <1>8, <1>9 DEF Next, CloseNext
-----------------------------------------------------------------------------
(***************************************************************************)
(* The theorems.                                                           *)
(***************************************************************************)

\* The registry, the loops, the mutex and the FUSE server stay consistent in
\* every reachable state.
THEOREM FuseInvariance == Spec => []FuseInv
<1>1. Init => FuseInv
  BY InitFuse
<1>2. FuseInv /\ [Next]_vars => FuseInv'
  BY FuseTypeStep, RegistryStep, ServerStep, MissesNoneStep DEF FuseInv, Registry
<1> QED
  BY <1>1, <1>2, PTL DEF Spec

\* Every variable keeps its type, and fuseMu is held by exactly those between
\* their Lock and their Unlock.
THEOREM FuseTypeCorrect == Spec => []TypeOK
<1>1. FuseInv => TypeOK
  BY DEF FuseInv
<1> QED
  BY <1>1, FuseInvariance, PTL

\* Whenever the mutex is free, fuseSockets lists the live sockets and no other,
\* however many Lookups and failing loops have met.
THEOREM RegistryExact == Spec => []Registered
<1>1. FuseInv => Registered
  <2> SUFFICES ASSUME FuseInv, fuseMu = "free" PROVE \A m \in Live : fuseSockets[inst[m]] = m
    BY DEF FuseInv, EntriesLive, Registered
  <2>1. \A k \in Callers : lookup[k] # "store"
    BY FuseAssumption DEF FuseInv, TypeOK
  <2> QED
    BY <2>1 DEF FuseInv, LiveEntered
<1> QED
  BY <1>1, FuseInvariance, PTL

\* After a successful unmount Close closes every socket that has a loop.
THEOREM CloseComplete == Spec => []CloseMissesNoSocket
<1>1. FuseInv => CloseMissesNoSocket
  BY DEF FuseInv
<1> QED
  BY <1>1, FuseInvariance, PTL
==============================================================================
