-------------------------------- MODULE Fuse --------------------------------
(***************************************************************************)
(* proxy.Client with FUSE: sockets are made when somebody looks up the     *)
(* name of an instance in the mounted directory.  Lookup requests come     *)
(* from the kernel concurrently; each socket has an accept loop of its     *)
(* own, which takes the socket out of fuseSockets again when it fails;     *)
(* Serve is serveFuse; and Close unmounts, takes the sockets it finds,     *)
(* closes them and waits for their loops.                                  *)
(*                                                                         *)
(* Handlers of connections are the subject of module Client: here the wait *)
(* of Close for them is one step, which its timer bounds.                  *)
(***************************************************************************)
EXTENDS Naturals

CONSTANTS Instances,    \* valid instance connection names
          Callers,      \* bound: Lookup requests in progress at once
          MaxMounts     \* bound: sockets made

ASSUME FuseAssumption == MaxMounts \in Nat /\ Instances # {}
                         /\ Callers \cap {"free", "loop"} = {}

Ids == 1..MaxMounts     \* names of socketMounts, in the order they are made
Blank == CHOOSE i \in Instances : TRUE      \* written where there is no instance

VARIABLES
    fuseSockets,    \* per instance, the socketMount registered, or 0
    fuseMu,         \* who holds the mutex: "free", "loop" or a caller
    lookup,         \* per caller, where its Lookup is
    wanted,         \* per caller, the instance it looks up
    made,           \* per caller, the socketMount it has made, or 0
    inst,           \* per socketMount, its instance
    listener,       \* per socketMount, "none", "open" or "closed"
    loop,           \* per socketMount, where its accept loop is
    server,         \* the FUSE server: "none", "mounted", "set", "unmounting", "unmounted"
    serve,          \* where serveFuse is
    ctxDone,        \* whether the context of Serve is cancelled
    closer,         \* where Close is
    closing         \* the socketMounts Close still has to close

lookupVars == <<lookup, wanted, made>>
mountVars  == <<inst, listener, loop>>
serveVars  == <<server, serve, ctxDone>>
closeVars  == <<closer, closing>>
vars == <<fuseSockets, fuseMu, lookupVars, mountVars, serveVars, closeVars>>

Init ==
    /\ fuseSockets = [i \in Instances |-> 0] /\ fuseMu = "free"
    /\ lookup = [k \in Callers |-> "idle"]
    /\ wanted = [k \in Callers |-> Blank]
    /\ made = [k \in Callers |-> 0]
    /\ inst = [m \in Ids |-> Blank]
    /\ listener = [m \in Ids |-> "none"] /\ loop = [m \in Ids |-> "off"]
    /\ server = "none" /\ serve = "idle" /\ ctxDone = FALSE
    /\ closer = "idle" /\ closing = {}
-----------------------------------------------------------------------------
(***************************************************************************)
(* Lookup.                                                                 *)
(***************************************************************************)

\* The kernel hands over a request as long as the directory is mounted.  The
\* name is an instance's: README and names that do not parse change nothing.
Request(k, i) ==
    /\ server \in {"mounted", "set"}
    /\ lookup[k] = "idle"
    /\ lookup' = [lookup EXCEPT ![k] = "lock"]
    /\ wanted' = [wanted EXCEPT ![k] = i]
    /\ UNCHANGED <<fuseSockets, fuseMu, made, mountVars, serveVars, closeVars>>

\* The request is answered; the deferred Unlock.
Answer(k) ==
    /\ lookup' = [lookup EXCEPT ![k] = "idle"]
    /\ wanted' = [wanted EXCEPT ![k] = Blank]
    /\ fuseMu' = "free"

\* Mutant: the mutex is not held while the socket is being made.
LookupLockedBriefly(k) ==
    /\ lookup[k] = "lock" /\ fuseMu = "free"
    /\ \/ fuseSockets[wanted[k]] # 0 /\ Answer(k)
       \/ /\ fuseSockets[wanted[k]] = 0
          /\ lookup' = [lookup EXCEPT ![k] = "mount"]
          /\ UNCHANGED <<wanted, fuseMu>>
    /\ UNCHANGED <<fuseSockets, made, mountVars, serveVars, closeVars>>

\* Take the mutex; an instance that is registered is answered at once.
LookupLocked(k) ==
    /\ lookup[k] = "lock" /\ fuseMu = "free"
    /\ \/ fuseSockets[wanted[k]] # 0 /\ Answer(k)
       \/ /\ fuseSockets[wanted[k]] = 0
          /\ lookup' = [lookup EXCEPT ![k] = "mount"]
          /\ fuseMu' = k
          /\ UNCHANGED wanted
    /\ UNCHANGED <<fuseSockets, made, mountVars, serveVars, closeVars>>

\* newSocketMount succeeds, which needs the path of the socket to be free, and
\* the accept loop is started.
LookupMounted(k) ==
    /\ lookup[k] = "mount"
    /\ \A m \in Ids : inst[m] = wanted[k] => listener[m] # "open"
    /\ \E m \in Ids :
          /\ listener[m] = "none" /\ \A j \in Ids : j < m => listener[j] # "none"
          /\ inst' = [inst EXCEPT ![m] = wanted[k]]
          /\ listener' = [listener EXCEPT ![m] = "open"]
          /\ loop' = [loop EXCEPT ![m] = "accept"]
          /\ made' = [made EXCEPT ![k] = m]
    /\ lookup' = [lookup EXCEPT ![k] = "store"]
    /\ UNCHANGED <<fuseSockets, fuseMu, wanted, serveVars, closeVars>>

\* Mutant: no deferred Unlock on the way out with an error.
LookupFailsHolding(k) ==
    /\ lookup[k] = "mount"
    /\ lookup' = [lookup EXCEPT ![k] = "idle"]
    /\ UNCHANGED <<fuseSockets, fuseMu, wanted, made, mountVars, serveVars, closeVars>>

\* newSocketMount fails and the answer is ENOENT.
LookupFails(k) ==
    /\ lookup[k] = "mount"
    /\ Answer(k)
    /\ UNCHANGED <<fuseSockets, made, mountVars, serveVars, closeVars>>

\* Register the socket and answer.
LookupStore(k) ==
    /\ lookup[k] = "store"
    /\ fuseSockets' = [fuseSockets EXCEPT ![wanted[k]] = made[k]]
    /\ made' = [made EXCEPT ![k] = 0]
    /\ Answer(k)
    /\ UNCHANGED <<mountVars, serveVars, closeVars>>
-----------------------------------------------------------------------------
(***************************************************************************)
(* The accept loop of a socket.                                            *)
(***************************************************************************)

\* serveSocketMount returns: its listener was closed, or Accept failed for a
\* reason of its own, and then nobody closes the listener.
AcceptFails(m) ==
    /\ loop[m] = "accept"
    /\ loop' = [loop EXCEPT ![m] = "failed"]
    /\ UNCHANGED <<fuseSockets, fuseMu, lookupVars, inst, listener, serveVars, closeVars>>

\* Take the mutex and delete the entry of the instance.
Unregister(m) ==
    /\ loop[m] = "failed" /\ fuseMu = "free"
    /\ fuseMu' = "loop"
    /\ fuseSockets' = [fuseSockets EXCEPT ![inst[m]] = 0]
    /\ loop' = [loop EXCEPT ![m] = "report"]
    /\ UNCHANGED <<lookupVars, inst, listener, serveVars, closeVars>>

\* Mutant: the send on fuseExitCh waits for a reader.
ReportBlocking(m) ==
    /\ loop[m] = "report" /\ serve = "select"
    /\ serve' = "returned"
    /\ fuseMu' = "free"
    /\ loop' = [loop EXCEPT ![m] = "done"]
    /\ UNCHANGED <<fuseSockets, lookupVars, inst, listener, server, ctxDone, closeVars>>

\* A send on fuseExitCh that does not wait.  fuseExitCh may be read while
\* serveFuse assigns it, under another mutex, but nil and the new channel both
\* have no reader: there is one only while serveFuse is in its select.  Then
\* the mutex is released, and fuseWg.Done.
Report(m) ==
    /\ loop[m] = "report"
    /\ serve' = IF serve = "select" THEN "returned" ELSE serve
    /\ fuseMu' = "free"
    /\ loop' = [loop EXCEPT ![m] = "done"]
    /\ UNCHANGED <<fuseSockets, lookupVars, inst, listener, server, ctxDone, closeVars>>
-----------------------------------------------------------------------------
(***************************************************************************)
(* serveFuse.                                                              *)
(***************************************************************************)

\* fs.Mount: from here on requests come in, though fuseServer is not set.
ServeMount ==
    /\ serve = "idle"
    /\ \/ serve' = "mounted" /\ server' = "mounted"
       \/ serve' = "returned" /\ UNCHANGED server
    /\ UNCHANGED <<fuseSockets, fuseMu, lookupVars, mountVars, ctxDone, closeVars>>

\* Set fuseServer and make fuseExitCh.
ServeSet ==
    /\ serve = "mounted"
    /\ serve' = "notify" /\ server' = "set"
    /\ UNCHANGED <<fuseSockets, fuseMu, lookupVars, mountVars, ctxDone, closeVars>>

ServeNotify ==
    /\ serve = "notify"
    /\ serve' = "select"
    /\ UNCHANGED <<fuseSockets, fuseMu, lookupVars, mountVars, server, ctxDone, closeVars>>

ServeCancelled ==
    /\ serve = "select" /\ ctxDone
    /\ serve' = "returned"
    /\ UNCHANGED <<fuseSockets, fuseMu, lookupVars, mountVars, server, ctxDone, closeVars>>

\* The caller of Serve cancels its context.
Cancel ==
    /\ ~ctxDone
    /\ ctxDone' = TRUE
    /\ UNCHANGED <<fuseSockets, fuseMu, lookupVars, mountVars, server, serve, closeVars>>
-----------------------------------------------------------------------------
(***************************************************************************)
(* Close.                                                                  *)
(***************************************************************************)

CloseBegin ==
    /\ closer = "idle"
    /\ closer' = "unmount"
    /\ UNCHANGED <<fuseSockets, fuseMu, lookupVars, mountVars, serveVars, closing>>

\* Mutant: Unmount does not wait for requests in progress.
UnmountLazy ==
    /\ closer = "unmount" /\ server \in {"none", "mounted", "set"}
    /\ closer' = "snapshot"
    /\ server' = IF server = "set" THEN "unmounted" ELSE server
    /\ UNCHANGED <<fuseSockets, fuseMu, lookupVars, mountVars, serve, ctxDone, closing>>

\* unmountFUSE: nothing to do without fuseServer; otherwise Unmount fails, for
\* instance because the directory is in use, or cuts the kernel off.
Unmount ==
    /\ closer = "unmount" /\ server \in {"none", "mounted", "set"}
    /\ \/ closer' = "snapshot" /\ UNCHANGED server
       \/ server = "set" /\ server' = "unmounting" /\ UNCHANGED closer
    /\ UNCHANGED <<fuseSockets, fuseMu, lookupVars, mountVars, serve, ctxDone, closing>>

\* Unmount returns when the requests it found in progress are answered.  That is
\* what the library's loop does on Linux, and an assumption about it elsewhere.
UnmountDone ==
    /\ closer = "unmount" /\ server = "unmounting"
    /\ \A k \in Callers : lookup[k] = "idle"
    /\ server' = "unmounted" /\ closer' = "snapshot"
    /\ UNCHANGED <<fuseSockets, fuseMu, lookupVars, mountVars, serve, ctxDone, closing>>

\* fuseMounts, under the mutex.
FuseMounts ==
    /\ closer = "snapshot" /\ fuseMu = "free"
    /\ closing' = {fuseSockets[i] : i \in Instances} \ {0}
    /\ closer' = "wait"
    /\ UNCHANGED <<fuseSockets, fuseMu, lookupVars, mountVars, serveVars>>

\* dialer.Close and the wait for connections.
CloseWaited ==
    /\ closer = "wait"
    /\ closer' = "close"
    /\ UNCHANGED <<fuseSockets, fuseMu, lookupVars, mountVars, serveVars, closing>>

CloseMount(m) ==
    /\ closer = "close" /\ m \in closing
    /\ listener' = [listener EXCEPT ![m] = "closed"]
    /\ closing' = closing \ {m}
    /\ UNCHANGED <<fuseSockets, fuseMu, lookupVars, inst, loop, serveVars, closer>>

\* waitForFUSEMounts: fuseWg counts the loops that have not ended.
WaitForFUSEMounts ==
    /\ closer = "close" /\ closing = {}
    /\ \A m \in Ids : loop[m] \in {"off", "done"}
    /\ closer' = "returned"
    /\ UNCHANGED <<fuseSockets, fuseMu, lookupVars, mountVars, serveVars, closing>>
-----------------------------------------------------------------------------
LookupNext(k) == LookupLocked(k) \/ LookupMounted(k) \/ LookupFails(k) \/ LookupStore(k)
LoopNext(m) == AcceptFails(m) \/ Unregister(m) \/ Report(m)
ServeNext == ServeMount \/ ServeSet \/ ServeNotify \/ ServeCancelled
CloseNext == Unmount \/ UnmountDone \/ FuseMounts \/ CloseWaited \/ WaitForFUSEMounts

Next ==
    \/ \E k \in Callers : LookupNext(k) \/ \E i \in Instances : Request(k, i)
    \/ \E m \in Ids : LoopNext(m) \/ CloseMount(m)
    \/ ServeNext \/ Cancel \/ CloseBegin \/ CloseNext

Spec == Init /\ [][Next]_vars

(***************************************************************************)
(* Goroutines run, newSocketMount returns, Accept returns once its         *)
(* listener is closed, and whoever waits for fuseMu gets it in the end     *)
(* (a sync.Mutex hands itself over to a waiter that has starved), which    *)
(* takes strong fairness.  Nobody has to look anything up or call Close.   *)
(***************************************************************************)
Fairness ==
    /\ \A k \in Callers : SF_vars(LookupLocked(k))
                          /\ WF_vars(LookupMounted(k) \/ LookupFails(k) \/ LookupStore(k))
    /\ \A m \in Ids : /\ WF_vars(listener[m] = "closed" /\ AcceptFails(m))
                      /\ SF_vars(Unregister(m)) /\ WF_vars(Report(m)) /\ WF_vars(CloseMount(m))
    /\ WF_vars(ServeNext) /\ SF_vars(FuseMounts)
    /\ WF_vars(Unmount \/ UnmountDone \/ CloseWaited \/ WaitForFUSEMounts)

FairSpec == Spec /\ Fairness
-----------------------------------------------------------------------------
\* The sockets whose accept loop has not given them up.
Live == {m \in Ids : loop[m] \in {"accept", "failed"}}

\* Every variable keeps its type, and fuseMu is held by whoever is between
\* its Lock and its Unlock.
TypeOK ==
    /\ fuseSockets \in [Instances -> {0} \cup Ids]
    /\ fuseMu \in {"free", "loop"} \cup Callers
    /\ lookup \in [Callers -> {"idle", "lock", "mount", "store"}]
    /\ wanted \in [Callers -> Instances] /\ made \in [Callers -> {0} \cup Ids]
    /\ inst \in [Ids -> Instances]
    /\ listener \in [Ids -> {"none", "open", "closed"}]
    /\ loop \in [Ids -> {"off", "accept", "failed", "report", "done"}]
    /\ server \in {"none", "mounted", "set", "unmounting", "unmounted"}
    /\ serve \in {"idle", "mounted", "notify", "select", "returned"} /\ ctxDone \in BOOLEAN
    /\ closer \in {"idle", "unmount", "snapshot", "wait", "close", "returned"}
    /\ closing \subseteq Ids
    /\ \A k \in Callers : fuseMu = k <=> lookup[k] \in {"mount", "store"}
    /\ fuseMu = "loop" <=> \E m \in Ids : loop[m] = "report"

\* Whenever fuseMu is free, fuseSockets lists exactly the sockets whose accept
\* loop has not given up, each under its own instance: a loop that fails while
\* its socket is being registered does not leave a dead entry behind, and no
\* loop deletes the entry of a later socket of the same instance.
Registered ==
    fuseMu = "free" =>
        /\ \A m \in Live : fuseSockets[inst[m]] = m
        /\ \A i \in Instances : fuseSockets[i] # 0 => fuseSockets[i] \in Live
                                                      /\ inst[fuseSockets[i]] = i

\* After a successful unmount, every socket with an accept loop is closed or
\* is one that Close is about to close: the snapshot misses none that a Lookup
\* was making, so that waiting for the loops is waiting for closed listeners.
CloseMissesNoSocket ==
    server = "unmounted" /\ closer \in {"wait", "close", "returned"} =>
        \A m \in Live : m \in closing \/ listener[m] = "closed"

\* No Lookup waits for ever: neither for another one that is making a socket
\* nor for an accept loop that reports its error with the mutex held.
LookupAnswered == \A k \in Callers : lookup[k] # "idle" ~> lookup[k] = "idle"

\* After a successful unmount Close returns.
CloseReturns == server = "unmounted" ~> closer = "returned"
==============================================================================
