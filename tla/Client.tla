------------------------------- MODULE Client -------------------------------
(***************************************************************************)
(* proxy.Client without FUSE: Serve and its accept loops, the goroutine    *)
(* that handles one accepted connection, and Close, all running            *)
(* concurrently on the shared counter connCount.                           *)
(*                                                                         *)
(* A member of Conns names a connection from the moment a local client     *)
(* connects until its goroutine has returned; the name is then free again, *)
(* so Conns bounds how many connections exist at once, not how many the    *)
(* proxy serves over its life.  What flows through an established          *)
(* connection is the subject of module ProxyConn.                          *)
(***************************************************************************)
EXTENDS Integers, FiniteSets

CONSTANTS
    Conns,              \* names of client connections
    NumMounts,          \* len(Client.mnts), the listening sockets
    MaxConnections,     \* Config.MaxConnections, 0 for no limit
    WaitOnClose,        \* whether Config.WaitOnClose > 0
    RunConnectionTest,  \* Config.RunConnectionTest
    Word                \* number of values of a uint64

ASSUME ConnsAssumption == IsFiniteSet(Conns)

ASSUME MountsAssumption == NumMounts \in Nat

ASSUME LimitAssumption == MaxConnections \in Nat

\* connCount never comes near wrapping: fewer goroutines exist than uint64s.
ASSUME WordAssumption == Word \in Nat /\ Cardinality(Conns) + 1 < Word

ASSUME FlagAssumption == WaitOnClose \in BOOLEAN /\ RunConnectionTest \in BOOLEAN

Mounts == 1..NumMounts      \* the indices of Client.mnts

VARIABLES
    connCount,      \* Client.connCount, updated atomically
    pc,             \* where each connection's goroutine is
    backlog,        \* per mount, connections the kernel holds for Accept
    clientOpen,     \* connections whose cConn is open in the proxy
    serverOpen,     \* connections whose sConn is open in the proxy
    notifying,      \* connections whose connRefuseNotify goroutine is pending
    listener,       \* per mount, whether socketMount.listener is open
    accepting,      \* per mount, where its serveSocketMount goroutine is
    serve,          \* where the goroutine running Serve is
    closer,         \* where the goroutine running Close is
    closeErr,       \* the errors Close has collected in mErr
    timedOut,       \* whether the WaitOnClose timer ended the wait
    draining        \* history: handlers counted when Close was called, not ended yet

connVars  == <<connCount, pc, backlog, clientOpen, serverOpen, notifying>>
serveVars == <<listener, accepting, serve>>
closeVars == <<closer, closeErr, timedOut, draining>>
vars == <<connVars, serveVars, closeVars>>

ConnStates   == {"none", "queued", "spawned", "refused", "dialing", "proxying", "exiting"}
AcceptStates == {"off", "accept", "backoff", "failed", "reported", "dropped"}
ServeStates  == {"idle", "test", "spawn", "notify", "recv", "returned"}
CloserStates == {"idle", "dialer", "wait", "listeners", "verify", "returned"}

\* Mutant: a sum that does not wrap.
AddNoWrap(a, b) == a + b

\* atomic.AddUint64 on two uint64 values.
AddUint64(a, b) == IF a + b < Word THEN a + b ELSE a + b - Word

\* Goroutines between the increment of connCount and the deferred decrement.
Counted  == {c \in Conns : pc[c] \in {"refused", "dialing", "proxying", "exiting"}}

\* Connections let through by the limit and still using it.
Admitted == {c \in Conns : pc[c] \in {"dialing", "proxying"}}

Init ==
    /\ connCount = 0
    /\ pc = [c \in Conns |-> "none"]
    /\ backlog = [m \in Mounts |-> {}]
    /\ clientOpen = {}
    /\ serverOpen = {}
    /\ notifying = {}
    /\ listener = [m \in Mounts |-> "open"]     \* newSocketMount listens
    /\ accepting = [m \in Mounts |-> "off"]
    /\ serve = "idle"
    /\ closer = "idle"
    /\ closeErr = {}
    /\ timedOut = FALSE
    /\ draining = {}
-----------------------------------------------------------------------------
(***************************************************************************)
(* The local client and the kernel.                                        *)
(***************************************************************************)

\* A local client connects to a listening socket; the kernel queues it.
Connect(c, m) ==
    /\ pc[c] = "none" /\ c \notin notifying
    /\ listener[m] = "open"
    /\ pc' = [pc EXCEPT ![c] = "queued"]
    /\ backlog' = [backlog EXCEPT ![m] = @ \cup {c}]
    /\ UNCHANGED <<connCount, clientOpen, serverOpen, notifying, serveVars, closeVars>>
-----------------------------------------------------------------------------
(***************************************************************************)
(* Serve.                                                                  *)
(***************************************************************************)

ServeBegin ==
    /\ serve = "idle"
    /\ serve' = IF RunConnectionTest THEN "test" ELSE "spawn"
    /\ UNCHANGED <<connVars, listener, accepting, closeVars>>

\* CheckConnections succeeds, or its error makes Serve return.
ServeTested ==
    /\ serve = "test"
    /\ serve' \in {"spawn", "returned"}
    /\ UNCHANGED <<connVars, listener, accepting, closeVars>>

ServeSpawn(m) ==
    /\ serve = "spawn"
    /\ accepting[m] = "off"
    /\ \A k \in Mounts : k < m => accepting[k] # "off"
    /\ accepting' = [accepting EXCEPT ![m] = "accept"]
    /\ UNCHANGED <<connVars, listener, serve, closeVars>>

\* Mutant: Serve notifies while it is still starting the accept loops.
ServeSpawnedEarly ==
    /\ serve = "spawn"
    /\ \E m \in Mounts : accepting[m] # "off"
    /\ serve' = "notify"
    /\ UNCHANGED <<connVars, listener, accepting, closeVars>>

ServeSpawned ==
    /\ serve = "spawn"
    /\ \A m \in Mounts : accepting[m] # "off"
    /\ serve' = "notify"
    /\ UNCHANGED <<connVars, listener, accepting, closeVars>>

\* notify() returns and Serve blocks on <-exitCh.
ServeNotify ==
    /\ serve = "notify"
    /\ serve' = "recv"
    /\ UNCHANGED <<connVars, listener, accepting, closeVars>>
-----------------------------------------------------------------------------
(***************************************************************************)
(* serveSocketMount, one goroutine per mount.                              *)
(***************************************************************************)

Accept(m) ==
    /\ accepting[m] = "accept"
    /\ listener[m] = "open"
    /\ \E c \in backlog[m] :
          /\ backlog' = [backlog EXCEPT ![m] = @ \ {c}]
          /\ pc' = [pc EXCEPT ![c] = "spawned"]
          /\ clientOpen' = clientOpen \cup {c}
    /\ UNCHANGED <<connCount, serverOpen, notifying, serveVars, closeVars>>

\* A net.Error with Timeout(): log, sleep 10ms, loop.
AcceptTimeout(m) ==
    /\ accepting[m] = "accept"
    /\ listener[m] = "open"
    /\ accepting' = [accepting EXCEPT ![m] = "backoff"]
    /\ UNCHANGED <<connVars, listener, serve, closeVars>>

AcceptRetry(m) ==
    /\ accepting[m] = "backoff"
    /\ accepting' = [accepting EXCEPT ![m] = "accept"]
    /\ UNCHANGED <<connVars, listener, serve, closeVars>>

\* Mutant: every error of Accept is taken for a transient one.
AcceptFailsTransient(m) ==
    /\ accepting[m] = "accept"
    /\ accepting' = [accepting EXCEPT ![m] = "backoff"]
    /\ UNCHANGED <<connVars, listener, serve, closeVars>>

\* Any other error ends the loop: the listener was closed, or Accept failed
\* for a reason of its own, such as running out of file descriptors.
AcceptFails(m) ==
    /\ accepting[m] = "accept"
    /\ accepting' = [accepting EXCEPT ![m] = "failed"]
    /\ UNCHANGED <<connVars, listener, serve, closeVars>>

\* Mutant: exitCh is never left without a reader, so every loop reports.
ReportExitAll(m) ==
    /\ accepting[m] = "failed"
    /\ serve \in {"recv", "returned"}
    /\ serve' = "returned"
    /\ accepting' = [accepting EXCEPT ![m] = "reported"]
    /\ UNCHANGED <<connVars, listener, closeVars>>

\* select { case exitCh <- err: default: }: exitCh is unbuffered, so the send
\* happens only when Serve is already receiving.
ReportExit(m) ==
    /\ accepting[m] = "failed"
    /\ \/ /\ serve = "recv"
          /\ serve' = "returned"
          /\ accepting' = [accepting EXCEPT ![m] = "reported"]
       \/ /\ serve # "recv"
          /\ serve' = serve
          /\ accepting' = [accepting EXCEPT ![m] = "dropped"]
    /\ UNCHANGED <<connVars, listener, closeVars>>
-----------------------------------------------------------------------------
(***************************************************************************)
(* The goroutine that handles one connection.                              *)
(***************************************************************************)

\* Mutant: the limit is compared with the count before this connection.
ExceedsOffByOne(count) == MaxConnections > 0 /\ count - 1 > MaxConnections

Exceeds(count) == MaxConnections > 0 /\ count > MaxConnections

\* Count the connection, then compare the count just obtained with the limit.
Enter(c) ==
    LET count == AddUint64(connCount, 1) IN
    /\ pc[c] = "spawned"
    /\ connCount' = count
    /\ pc' = [pc EXCEPT ![c] = IF Exceeds(count) THEN "refused" ELSE "dialing"]
    /\ UNCHANGED <<backlog, clientOpen, serverOpen, notifying, serveVars, closeVars>>

\* Mutant: the refused client's connection is left open.
RefuseLeaks(c) ==
    /\ pc[c] = "refused"
    /\ pc' = [pc EXCEPT ![c] = "exiting"]
    /\ notifying' \in {notifying, notifying \cup {c}}
    /\ UNCHANGED <<connCount, backlog, clientOpen, serverOpen, serveVars, closeVars>>

\* Mutant: the handler hangs up on the client and does not return.
RefuseGoesOn(c) ==
    /\ pc[c] = "refused"
    /\ pc' = [pc EXCEPT ![c] = "dialing"]
    /\ clientOpen' = clientOpen \ {c}
    /\ notifying' \in {notifying, notifying \cup {c}}
    /\ UNCHANGED <<connCount, backlog, serverOpen, serveVars, closeVars>>

\* Start connRefuseNotify, if there is one, and hang up on the client.
Refuse(c) ==
    /\ pc[c] = "refused"
    /\ pc' = [pc EXCEPT ![c] = "exiting"]
    /\ clientOpen' = clientOpen \ {c}
    /\ notifying' \in {notifying, notifying \cup {c}}
    /\ UNCHANGED <<connCount, backlog, serverOpen, serveVars, closeVars>>

\* The goroutine started for connRefuseNotify runs and ends.
RefuseNotify(c) ==
    /\ c \in notifying
    /\ notifying' = notifying \ {c}
    /\ UNCHANGED <<connCount, pc, backlog, clientOpen, serverOpen, serveVars, closeVars>>

DialSucceeds(c) ==
    /\ pc[c] = "dialing"
    /\ pc' = [pc EXCEPT ![c] = "proxying"]
    /\ serverOpen' = serverOpen \cup {c}
    /\ UNCHANGED <<connCount, backlog, clientOpen, notifying, serveVars, closeVars>>

\* Dial returns an error, at the latest when its 30s context expires.
DialFails(c) ==
    /\ pc[c] = "dialing"
    /\ pc' = [pc EXCEPT ![c] = "exiting"]
    /\ clientOpen' = clientOpen \ {c}
    /\ UNCHANGED <<connCount, backlog, serverOpen, notifying, serveVars, closeVars>>

\* proxyConn returns; its cleanup has closed both ends (module ProxyConn).
ProxyEnds(c) ==
    /\ pc[c] = "proxying"
    /\ pc' = [pc EXCEPT ![c] = "exiting"]
    /\ clientOpen' = clientOpen \ {c}
    /\ serverOpen' = serverOpen \ {c}
    /\ UNCHANGED <<connCount, backlog, notifying, serveVars, closeVars>>

\* Mutant: no deferred decrement.
ExitUncounted(c) ==
    /\ pc[c] = "exiting"
    /\ pc' = [pc EXCEPT ![c] = "none"]
    /\ draining' = draining \ {c}
    /\ UNCHANGED <<connCount, backlog, clientOpen, serverOpen, notifying, serveVars, closer, closeErr, timedOut>>

\* The deferred atomic.AddUint64(&c.connCount, ^uint64(0)).
Exit(c) ==
    /\ pc[c] = "exiting"
    /\ pc' = [pc EXCEPT ![c] = "none"]
    /\ connCount' = AddUint64(connCount, Word - 1)
    /\ draining' = draining \ {c}
    /\ UNCHANGED <<backlog, clientOpen, serverOpen, notifying, serveVars, closer, closeErr, timedOut>>
-----------------------------------------------------------------------------
(***************************************************************************)
(* Close.                                                                  *)
(***************************************************************************)

CloseBegin ==
    /\ closer = "idle"
    /\ closer' = "dialer"
    /\ draining' = Counted
    /\ UNCHANGED <<connVars, serveVars, closeErr, timedOut>>

\* dialer.Close() may report an error; the WaitOnClose timer starts.
CloseDialer ==
    /\ closer = "dialer"
    /\ closer' = "wait"
    /\ closeErr' \in {{}, {"dialer"}}
    /\ UNCHANGED <<connVars, serveVars, timedOut, draining>>

\* Mutant: the first tick ends the wait.
CloseTickFirst ==
    /\ closer = "wait"
    /\ closer' = "listeners"
    /\ UNCHANGED <<connVars, serveVars, closeErr, timedOut, draining>>

\* The ticker fires and the counter is zero.  A tick that finds the counter
\* above zero goes round the loop and changes nothing.
CloseTick ==
    /\ closer = "wait"
    /\ connCount = 0
    /\ closer' = "listeners"
    /\ UNCHANGED <<connVars, serveVars, closeErr, timedOut, draining>>

\* Mutant: the timer is looked at only when a tick finds no connection.
CloseTimeoutIdle ==
    /\ closer = "wait" /\ connCount = 0
    /\ closer' = "listeners"
    /\ timedOut' = TRUE
    /\ UNCHANGED <<connVars, serveVars, closeErr, draining>>

CloseTimeout ==
    /\ closer = "wait"
    /\ closer' = "listeners"
    /\ timedOut' = TRUE
    /\ UNCHANGED <<connVars, serveVars, closeErr, draining>>

\* m.Close(): the kernel resets the connections still waiting for Accept.
CloseMount(m) ==
    /\ closer = "listeners"
    /\ listener[m] = "open"
    /\ \A k \in Mounts : k < m => listener[k] = "closed"
    /\ listener' = [listener EXCEPT ![m] = "closed"]
    /\ backlog' = [backlog EXCEPT ![m] = {}]
    /\ pc' = [c \in Conns |-> IF c \in backlog[m] THEN "none" ELSE pc[c]]
    /\ closeErr' \in {closeErr, closeErr \cup {"mount"}}
    /\ UNCHANGED <<connCount, clientOpen, serverOpen, notifying, accepting, serve, closer, timedOut, draining>>

\* Mutant: the first mount that fails to close ends the loop.
CloseListenersFirstError ==
    /\ closer = "listeners"
    /\ (\A m \in Mounts : listener[m] = "closed") \/ "mount" \in closeErr
    /\ closer' = "verify"
    /\ UNCHANGED <<connVars, serveVars, closeErr, timedOut, draining>>

CloseListenersDone ==
    /\ closer = "listeners"
    /\ \A m \in Mounts : listener[m] = "closed"
    /\ closer' = "verify"
    /\ UNCHANGED <<connVars, serveVars, closeErr, timedOut, draining>>

\* Mutant: connections are reported only when the timer ended the wait.
CloseVerifyTimedOut ==
    /\ closer = "verify"
    /\ closer' = "returned"
    /\ closeErr' = IF timedOut /\ WaitOnClose /\ connCount > 1
                   THEN closeErr \cup {"open"} ELSE closeErr
    /\ UNCHANGED <<connVars, serveVars, timedOut, draining>>

CloseVerify ==
    /\ closer = "verify"
    /\ closer' = "returned"
    /\ closeErr' = IF WaitOnClose /\ connCount > 0 THEN closeErr \cup {"open"} ELSE closeErr
    /\ UNCHANGED <<connVars, serveVars, timedOut, draining>>
-----------------------------------------------------------------------------
ServeNext  == ServeBegin \/ ServeTested \/ ServeSpawned \/ ServeNotify
MountNext(m) ==
    \/ ServeSpawn(m) \/ Accept(m) \/ AcceptTimeout(m) \/ AcceptRetry(m)
    \/ AcceptFails(m) \/ ReportExit(m)
ConnNext(c) ==
    \/ Enter(c) \/ Refuse(c) \/ RefuseNotify(c) \/ DialSucceeds(c)
    \/ DialFails(c) \/ ProxyEnds(c) \/ Exit(c)
CloseNext ==
    \/ CloseBegin \/ CloseDialer \/ CloseTick \/ CloseTimeout
    \/ CloseListenersDone \/ CloseVerify

Next ==
    \/ ServeNext
    \/ CloseNext
    \/ \E m \in Mounts : MountNext(m) \/ CloseMount(m)
    \/ \E c \in Conns : ConnNext(c) \/ \E m \in Mounts : Connect(c, m)

Spec == Init /\ [][Next]_vars

(***************************************************************************)
(* The Go scheduler runs every goroutine that can run, Dial returns within *)
(* its 30 seconds, the timer of Close fires, and Accept returns once its   *)
(* listener is closed.  Nothing obliges a client to connect, a session to  *)
(* end, Accept to fail on an open listener, or anyone to call Close.       *)
(***************************************************************************)
Fairness ==
    /\ WF_vars(ServeNext)
    /\ \A m \in Mounts :
          /\ WF_vars(ServeSpawn(m))
          /\ WF_vars(AcceptRetry(m) \/ ReportExit(m) \/ (listener[m] = "closed" /\ AcceptFails(m)))
    /\ \A c \in Conns :
          /\ WF_vars(Enter(c) \/ Refuse(c) \/ DialSucceeds(c) \/ DialFails(c) \/ Exit(c))
          /\ WF_vars(RefuseNotify(c))
    /\ WF_vars(CloseDialer \/ CloseTick \/ CloseTimeout \/ CloseListenersDone \/ CloseVerify
               \/ \E m \in Mounts : CloseMount(m))

FairSpec == Spec /\ Fairness
-----------------------------------------------------------------------------
(***************************************************************************)
(* Properties.                                                             *)
(***************************************************************************)

\* Every variable of the Client keeps its type; connCount is a uint64.
TypeOK ==
    /\ connCount \in 0..(Word - 1)
    /\ pc \in [Conns -> ConnStates]
    /\ backlog \in [Mounts -> SUBSET Conns]
    /\ clientOpen \subseteq Conns /\ serverOpen \subseteq Conns /\ notifying \subseteq Conns
    /\ listener \in [Mounts -> {"open", "closed"}]
    /\ accepting \in [Mounts -> AcceptStates]
    /\ serve \in ServeStates
    /\ closer \in CloserStates
    /\ closeErr \subseteq {"dialer", "mount", "open"}
    /\ timedOut \in BOOLEAN
    /\ draining \subseteq Conns

\* connCount is the number of handler goroutines past the increment and before
\* the deferred decrement, whichever of the four ways out each one takes: the
\* counter neither leaks upwards nor wraps below zero.
CountMatches == connCount = Cardinality(Counted)

\* The connections being dialled or proxied never exceed MaxConnections,
\* however the goroutines that count themselves and compare are interleaved.
LimitRespected == MaxConnections > 0 => Cardinality(Admitted) <= MaxConnections

\* A handler goroutine that is done, on whichever path, holds no open
\* connection, neither to the client nor to the instance.
NoLeak ==
    \A c \in Conns : pc[c] \in {"none", "queued", "exiting"} =>
                       c \notin clientOpen /\ c \notin serverOpen

\* exitCh carries one value: unless its connection test failed, Serve returns
\* with the error of exactly one accept loop.
FirstErrorOnly ==
    /\ \A m, n \in Mounts : accepting[m] = "reported" /\ accepting[n] = "reported" => m = n
    /\ serve = "returned" /\ ~RunConnectionTest => \E m \in Mounts : accepting[m] = "reported"

\* Once Close has returned, whatever errors it met on the way, no accept loop
\* hands over another connection.
NoAcceptAfterClose ==
    [][closer = "returned" => \A c \in Conns : pc'[c] = "spawned" => pc[c] = "spawned"]_vars

\* Until the timer of Close has fired, Close stops accepting and returns only
\* when every connection that it found when it was called has ended, although
\* others come in meanwhile and it looks at nothing but the shared counter.
DrainsFirst == closer \in {"listeners", "verify", "returned"} /\ ~timedOut => draining = {}

\* When Close with a wait returns without the "still open" error, no counted
\* session existed at that moment and no connection to an instance was open.
CleanCloseNoSession ==
    [][closer = "verify" /\ closer' = "returned" /\ WaitOnClose /\ "open" \notin closeErr'
         => Admitted = {} /\ serverOpen = {}]_vars

\* The counter implements the promise of module Admission.
Promise == INSTANCE Admission WITH admitted <- Admitted
ImplementsAdmission == Promise!Spec

\* Close returns although sessions never end and clients keep connecting.
CloseReturns == closer = "dialer" ~> closer = "returned"

\* Once Close has returned every accept loop comes to its end.
AcceptLoopsEnd ==
    closer = "returned" ~> \A m \in Mounts : accepting[m] \in {"off", "reported", "dropped"}
-----------------------------------------------------------------------------
(***************************************************************************)
(* The inductive invariant: what the safety properties above need to know  *)
(* about the rest of the state.                                            *)
(***************************************************************************)

\* A connection waits in the kernel's queue of one mount only.
QueuedOnce ==
    \A m \in Mounts : \A c \in backlog[m] :
        pc[c] = "queued" /\ \A n \in Mounts : c \in backlog[n] => n = m

\* A handler holds a connection to the instance only while it proxies.
ServerWhileProxying == \A c \in serverOpen : pc[c] = "proxying"

\* A value was taken from exitCh only if Serve has returned, and Serve tests
\* the connections only when it is asked to.
ReportedReturned ==
    /\ \A m \in Mounts : accepting[m] = "reported" => serve = "returned"
    /\ serve = "test" => RunConnectionTest

\* What Close waits for is still counted.
DrainingCounted == draining \subseteq Counted

\* Close verifies and returns only with every listener closed.
ListenersClosed ==
    closer \in {"verify", "returned"} => \A m \in Mounts : listener[m] = "closed"

\* The inductive invariant of the Client: the safety invariants and the facts
\* about queues, handlers, exitCh and listeners they rest on.
IInv ==
    /\ TypeOK /\ CountMatches /\ LimitRespected /\ NoLeak /\ FirstErrorOnly /\ DrainsFirst
    /\ QueuedOnce /\ ServerWhileProxying /\ ReportedReturned /\ ListenersClosed
    /\ DrainingCounted
-----------------------------------------------------------------------------
(***************************************************************************)
(* What a comment of the code says and the code does not do.               *)
(***************************************************************************)

\* Comment in Serve: a send on exitCh that fails "means the reading goroutine
\* has already pulled a value out of the channel".
FailedSendMeansReturned ==
    \A m \in Mounts : accepting[m] = "dropped" => serve = "returned"
==============================================================================
