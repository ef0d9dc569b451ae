------------------------------ MODULE ProxyConn ------------------------------
(***************************************************************************)
(* Client.proxyConn: the bidirectional copy of one session.  One goroutine *)
(* copies from the client to the instance ("up"), the handler itself from  *)
(* the instance to the client ("down"); the first of them that meets the   *)
(* end of its stream or an error closes both connections under a           *)
(* sync.Once.                                                              *)
(*                                                                         *)
(* The i-th byte a peer sends is named i, so that a buffer that still      *)
(* holds bytes of an earlier Read can be told from one that does not.      *)
(***************************************************************************)
EXTENDS Integers, Sequences

CONSTANTS MaxBytes,     \* bound: bytes each peer sends
          BufSize       \* len(buf), 8kb in the code

ASSUME SizeAssumption == MaxBytes \in Nat /\ BufSize \in Nat \ {0}

Dirs == {"up", "down"}
Ends == {"client", "server"}
Src(d) == IF d = "up" THEN "client" ELSE "server"
Dst(d) == IF d = "up" THEN "server" ELSE "client"

VARIABLES
    sent,       \* per direction, bytes the source peer has sent
    stream,     \* per direction, "open", "fin" after EOF, "reset" after an abort
    taken,      \* per direction, bytes read so far
    buf,        \* per direction, the contents of the goroutine's buffer
    n,          \* per direction, the n of the last Read
    rErr, wErr, \* per direction, the errors of the last Read and Write
    delivered,  \* per direction, the bytes the destination accepted
    at,         \* per direction, where the copying goroutine is
    once,       \* the sync.Once: "new", the direction running it, or "done"
    closed,     \* the connections cleanup has closed
    report      \* what cleanup has logged, in order

peerVars == <<sent, stream>>
copyVars == <<taken, buf, n, rErr, wErr, delivered, at>>
onceVars == <<once, closed, report>>
vars == <<peerVars, copyVars, onceVars>>

Errs   == {"nil", "eof", "err", "closed"}
Places == {"read", "write", "cleanup", "client.Close", "server.Close", "log", "returned"}

Init ==
    /\ sent = [d \in Dirs |-> 0] /\ stream = [d \in Dirs |-> "open"]
    /\ taken = [d \in Dirs |-> 0]
    /\ buf = [d \in Dirs |-> [i \in 1..BufSize |-> 0]]
    /\ n = [d \in Dirs |-> 0]
    /\ rErr = [d \in Dirs |-> "nil"] /\ wErr = [d \in Dirs |-> "nil"]
    /\ delivered = [d \in Dirs |-> <<>>]
    /\ at = [d \in Dirs |-> "read"]
    /\ once = "new" /\ closed = {} /\ report = <<>>
-----------------------------------------------------------------------------
(***************************************************************************)
(* The peers.                                                              *)
(***************************************************************************)

Send(d) ==
    /\ stream[d] = "open" /\ sent[d] < MaxBytes
    /\ sent' = [sent EXCEPT ![d] = @ + 1]
    /\ UNCHANGED <<stream, copyVars, onceVars>>

Finish(d) ==
    /\ stream[d] = "open"
    /\ \E s \in {"fin", "reset"} : stream' = [stream EXCEPT ![d] = s]
    /\ UNCHANGED <<sent, copyVars, onceVars>>
-----------------------------------------------------------------------------
(***************************************************************************)
(* The copy loop.                                                          *)
(***************************************************************************)

\* Read returns k bytes into the front of buf, with io.EOF if they are the
\* last and the connection chooses to say so at once.
Read(d) ==
    /\ at[d] = "read" /\ Src(d) \notin closed /\ stream[d] # "reset"
    /\ \E k \in 1..BufSize :
          /\ k <= sent[d] - taken[d]
          /\ buf' = [buf EXCEPT ![d] = [i \in 1..BufSize |->
                                           IF i <= k THEN taken[d] + i ELSE @[i]]]
          /\ n' = [n EXCEPT ![d] = k]
          /\ taken' = [taken EXCEPT ![d] = @ + k]
          /\ \E e \in {"nil", "eof"} :
                /\ e = "eof" => stream[d] = "fin" /\ taken[d] + k = sent[d]
                /\ rErr' = [rErr EXCEPT ![d] = e]
    /\ at' = [at EXCEPT ![d] = "write"]
    /\ UNCHANGED <<peerVars, wErr, delivered, onceVars>>

\* Read returns no byte: the stream has ended, was reset, or this side of the
\* connection has been closed by cleanup.
ReadEnds(d) ==
    /\ at[d] = "read"
    /\ \E e \in {"eof", "err", "closed"} :
          /\ e = "closed" <=> Src(d) \in closed
          /\ e = "eof" => stream[d] = "fin" /\ taken[d] = sent[d]
          /\ e = "err" => stream[d] = "reset"
          /\ rErr' = [rErr EXCEPT ![d] = e]
    /\ n' = [n EXCEPT ![d] = 0]
    /\ at' = [at EXCEPT ![d] = "write"]
    /\ UNCHANGED <<peerVars, taken, buf, wErr, delivered, onceVars>>

\* Mutant: the whole buffer is written, not buf[:n].
ChunkWholeBuffer(d) == IF n[d] = 0 THEN <<>> ELSE buf[d]

\* buf[:n]
Chunk(d) == SubSeq(buf[d], 1, n[d])

\* Mutant: the bytes that come with an io.EOF are not written.
WriteUnlessEOF(d) ==
    /\ at[d] = "write"
    /\ \E e \in Errs :
          /\ e = IF n[d] > 0 /\ rErr[d] = "nil" /\ Dst(d) \in closed THEN "closed" ELSE "nil"
          /\ delivered' = [delivered EXCEPT ![d] = IF rErr[d] = "nil" /\ e = "nil"
                                                   THEN @ \o Chunk(d) ELSE @]
          /\ wErr' = [wErr EXCEPT ![d] = e]
          /\ at' = [at EXCEPT ![d] = IF rErr[d] = "nil" /\ e = "nil" THEN "read" ELSE "cleanup"]
    /\ UNCHANGED <<peerVars, taken, buf, n, rErr, onceVars>>

\* The write of a Read that got something, and the switch on the two errors.
\* A Write that fails may have written part of the chunk.
Write(d) ==
    /\ at[d] = "write"
    /\ \E e \in Errs, k \in 0..Len(Chunk(d)) :
          /\ e = "nil" => k = Len(Chunk(d))
          /\ e \in {"eof", "err"} => k < Len(Chunk(d)) /\ Dst(d) \notin closed
          /\ e = "closed" => k = 0 /\ Dst(d) \in closed
          /\ n[d] = 0 => e = "nil"
          /\ n[d] > 0 /\ Dst(d) \in closed => e = "closed"
          /\ delivered' = [delivered EXCEPT ![d] = @ \o SubSeq(Chunk(d), 1, k)]
          /\ wErr' = [wErr EXCEPT ![d] = e]
          /\ at' = [at EXCEPT ![d] = IF rErr[d] = "nil" /\ e = "nil" THEN "read" ELSE "cleanup"]
    /\ UNCHANGED <<peerVars, taken, buf, n, rErr, onceVars>>
-----------------------------------------------------------------------------
(***************************************************************************)
(* cleanup.                                                                *)
(***************************************************************************)

\* Mutant: a flag in the place of the sync.Once, which nobody waits for.
CleanupFlag(d) ==
    /\ at[d] = "cleanup"
    /\ \/ /\ once = "new"
          /\ once' = d
          /\ at' = [at EXCEPT ![d] = "client.Close"]
       \/ /\ once # "new"
          /\ at' = [at EXCEPT ![d] = "returned"]
          /\ UNCHANGED once
    /\ UNCHANGED <<peerVars, taken, buf, n, rErr, wErr, delivered, closed, report>>

\* Mutant: no sync.Once, each side closes and logs.
CleanupTwice(d) ==
    /\ at[d] = "cleanup"
    /\ at' = [at EXCEPT ![d] = "client.Close"]
    /\ UNCHANGED <<peerVars, taken, buf, n, rErr, wErr, delivered, onceVars>>

\* o.Do: the first caller runs the function, the other waits until it is done.
Cleanup(d) ==
    /\ at[d] = "cleanup"
    /\ \/ /\ once = "new"
          /\ once' = d
          /\ at' = [at EXCEPT ![d] = "client.Close"]
       \/ /\ once = "done"
          /\ at' = [at EXCEPT ![d] = "returned"]
          /\ UNCHANGED once
    /\ UNCHANGED <<peerVars, taken, buf, n, rErr, wErr, delivered, closed, report>>

\* Mutant: only the connection that is still being read is closed.
CloseServerSkipped(d) ==
    /\ at[d] = "server.Close"
    /\ at' = [at EXCEPT ![d] = "log"]
    /\ closed' = IF d = "up" THEN closed \cup {"server"} ELSE closed
    /\ UNCHANGED <<peerVars, taken, buf, n, rErr, wErr, delivered, once, report>>

CloseClient(d) ==
    /\ at[d] = "client.Close"
    /\ at' = [at EXCEPT ![d] = "server.Close"]
    /\ closed' = closed \cup {"client"}
    /\ UNCHANGED <<peerVars, taken, buf, n, rErr, wErr, delivered, once, report>>

CloseServer(d) ==
    /\ at[d] = "server.Close"
    /\ at' = [at EXCEPT ![d] = "log"]
    /\ closed' = closed \cup {"server"}
    /\ UNCHANGED <<peerVars, taken, buf, n, rErr, wErr, delivered, once, report>>

\* Which connection ended the copy and how: the reading error is looked at first.
Cause(d) == IF rErr[d] # "nil" THEN [on |-> Src(d), err |-> rErr[d]]
                               ELSE [on |-> Dst(d), err |-> wErr[d]]

\* Log the cause, as an error unless it is an EOF, and leave o.Do.
Log(d) ==
    /\ at[d] = "log"
    /\ report' = Append(report, Cause(d))
    /\ once' = "done"
    /\ at' = [at EXCEPT ![d] = "returned"]
    /\ UNCHANGED <<peerVars, taken, buf, n, rErr, wErr, delivered, closed>>
-----------------------------------------------------------------------------
PeerNext(d) == Send(d) \/ Finish(d)
CopyNext(d) == Read(d) \/ ReadEnds(d) \/ Write(d)
CleanNext(d) == Cleanup(d) \/ CloseClient(d) \/ CloseServer(d) \/ Log(d)

Next == \E d \in Dirs : PeerNext(d) \/ CopyNext(d) \/ CleanNext(d)

Spec == Init /\ [][Next]_vars

(***************************************************************************)
(* A goroutine that can run does.  Nothing obliges a peer to send, to      *)
(* finish or to read what it is sent, so a Write to an open connection may *)
(* block for ever; closing the connection makes it return.                 *)
(***************************************************************************)
Fairness ==
    \A d \in Dirs : /\ WF_vars(Read(d) \/ ReadEnds(d))
                    /\ WF_vars((n[d] = 0 \/ Dst(d) \in closed) /\ Write(d))
                    /\ WF_vars(CleanNext(d))

FairSpec == Spec /\ Fairness
-----------------------------------------------------------------------------
(***************************************************************************)
(* Properties.                                                             *)
(***************************************************************************)

\* Every variable of the session keeps its type.
TypeOK ==
    /\ sent \in [Dirs -> 0..MaxBytes] /\ taken \in [Dirs -> 0..MaxBytes]
    /\ stream \in [Dirs -> {"open", "fin", "reset"}]
    /\ buf \in [Dirs -> [1..BufSize -> 0..MaxBytes]]
    /\ n \in [Dirs -> 0..BufSize]
    /\ rErr \in [Dirs -> Errs] /\ wErr \in [Dirs -> Errs]
    /\ delivered \in [Dirs -> Seq(1..MaxBytes)]
    /\ at \in [Dirs -> Places]
    /\ once \in Dirs \cup {"new", "done"}
    /\ closed \subseteq Ends
    /\ report \in Seq([on : Ends, err : Errs])

\* proxyConn returns, which is when its caller stops counting the connection,
\* only once both connections are closed, also when the other goroutine runs
\* the cleanup and has not finished it.
ReturnsAfterClose == at["down"] = "returned" => closed = Ends

\* A direction that ended by EOF without a write error has delivered all that
\* its source sent, whatever the sizes of the reads were.
LosslessEOF ==
    \A d \in Dirs : at[d] = "returned" /\ rErr[d] = "eof" /\ wErr[d] = "nil"
                    => delivered[d] = [i \in 1..sent[d] |-> i]

\* Comment in proxyConn: "only allow the first side to give an error for
\* terminating a connection".  The error the second side gets because cleanup
\* closed its connection is never the one reported.
ReportsTheCause ==
    /\ Len(report) <= 1
    /\ \A i \in 1..Len(report) : report[i].err \notin {"nil", "closed"}

\* The copy loops implement two FIFO streams.
Streams == INSTANCE Relay WITH over <- closed = Ends
ImplementsRelay == Streams!Spec

\* Once one side cleans up, both goroutines end, even one blocked in a Write
\* to a peer that does not read.
BothEnd == once # "new" ~> \A d \in Dirs : at[d] = "returned"
==============================================================================
