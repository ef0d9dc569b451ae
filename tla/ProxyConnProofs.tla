--------------------------- MODULE ProxyConnProofs ---------------------------
(***************************************************************************)
(* The safety properties of module ProxyConn for streams and buffers of    *)
(* any size, and that it implements module Relay.  The copy loops are      *)
(* right because what is delivered is always a first part of what was      *)
(* sent: up to what has been taken, less what the loop is about to write.  *)
(* The cleanup is right because of what the Once tells of the places of    *)
(* the two goroutines and of the connections closed so far.                *)
(***************************************************************************)
EXTENDS ProxyConn, SequenceTheorems, TLAPS

\* The first k bytes of a stream.
FirstBytes(k) == [i \in 1..k |-> i]

\* Nothing is read that was not sent, and EOF comes after all that was sent.
Counts(d) ==
    /\ n[d] <= taken[d] /\ taken[d] <= sent[d]
    /\ rErr[d] = "eof" => stream[d] = "fin" /\ taken[d] = sent[d]

\* The loop goes on without an error, with what it is about to write in the front
\* of buf, and is left with one.
Loop(d) ==
    /\ at[d] = "read" => rErr[d] = "nil" /\ wErr[d] = "nil"
    /\ at[d] = "write" => /\ wErr[d] = "nil"
                          /\ \A i \in 1..n[d] : buf[d][i] = taken[d] - n[d] + i
    /\ at[d] \notin {"read", "write"} => rErr[d] # "nil" \/ wErr[d] # "nil"

\* How much of the stream is delivered.
Progress(d) ==
    /\ \E k \in 0..sent[d] : delivered[d] = FirstBytes(k)
    /\ at[d] = "write" => delivered[d] = FirstBytes(taken[d] - n[d])
    /\ at[d] # "write" /\ wErr[d] = "nil" => delivered[d] = FirstBytes(taken[d])

\* Where one direction is in its stream.
InStream(d) == Counts(d) /\ Loop(d) /\ Progress(d)

\* Who is in the function that the Once runs.
InOnce == {"client.Close", "server.Close", "log"}

\* Where one direction is in the cleanup; the errors of the first to reach it are
\* not the work of the cleanup.
InCleanup(d) ==
    /\ at[d] \in InOnce <=> once = d
    /\ at[d] = "returned" => once = "done"
    /\ at[d] = "server.Close" => "client" \in closed
    /\ at[d] = "log" => closed = Ends
    /\ once \in {"new", d} => rErr[d] # "closed" /\ wErr[d] # "closed"

\* What has been closed and logged.
Closing ==
    /\ once = "new" => closed = {}
    /\ once = "done" => closed = Ends
    /\ once # "done" => report = <<>>
    /\ ReportsTheCause

\* The inductive invariant of a session.
SessionInv == TypeOK /\ Closing /\ \A d \in Dirs : InStream(d) /\ InCleanup(d)
-----------------------------------------------------------------------------
(***************************************************************************)
(* First parts of a stream.                                                *)
(***************************************************************************)

\* A first part is a sequence of the length it says.
LEMMA FirstBytesSeq ==
    ASSUME NEW k \in Nat, NEW m \in Nat, k <= m
    PROVE  /\ FirstBytes(k) \in Seq(1..m)
           /\ Len(FirstBytes(k)) = k
           /\ \A i \in 1..k : FirstBytes(k)[i] = i
BY DEF FirstBytes

\* Writing the bytes that follow a first part makes a longer first part.
LEMMA FirstBytesExtended ==
    ASSUME NEW a \in Nat, NEW k \in Nat, NEW c \in Seq(Nat), Len(c) = k,
           \A i \in 1..k : c[i] = a + i
    PROVE  FirstBytes(a) \o c = FirstBytes(a + k)
<1> DEFINE F == FirstBytes(a)
           G == FirstBytes(a + k)
<1>1. F \in Seq(Nat) /\ Len(F) = a /\ \A i \in 1..a : F[i] = i
  BY DEF FirstBytes
<1>2. G \in Seq(Nat) /\ Len(G) = a + k /\ \A i \in 1..(a + k) : G[i] = i
  BY DEF FirstBytes
<1> HIDE DEF F, G
<1>3. /\ F \o c \in Seq(Nat) /\ Len(F \o c) = Len(F) + Len(c)
      /\ \A i \in 1..(Len(F) + Len(c)) : (F \o c)[i] = IF i <= Len(F) THEN F[i] ELSE c[i - Len(F)]
  BY <1>1, ConcatProperties
<1>4. ASSUME NEW i \in 1..(a + k) PROVE (F \o c)[i] = G[i]
  <2>1. (F \o c)[i] = IF i <= a THEN F[i] ELSE c[i - a]
    BY <1>1, <1>3
  <2>2. CASE i <= a
    BY <1>1, <1>2, <2>1, <2>2
  <2>3. CASE ~(i <= a)
    <3>1. i - a \in 1..k
      BY <2>3
    <3>2. c[i - a] = a + (i - a)
      BY <3>1
    <3> QED
      BY <1>2, <2>1, <2>3, <3>2
  <2> QED
    BY <2>2, <2>3
<1>5. F \o c = G
  BY <1>1, <1>2, <1>3, <1>4, SeqEqual
<1> QED
  BY <1>5 DEF F, G

\* What a Write of the first k bytes of the chunk leaves delivered.
LEMMA ChunkDelivered ==
    ASSUME TypeOK, NEW d \in Dirs, InStream(d), at[d] = "write", NEW k \in 0..Len(Chunk(d))
    PROVE  /\ Len(Chunk(d)) = n[d]
           /\ delivered[d] \o SubSeq(Chunk(d), 1, k) = FirstBytes(taken[d] - n[d] + k)
<1>1. n[d] \in 0..BufSize /\ n[d] \in Nat /\ taken[d] \in Nat /\ taken[d] - n[d] \in Nat
  <2>1. n[d] \in 0..BufSize /\ taken[d] \in 0..MaxBytes
    BY DEF TypeOK
  <2>2. n[d] <= taken[d]
    BY DEF InStream, Counts
  <2> QED
    BY <2>1, <2>2, SizeAssumption
<1>2. \A i \in 1..n[d] : buf[d][i] \in Nat /\ buf[d][i] = taken[d] - n[d] + i
  BY <1>1 DEF InStream, Loop
<1>3. /\ Chunk(d) \in Seq(Nat) /\ Len(Chunk(d)) = n[d]
      /\ \A i \in 1..n[d] : Chunk(d)[i] = buf[d][i]
  <2>1. /\ SubSeq(buf[d], 1, n[d]) \in Seq(Nat)
        /\ Len(SubSeq(buf[d], 1, n[d])) = IF 1 <= n[d] THEN n[d] - 1 + 1 ELSE 0
        /\ \A i \in 1..(n[d] - 1 + 1) : SubSeq(buf[d], 1, n[d])[i] = buf[d][1 + i - 1]
    BY <1>1, <1>2, SubSeqProperties
  <2> QED
    BY <2>1, <1>1 DEF Chunk
<1>4. k \in Nat /\ k <= n[d]
  BY <1>1, <1>3
<1>5. /\ SubSeq(Chunk(d), 1, k) \in Seq(Nat) /\ Len(SubSeq(Chunk(d), 1, k)) = k
      /\ \A i \in 1..k : SubSeq(Chunk(d), 1, k)[i] = Chunk(d)[i]
  <2>1. \A i \in 1..k : Chunk(d)[i] \in Nat
    BY <1>1, <1>2, <1>3, <1>4
  <2>2. /\ SubSeq(Chunk(d), 1, k) \in Seq(Nat)
        /\ Len(SubSeq(Chunk(d), 1, k)) = IF 1 <= k THEN k - 1 + 1 ELSE 0
        /\ \A i \in 1..(k - 1 + 1) : SubSeq(Chunk(d), 1, k)[i] = Chunk(d)[1 + i - 1]
    BY <1>4, <2>1, SubSeqProperties
  <2> QED
    BY <2>2, <1>4
<1>6. ASSUME NEW i \in 1..k PROVE SubSeq(Chunk(d), 1, k)[i] = (taken[d] - n[d]) + i
  <2>1. i \in 1..n[d]
    BY <1>1, <1>4
  <2> QED
    BY <1>2, <1>3, <1>5, <2>1
<1>7. FirstBytes(taken[d] - n[d]) \o SubSeq(Chunk(d), 1, k) = FirstBytes((taken[d] - n[d]) + k)
  BY <1>1, <1>4, <1>5, <1>6, FirstBytesExtended
<1> QED
  BY <1>3, <1>7 DEF InStream, Progress
-----------------------------------------------------------------------------
(***************************************************************************)
(* The steps.                                                              *)
(***************************************************************************)

\* The session starts with it.
LEMMA InitSession == Init => SessionInv
<1> SUFFICES ASSUME Init PROVE SessionInv
  OBVIOUS
<1>1. TypeOK
  <2>1. 0 \in 0..MaxBytes /\ 0 \in 0..BufSize
    BY SizeAssumption
  <2>2. buf \in [Dirs -> [1..BufSize -> 0..MaxBytes]]
    BY <2>1 DEF Init
  <2> QED
    BY <2>1, <2>2 DEF Init, TypeOK, Errs, Places, Ends
<1>2. Closing
  BY DEF Init, Closing, ReportsTheCause
<1>3. ASSUME NEW d \in Dirs PROVE InStream(d) /\ InCleanup(d)
  <2>1. FirstBytes(0) = <<>> /\ 0 \in 0..0
    BY DEF FirstBytes
  <2>2. Counts(d) /\ Loop(d)
    BY <1>3 DEF Init, Counts, Loop
  <2>3. Progress(d)
    BY <1>3, <2>1 DEF Init, Progress
  <2>4. InCleanup(d)
    BY <1>3 DEF Init, InCleanup, InOnce, Dirs
  <2> QED
    BY <2>2, <2>3, <2>4 DEF InStream
<1> QED
  BY <1>1, <1>2, <1>3 DEF SessionInv

\* A step that leaves a direction alone leaves its place in the stream.
LEMMA StreamFrame ==
    ASSUME NEW d \in Dirs, InStream(d),
           sent'[d] = sent[d], stream'[d] = stream[d], taken'[d] = taken[d], buf'[d] = buf[d],
           n'[d] = n[d], rErr'[d] = rErr[d], wErr'[d] = wErr[d], delivered'[d] = delivered[d],
           at'[d] = at[d]
    PROVE  InStream(d)'
BY DEF InStream, Counts, Loop, Progress

\* A peer that sends or ends its stream.
LEMMA PeerStep ==
    ASSUME SessionInv, NEW e \in Dirs, PeerNext(e) PROVE SessionInv'
<1> USE DEF SessionInv
<1>1. TypeOK'
  <2>1. CASE Send(e)
    <3>1. sent' \in [Dirs -> 0..MaxBytes]
      <4>1. sent \in [Dirs -> 0..MaxBytes] /\ sent[e] < MaxBytes /\ sent' = [sent EXCEPT ![e] = sent[e] + 1]
        BY <2>1 DEF Send, TypeOK
      <4>2. sent[e] + 1 \in 0..MaxBytes
        BY <4>1, SizeAssumption
      <4> QED
        BY <4>1, <4>2
    <3> QED
      BY <2>1, <3>1 DEF Send, TypeOK, copyVars, onceVars
  <2>2. CASE Finish(e)
    <3>1. stream' \in [Dirs -> {"open", "fin", "reset"}]
      BY <2>2 DEF Finish, TypeOK
    <3> QED
      BY <2>2, <3>1 DEF Finish, TypeOK, copyVars, onceVars
  <2> QED
    BY <2>1, <2>2 DEF PeerNext
<1>2. Closing'
  BY DEF PeerNext, Send, Finish, Closing, ReportsTheCause, onceVars
<1>3. ASSUME NEW d \in Dirs PROVE InStream(d)'
  <2>1. CASE d # e
    BY <1>3, <2>1, StreamFrame DEF PeerNext, Send, Finish, copyVars, TypeOK
  <2>2. CASE d = e
    <3>1. Counts(d)'
      <4>1. /\ n[d] <= taken[d] /\ taken[d] <= sent[d] /\ taken[d] \in Nat /\ n[d] \in Nat
            /\ sent[d] \in Nat /\ (rErr[d] = "eof" => stream[d] = "fin" /\ taken[d] = sent[d])
        BY SizeAssumption DEF TypeOK, InStream, Counts
      <4>2. UNCHANGED <<taken, n, rErr>>
        BY DEF PeerNext, Send, Finish, copyVars
      <4>3. CASE Send(e)
        <5>1. sent'[d] = sent[d] + 1 /\ stream[d] = "open" /\ stream' = stream
          BY <2>2, <4>3 DEF Send, TypeOK
        <5> QED
          BY <4>1, <4>2, <5>1 DEF Counts
      <4>4. CASE Finish(e)
        BY <2>2, <4>1, <4>2, <4>4 DEF Finish, TypeOK, Counts
      <4> QED
        BY <4>3, <4>4 DEF PeerNext
    <3>2. Loop(d)'
      BY <1>3, <2>2 DEF PeerNext, Send, Finish, copyVars, InStream, Loop
    <3>3. Progress(d)'
      <4>1. \A k \in 0..sent[d] : k \in 0..sent'[d]
        BY <1>3, <2>2, SizeAssumption DEF PeerNext, Send, Finish, TypeOK
      <4> QED
        BY <1>3, <2>2, <4>1 DEF PeerNext, Send, Finish, copyVars, InStream, Progress
    <3> QED
      BY <3>1, <3>2, <3>3 DEF InStream
  <2> QED
    BY <2>1, <2>2
<1>4. ASSUME NEW d \in Dirs PROVE InCleanup(d)'
  BY <1>4 DEF PeerNext, Send, Finish, InCleanup, copyVars, onceVars
<1> QED
  BY <1>1, <1>2, <1>3, <1>4

\* A Read that returns bytes.
LEMMA ReadStep ==
    ASSUME SessionInv, NEW e \in Dirs, Read(e) PROVE SessionInv'
<1> USE DEF SessionInv
<1>1. PICK k \in 1..BufSize :
          /\ k <= sent[e] - taken[e]
          /\ buf' = [buf EXCEPT ![e] = [i \in 1..BufSize |->
                                           IF i <= k THEN taken[e] + i ELSE buf[e][i]]]
          /\ n' = [n EXCEPT ![e] = k]
          /\ taken' = [taken EXCEPT ![e] = taken[e] + k]
          /\ \E x \in {"nil", "eof"} :
                /\ x = "eof" => stream[e] = "fin" /\ taken[e] + k = sent[e]
                /\ rErr' = [rErr EXCEPT ![e] = x]
  BY DEF Read
<1>2. k \in Nat /\ k > 0 /\ taken[e] \in 0..MaxBytes /\ sent[e] \in 0..MaxBytes /\ k <= BufSize
  BY <1>1, SizeAssumption DEF TypeOK
<1>3. TypeOK'
  <2>1. taken' \in [Dirs -> 0..MaxBytes]
    <3>1. taken[e] + k \in 0..MaxBytes
      BY <1>1, <1>2, SizeAssumption
    <3> QED
      BY <1>1, <3>1 DEF TypeOK
  <2>2. buf' \in [Dirs -> [1..BufSize -> 0..MaxBytes]]
    <3>1. buf[e] \in [1..BufSize -> 0..MaxBytes]
      BY DEF TypeOK
    <3>2. ASSUME NEW i \in 1..BufSize
          PROVE (IF i <= k THEN taken[e] + i ELSE buf[e][i]) \in 0..MaxBytes
      BY <1>1, <1>2, <3>1, SizeAssumption
    <3>3. [i \in 1..BufSize |-> IF i <= k THEN taken[e] + i ELSE buf[e][i]]
             \in [1..BufSize -> 0..MaxBytes]
      BY <3>2
    <3> QED
      BY <1>1, <3>3 DEF TypeOK
  <2>3. n' \in [Dirs -> 0..BufSize]
    BY <1>1, <1>2, SizeAssumption DEF TypeOK
  <2>4. rErr' \in [Dirs -> Errs] /\ at' \in [Dirs -> Places]
    BY <1>1 DEF TypeOK, Read, Errs, Places
  <2> QED
    BY <2>1, <2>2, <2>3, <2>4 DEF Read, TypeOK, peerVars, onceVars
<1>4. Closing'
  BY DEF Read, Closing, ReportsTheCause, onceVars
<1>5. ASSUME NEW d \in Dirs PROVE InStream(d)'
  <2>1. CASE d # e
    BY <1>1, <1>5, <2>1, StreamFrame DEF Read, peerVars, TypeOK
  <2>2. CASE d = e
    <3>1. /\ n'[d] = k /\ taken'[d] = taken[d] + k /\ at'[d] = "write" /\ rErr'[d] \in {"nil", "eof"}
          /\ rErr'[d] = "eof" => stream[d] = "fin" /\ taken[d] + k = sent[d]
          /\ buf'[d] = [i \in 1..BufSize |-> IF i <= k THEN taken[d] + i ELSE buf[d][i]]
          /\ UNCHANGED <<sent, stream, wErr, delivered>>
      BY <1>1, <2>2 DEF Read, peerVars, TypeOK
    <3>2. Counts(d)'
      BY <1>1, <1>2, <2>2, <3>1 DEF InStream, Counts
    <3>3. Loop(d)'
      <4>1. wErr[d] = "nil"
        BY <2>2 DEF Read, InStream, Loop
      <4>2. ASSUME NEW i \in 1..k PROVE buf'[d][i] = (taken[d] + k) - k + i
        BY <1>2, <2>2, <3>1, SizeAssumption
      <4> QED
        BY <3>1, <4>1, <4>2 DEF Loop
    <3>4. Progress(d)'
      <4>1. delivered[d] = FirstBytes(taken[d]) /\ (taken[d] + k) - k = taken[d]
        BY <1>2, <2>2 DEF Read, InStream, Loop, Progress
      <4> QED
        BY <3>1, <4>1 DEF InStream, Progress
    <3> QED
      BY <3>2, <3>3, <3>4 DEF InStream
  <2> QED
    BY <2>1, <2>2
<1>6. ASSUME NEW d \in Dirs PROVE InCleanup(d)'
  BY <1>1, <1>6 DEF Read, InCleanup, InOnce, TypeOK, onceVars
<1> QED
  BY <1>3, <1>4, <1>5, <1>6

\* A Read that returns none.
LEMMA ReadEndsStep ==
    ASSUME SessionInv, NEW e \in Dirs, ReadEnds(e) PROVE SessionInv'
<1> USE DEF SessionInv
<1>1. PICK x \in {"eof", "err", "closed"} :
          /\ x = "closed" <=> Src(e) \in closed
          /\ x = "eof" => stream[e] = "fin" /\ taken[e] = sent[e]
          /\ rErr' = [rErr EXCEPT ![e] = x]
  BY DEF ReadEnds
<1>2. TypeOK'
  <2>1. rErr' \in [Dirs -> Errs] /\ at' \in [Dirs -> Places]
    BY <1>1 DEF ReadEnds, TypeOK, Errs, Places
  <2>2. n' \in [Dirs -> 0..BufSize]
    BY SizeAssumption DEF ReadEnds, TypeOK
  <2> QED
    BY <2>1, <2>2 DEF ReadEnds, TypeOK, peerVars, onceVars
<1>3. Closing'
  BY DEF ReadEnds, Closing, ReportsTheCause, onceVars
<1>4. ASSUME NEW d \in Dirs PROVE InStream(d)'
  <2>1. CASE d # e
    BY <1>1, <1>4, <2>1, StreamFrame DEF ReadEnds, peerVars, TypeOK
  <2>2. CASE d = e
    <3>1. /\ n'[d] = 0 /\ at'[d] = "write" /\ rErr'[d] = x
          /\ UNCHANGED <<sent, stream, taken, buf, wErr, delivered>>
      BY <1>1, <2>2 DEF ReadEnds, peerVars, TypeOK
    <3>2. taken[d] \in Nat /\ taken[d] <= sent[d]
      BY SizeAssumption DEF InStream, Counts, TypeOK
    <3>3. Counts(d)'
      BY <1>1, <2>2, <3>1, <3>2 DEF Counts
    <3>4. Loop(d)'
      BY <2>2, <3>1 DEF ReadEnds, InStream, Loop
    <3>5. Progress(d)'
      <4>1. delivered[d] = FirstBytes(taken[d]) /\ taken[d] - 0 = taken[d]
        BY <2>2, <3>2 DEF ReadEnds, InStream, Loop, Progress
      <4> QED
        BY <3>1, <4>1 DEF InStream, Progress
    <3> QED
      BY <3>3, <3>4, <3>5 DEF InStream
  <2> QED
    BY <2>1, <2>2
<1>5. ASSUME NEW d \in Dirs PROVE InCleanup(d)'
  <2>1. at[e] = "read" /\ once # e
    BY DEF ReadEnds, InCleanup, InOnce
  <2>2. once = "new" => x # "closed"
    BY <1>1 DEF Closing
  <2> QED
    BY <1>1, <1>5, <2>1, <2>2 DEF ReadEnds, InCleanup, InOnce, TypeOK, onceVars
<1> QED
  BY <1>2, <1>3, <1>4, <1>5

\* The write of the chunk, all of it or, when it fails, a part.
LEMMA WriteStep ==
    ASSUME SessionInv, NEW e \in Dirs, Write(e) PROVE SessionInv'
<1> USE DEF SessionInv
<1>1. PICK x \in Errs, k \in 0..Len(Chunk(e)) :
          /\ x = "nil" => k = Len(Chunk(e))
          /\ x = "closed" => Dst(e) \in closed
          /\ delivered' = [delivered EXCEPT ![e] = delivered[e] \o SubSeq(Chunk(e), 1, k)]
          /\ wErr' = [wErr EXCEPT ![e] = x]
          /\ at' = [at EXCEPT ![e] = IF rErr[e] = "nil" /\ x = "nil" THEN "read" ELSE "cleanup"]
  BY DEF Write
<1>2. /\ at[e] = "write" /\ InStream(e)
      /\ n[e] \in Nat /\ taken[e] \in Nat /\ sent[e] \in 0..MaxBytes
      /\ n[e] <= taken[e] /\ taken[e] <= sent[e]
  BY SizeAssumption DEF Write, TypeOK, InStream, Counts
<1>3. /\ Len(Chunk(e)) = n[e] /\ k \in Nat /\ k <= n[e]
      /\ delivered[e] \o SubSeq(Chunk(e), 1, k) = FirstBytes(taken[e] - n[e] + k)
  <2>1. /\ Len(Chunk(e)) = n[e]
        /\ delivered[e] \o SubSeq(Chunk(e), 1, k) = FirstBytes(taken[e] - n[e] + k)
    BY <1>2, ChunkDelivered
  <2>2. k \in Nat /\ k <= n[e]
    BY <1>2, <2>1
  <2> QED
    BY <2>1, <2>2
<1>4. /\ taken[e] - n[e] + k \in 0..sent[e]
      /\ x = "nil" => taken[e] - n[e] + k = taken[e]
  BY <1>1, <1>2, <1>3
<1>5. TypeOK'
  <2>1. FirstBytes(taken[e] - n[e] + k) \in Seq(1..MaxBytes)
    BY <1>2, <1>4, SizeAssumption, FirstBytesSeq
  <2>2. delivered' \in [Dirs -> Seq(1..MaxBytes)]
    BY <1>1, <1>3, <2>1 DEF TypeOK
  <2>3. wErr' \in [Dirs -> Errs] /\ at' \in [Dirs -> Places]
    BY <1>1 DEF TypeOK, Places
  <2> QED
    BY <2>2, <2>3 DEF Write, TypeOK, peerVars, onceVars
<1>6. Closing'
  BY DEF Write, Closing, ReportsTheCause, onceVars
<1>7. ASSUME NEW d \in Dirs PROVE InStream(d)'
  <2>1. CASE d # e
    BY <1>1, <1>7, <2>1, StreamFrame DEF Write, peerVars, TypeOK
  <2>2. CASE d = e
    <3>1. /\ delivered'[d] = FirstBytes(taken[d] - n[d] + k) /\ wErr'[d] = x
          /\ at'[d] = IF rErr[d] = "nil" /\ x = "nil" THEN "read" ELSE "cleanup"
          /\ UNCHANGED <<sent, stream, taken, n, rErr, buf>>
      <4>1. UNCHANGED <<sent, stream, taken, n, rErr, buf>>
        BY DEF Write, peerVars
      <4>2. delivered'[d] = FirstBytes(taken[d] - n[d] + k)
        BY <1>1, <1>3, <2>2 DEF TypeOK
      <4>3. wErr'[d] = x
        BY <1>1, <2>2 DEF TypeOK
      <4>4. at'[d] = IF rErr[d] = "nil" /\ x = "nil" THEN "read" ELSE "cleanup"
        BY <1>1, <2>2 DEF TypeOK
      <4> QED
        BY <4>1, <4>2, <4>3, <4>4
    <3>2. Counts(d)'
      BY <3>1 DEF InStream, Counts
    <3>3. Loop(d)'
      BY <3>1 DEF Loop
    <3>4. Progress(d)'
      BY <1>4, <2>2, <3>1 DEF Progress
    <3> QED
      BY <3>2, <3>3, <3>4 DEF InStream
  <2> QED
    BY <2>1, <2>2
<1>8. ASSUME NEW d \in Dirs PROVE InCleanup(d)'
  <2>1. once # e
    BY <1>2 DEF InCleanup, InOnce
  <2>2. once = "new" => x # "closed"
    BY <1>1 DEF Closing
  <2> QED
    BY <1>1, <1>2, <1>8, <2>1, <2>2 DEF Write, InCleanup, InOnce, TypeOK, onceVars
<1> QED
  BY <1>5, <1>6, <1>7, <1>8

\* The steps of cleanup.
LEMMA CleanupStep ==
    ASSUME SessionInv, NEW e \in Dirs, CleanNext(e) PROVE SessionInv'
<1> USE DEF SessionInv
<1>1. UNCHANGED <<sent, stream, taken, buf, n, rErr, wErr, delivered>>
  BY DEF CleanNext, Cleanup, CloseClient, CloseServer, Log, peerVars
<1>2. /\ at[e] \notin {"read", "write"} /\ at'[e] \notin {"read", "write"}
      /\ at' \in [Dirs -> Places] /\ \A d \in Dirs : d # e => at'[d] = at[d]
  BY DEF CleanNext, Cleanup, CloseClient, CloseServer, Log, TypeOK, Places
<1>3. ASSUME NEW d \in Dirs PROVE InStream(d)'
  <2>1. CASE d # e
    BY <1>1, <1>2, <1>3, <2>1, StreamFrame
  <2>2. CASE d = e
    BY <1>1, <1>2, <1>3, <2>2 DEF InStream, Counts, Loop, Progress
  <2> QED
    BY <2>1, <2>2
<1>4. CASE Cleanup(e)
  <2>1. TypeOK'
    BY <1>1, <1>2, <1>4 DEF Cleanup, TypeOK
  <2>2. Closing'
    BY <1>4 DEF Cleanup, Closing, ReportsTheCause, Dirs
  <2>3. ASSUME NEW d \in Dirs PROVE InCleanup(d)'
    BY <1>4, <2>3 DEF Cleanup, InCleanup, InOnce, TypeOK, Dirs
  <2> QED
    BY <1>3, <2>1, <2>2, <2>3
<1>5. CASE CloseClient(e)
  <2>1. TypeOK'
    BY <1>1, <1>2, <1>5 DEF CloseClient, TypeOK, Ends
  <2>2. once = e
    BY <1>5 DEF CloseClient, InCleanup, InOnce
  <2>3. Closing'
    BY <1>5, <2>2 DEF CloseClient, Closing, ReportsTheCause, Dirs
  <2>4. ASSUME NEW d \in Dirs PROVE InCleanup(d)'
    BY <1>5, <2>2, <2>4 DEF CloseClient, InCleanup, InOnce, TypeOK, Dirs, Ends
  <2> QED
    BY <1>3, <2>1, <2>3, <2>4
<1>6. CASE CloseServer(e)
  <2>1. TypeOK'
    BY <1>1, <1>2, <1>6 DEF CloseServer, TypeOK, Ends
  <2>2. once = e /\ "client" \in closed
    BY <1>6 DEF CloseServer, InCleanup, InOnce
  <2>3. Closing'
    BY <1>6, <2>2 DEF CloseServer, Closing, ReportsTheCause, Dirs
  <2>4. closed' = Ends
    BY <1>6, <2>1, <2>2 DEF CloseServer, TypeOK, Ends
  <2>5. ASSUME NEW d \in Dirs PROVE InCleanup(d)'
    BY <1>6, <2>2, <2>4, <2>5 DEF CloseServer, InCleanup, InOnce, TypeOK, Dirs, Ends
  <2> QED
    BY <1>3, <2>1, <2>3, <2>5
<1>7. CASE Log(e)
  <2>1. once = e /\ closed = Ends /\ report = <<>>
    BY <1>7 DEF Log, InCleanup, InOnce, Closing, Dirs
  <2>2. Cause(e) \in [on : Ends, err : Errs] /\ Cause(e).err \notin {"nil", "closed"}
    BY <1>2, <2>1 DEF Cause, Src, Dst, Ends, TypeOK, InStream, Loop, InCleanup
  <2>3. report' = <<Cause(e)>>
    BY <1>7, <2>1 DEF Log
  <2>4. TypeOK'
    BY <1>1, <1>2, <1>7, <2>2, <2>3 DEF Log, TypeOK
  <2>5. Closing'
    BY <1>7, <2>1, <2>2, <2>3 DEF Log, Closing, ReportsTheCause
  <2>6. ASSUME NEW d \in Dirs PROVE InCleanup(d)'
    BY <1>7, <2>1, <2>6 DEF Log, InCleanup, InOnce, TypeOK, Dirs
  <2> QED
    BY <1>3, <2>4, <2>5, <2>6
<1> QED
  BY <1>4, <1>5, <1>6, <1>7 DEF CleanNext

\* Every step preserves the invariant.
LEMMA StepSession == SessionInv /\ [Next]_vars => SessionInv'
<1> SUFFICES ASSUME SessionInv, [Next]_vars PROVE SessionInv'
  OBVIOUS
<1>1. CASE UNCHANGED vars
  <2>1. TypeOK' /\ Closing'
    BY <1>1 DEF SessionInv, TypeOK, Closing, ReportsTheCause, vars, peerVars, copyVars, onceVars
  <2>2. ASSUME NEW d \in Dirs PROVE InStream(d)' /\ InCleanup(d)'
    BY <1>1, <2>2 DEF SessionInv, InStream, Counts, Loop, Progress, InCleanup, vars, peerVars, copyVars,
       onceVars
  <2> QED
    BY <2>1, <2>2 DEF SessionInv
<1> QED
  BY <1>1, PeerStep, ReadStep, ReadEndsStep, WriteStep, CleanupStep DEF Next, CopyNext
-----------------------------------------------------------------------------
(***************************************************************************)
(* The properties.                                                         *)
(***************************************************************************)

\* The invariant holds throughout a session.
THEOREM SessionInvariance == Spec => []SessionInv
<1>1. Init => SessionInv
  BY InitSession
<1>2. SessionInv /\ [Next]_vars => SessionInv'
  BY StepSession
<1> QED
  BY <1>1, <1>2, PTL DEF Spec

\* Every variable of the session keeps its type.
THEOREM SessionTypeCorrect == Spec => []TypeOK
<1>1. SessionInv => TypeOK
  BY DEF SessionInv
<1> QED
  BY <1>1, SessionInvariance, PTL

\* proxyConn returns only once both connections are closed, whichever goroutine
\* ran the cleanup.
THEOREM ReturnsClosed == Spec => []ReturnsAfterClose
<1>1. SessionInv => ReturnsAfterClose
  BY DEF SessionInv, InCleanup, Closing, ReturnsAfterClose, Dirs
<1> QED
  BY <1>1, SessionInvariance, PTL

\* A direction that ended by EOF without a write error has delivered every byte,
\* in order, whatever the buffer and the sizes of the reads.
THEOREM EOFIsLossless == Spec => []LosslessEOF
<1>1. ASSUME SessionInv, NEW d \in Dirs, at[d] = "returned", rErr[d] = "eof", wErr[d] = "nil"
      PROVE delivered[d] = [i \in 1..sent[d] |-> i]
  BY <1>1 DEF SessionInv, InStream, Counts, Progress, FirstBytes
<1>2. SessionInv => LosslessEOF
  BY <1>1 DEF LosslessEOF
<1> QED
  BY <1>2, SessionInvariance, PTL

\* At most one cause is logged, and it is not an error that cleanup made itself
\* by closing the connections.
THEOREM CauseReported == Spec => []ReportsTheCause
<1>1. SessionInv => ReportsTheCause
  BY DEF SessionInv, Closing
<1> QED
  BY <1>1, SessionInvariance, PTL

\* A Write delivers the next bytes of its stream, or nothing once the session is
\* over.
LEMMA WriteRelays ==
    ASSUME SessionInv, NEW e \in Dirs, Write(e)
    PROVE  Streams!Deliver(e) \/ UNCHANGED <<sent, delivered, closed>>
<1> USE DEF SessionInv
<1>1. PICK x \in Errs, k \in 0..Len(Chunk(e)) :
          /\ x = "nil" => k = Len(Chunk(e))
          /\ x \in {"eof", "err"} => Dst(e) \notin closed
          /\ x = "closed" => k = 0
          /\ n[e] > 0 /\ Dst(e) \in closed => x = "closed"
          /\ delivered' = [delivered EXCEPT ![e] = delivered[e] \o SubSeq(Chunk(e), 1, k)]
  BY DEF Write
<1>2. /\ at[e] = "write" /\ InStream(e) /\ delivered[e] = FirstBytes(taken[e] - n[e])
      /\ n[e] \in Nat /\ taken[e] \in Nat /\ sent[e] \in 0..MaxBytes /\ sent[e] \in Nat
      /\ n[e] <= taken[e] /\ taken[e] <= sent[e]
      /\ UNCHANGED <<sent, closed>>
  BY SizeAssumption DEF Write, TypeOK, InStream, Counts, Progress, peerVars, onceVars
<1>3. /\ Len(Chunk(e)) = n[e]
      /\ delivered[e] \o SubSeq(Chunk(e), 1, k) = FirstBytes(taken[e] - n[e] + k)
  BY <1>2, ChunkDelivered
<1>4. k \in Nat /\ k <= n[e]
  BY <1>2, <1>3
<1>5. CASE k = 0
  <2>1. taken[e] - n[e] + 0 = taken[e] - n[e]
    BY <1>2
  <2>2. delivered' = delivered
    BY <1>1, <1>2, <1>3, <1>5, <2>1 DEF TypeOK
  <2> QED
    BY <1>2, <2>2
<1>6. CASE k # 0
  <2>1. Dst(e) \notin closed
    BY <1>1, <1>2, <1>4, <1>6
  <2>2. closed # Ends
    BY <2>1 DEF Dst, Ends
  <2>3. Len(delivered[e]) = taken[e] - n[e]
    BY <1>2, FirstBytesSeq
  <2>4. taken[e] - n[e] + k \in Len(delivered[e])..sent[e]
    BY <1>2, <1>4, <2>3
  <2>5. delivered' = [delivered EXCEPT ![e] = [i \in 1..(taken[e] - n[e] + k) |-> i]]
    BY <1>1, <1>3 DEF FirstBytes
  <2> QED
    BY <1>2, <2>2, <2>4, <2>5 DEF Streams!Deliver
<1> QED
  BY <1>5, <1>6

\* The copy loops and the cleanup implement two FIFO streams that may be cut
\* short but are never reordered, repeated or holed.
THEOREM CopyImplementsRelay == Spec => ImplementsRelay
<1>1. Init => Streams!Init
  BY DEF Init, Streams!Init, Streams!Dirs, Dirs, Ends
<1>2. ASSUME SessionInv, [Next]_vars
      PROVE [Streams!Next]_<<sent, delivered, closed = Ends>>
  <2>1. CASE UNCHANGED vars
    BY <2>1 DEF vars, peerVars, copyVars, onceVars
  <2>2. ASSUME NEW d \in Dirs, PeerNext(d) PROVE [Streams!Next]_<<sent, delivered, closed = Ends>>
    BY <2>2 DEF PeerNext, Send, Finish, copyVars, onceVars, Streams!Next, Streams!Send, Streams!Dirs, Dirs
  <2>3. ASSUME NEW d \in Dirs, Read(d) \/ ReadEnds(d)
        PROVE [Streams!Next]_<<sent, delivered, closed = Ends>>
    BY <2>3 DEF Read, ReadEnds, peerVars, onceVars
  <2>4. ASSUME NEW d \in Dirs, Write(d) PROVE [Streams!Next]_<<sent, delivered, closed = Ends>>
    BY <1>2, <2>4, WriteRelays DEF Streams!Next, Streams!Dirs, Dirs
  <2>5. ASSUME NEW d \in Dirs, CleanNext(d) PROVE [Streams!Next]_<<sent, delivered, closed = Ends>>
    <3>1. UNCHANGED <<sent, delivered>>
      BY <2>5 DEF CleanNext, Cleanup, CloseClient, CloseServer, Log, peerVars
    <3>2. closed = Ends => closed' = Ends
      BY <1>2, <2>5 DEF CleanNext, Cleanup, CloseClient, CloseServer, Log, Ends
    <3> QED
      BY <3>1, <3>2 DEF Streams!Next, Streams!End
  <2> QED
    BY <1>2, <2>1, <2>2, <2>3, <2>4, <2>5 DEF Next, CopyNext
<1> QED
  BY <1>1, <1>2, SessionInvariance, PTL DEF Spec, ImplementsRelay, Streams!Spec
==============================================================================
