----------------------- MODULE CheckConnectionsProofs -----------------------
(***************************************************************************)
(* The connection test reports every failure and blocks nobody, for any    *)
(* number of mounts: what errCh and mErr hold together are the failures,   *)
(* and there are never more of them than rounds left to collect them.      *)
(***************************************************************************)
EXTENDS CheckConnections, FiniteSetTheorems, SequenceTheorems, TLAPS

\* The types of the variables.
CheckTypes ==
    /\ check \in [Checked -> {"dial", "send", "close", "done", "failed"}]
    /\ errCh \in Seq(Checked) /\ caller \in {"wait", "collect", "returned"}
    /\ rounds \in Nat /\ mErr \subseteq Checked

Failed  == {m \in Checked : check[m] = "failed"}    \* the mounts whose error was sent
Pending == {errCh[i] : i \in 1..Len(errCh)}         \* the errors in the buffer

\* No error is lost or invented between the buffer and the result, the buffer
\* holds one error per failure while the caller waits, and the rounds left are
\* enough to empty it.
Bookkeeping ==
    /\ Failed = mErr \cup Pending
    /\ caller = "wait" => rounds = 0 /\ Len(errCh) = Cardinality(Failed)
    /\ caller # "wait" => \A m \in Checked : check[m] \in {"done", "failed"}
    /\ caller = "returned" => rounds = Capacity
    /\ Len(errCh) + rounds <= Capacity

\* The inductive invariant of the test.
CheckInv == CheckTypes /\ Bookkeeping

\* No goroutine ever waits for room in errCh, which is why the caller, who waits
\* for the goroutines before it receives, does not wait for ever.
NoSenderBlocks == \A m \in Checked : check[m] = "send" => Len(errCh) < Capacity
-----------------------------------------------------------------------------
\* The buffer has room for one error per mount.
LEMMA CapacityNat == Capacity \in Nat
BY CheckAssumption, FS_CardinalityType DEF Capacity

\* The failures are finitely many, and fewer than the mounts while one of the
\* goroutines is not done.
LEMMA FailedFinite ==
    /\ IsFiniteSet(Failed) /\ Cardinality(Failed) \in Nat
    /\ \A m \in Checked : m \notin Failed => Cardinality(Failed) < Capacity
<1>1. Failed \in SUBSET Checked
  BY DEF Failed
<1>2. IsFiniteSet(Failed) /\ Cardinality(Failed) \in Nat
  BY <1>1, CheckAssumption, FS_Subset, FS_CardinalityType
<1>3. ASSUME NEW m \in Checked, m \notin Failed PROVE Cardinality(Failed) < Capacity
  <2>1. Failed \in SUBSET (Checked \ {m}) /\ IsFiniteSet(Checked \ {m})
    BY <1>1, <1>3, CheckAssumption, FS_Subset
  <2>2. Cardinality(Failed) <= Cardinality(Checked \ {m})
    BY <2>1, FS_Subset
  <2>3. Cardinality(Checked \ {m}) = Cardinality(Checked) - 1
    BY CheckAssumption, FS_RemoveElement
  <2> QED
    BY <1>2, <2>2, <2>3, CapacityNat DEF Capacity
<1> QED
  BY <1>2, <1>3

\* A goroutine that sends its error.
LEMMA SendStep ==
    ASSUME CheckInv, NEW m \in Checked, SendErr(m) PROVE CheckInv'
<1> USE DEF CheckInv
<1>1. CheckTypes'
  BY AppendProperties DEF SendErr, CheckTypes
<1>2. Failed' = Failed \cup {m} /\ m \notin Failed
  BY DEF SendErr, Failed, CheckTypes
<1>3. /\ Len(errCh) \in Nat /\ Len(errCh') = Len(errCh) + 1 /\ errCh'[Len(errCh) + 1] = m
      /\ \A i \in 1..Len(errCh) : errCh'[i] = errCh[i]
  BY AppendProperties, LenProperties DEF SendErr, CheckTypes
<1>4. Pending' = Pending \cup {m}
  BY <1>3 DEF Pending
<1>5. caller = "wait" /\ caller' = "wait" /\ rounds' = rounds /\ mErr' = mErr
  BY DEF SendErr, Bookkeeping, CheckTypes
<1>6. Cardinality(Failed') = Cardinality(Failed) + 1
  BY <1>2, FailedFinite, FS_AddElement
<1>7. Len(errCh') + rounds' <= Capacity
  BY <1>3, <1>5, CapacityNat DEF SendErr, Bookkeeping
<1> QED
  BY <1>1, <1>2, <1>3, <1>4, <1>5, <1>6, <1>7 DEF Bookkeeping

\* A round that takes an error out of the buffer.
LEMMA TakeStep ==
    ASSUME CheckInv, Collect, rounds < Cardinality(Checked), errCh # <<>> PROVE CheckInv'
<1> USE DEF CheckInv
<1>1. /\ caller = "collect" /\ rounds' = rounds + 1 /\ errCh' = Tail(errCh)
      /\ mErr' = mErr \cup {Head(errCh)} /\ UNCHANGED <<caller, check>>
  BY CapacityNat DEF Collect, Capacity, CheckTypes
<1>2. /\ Tail(errCh) \in Seq(Checked) /\ Head(errCh) \in Checked /\ Len(Tail(errCh)) = Len(errCh) - 1
      /\ \A i \in 1..Len(Tail(errCh)) : Tail(errCh)[i] = errCh[i + 1]
  BY HeadTailProperties DEF CheckTypes
<1>3. Len(errCh) \in Nat /\ Len(errCh) # 0 /\ Head(errCh) = errCh[1]
  BY LenProperties, EmptySeq DEF CheckTypes
<1>4. Pending = Pending' \cup {Head(errCh)}
  <2>1. ASSUME NEW i \in 1..Len(errCh) PROVE errCh[i] \in Pending' \cup {Head(errCh)}
    <3>1. CASE i = 1
      BY <1>3, <3>1
    <3>2. CASE i # 1
      <4>1. i - 1 \in 1..Len(errCh') /\ errCh[i] = errCh'[i - 1]
        BY <1>1, <1>2, <1>3, <3>2
      <4> QED
        BY <4>1 DEF Pending
    <3> QED
      BY <3>1, <3>2
  <2>2. ASSUME NEW i \in 1..Len(errCh') PROVE errCh'[i] \in Pending
    <3>1. i + 1 \in 1..Len(errCh) /\ errCh'[i] = errCh[i + 1]
      BY <1>1, <1>2, <1>3
    <3> QED
      BY <3>1 DEF Pending
  <2>3. Head(errCh) \in Pending
    BY <1>3 DEF Pending
  <2> QED
    BY <2>1, <2>2, <2>3 DEF Pending
<1>5. CheckTypes'
  BY <1>1, <1>2 DEF CheckTypes
<1>6. Failed' = mErr' \cup Pending'
  BY <1>1, <1>4 DEF Bookkeeping, Failed
<1>7. Len(errCh') + rounds' <= Capacity
  BY <1>1, <1>2, <1>3, CapacityNat DEF Bookkeeping, CheckTypes
<1> QED
  BY <1>1, <1>5, <1>6, <1>7 DEF Bookkeeping

\* Every step preserves the invariant.
LEMMA CheckStep == CheckInv /\ [Next]_vars => CheckInv'
<1> SUFFICES ASSUME CheckInv, [Next]_vars PROVE CheckInv'
  OBVIOUS
<1> USE DEF CheckInv
<1>1. ASSUME NEW m \in Checked, Dial(m) \/ CloseConn(m) PROVE CheckInv'
  <2>1. CheckTypes' /\ UNCHANGED <<errCh, caller, rounds, mErr>>
    BY <1>1 DEF Dial, CloseConn, CheckTypes
  <2>2. Failed' = Failed /\ Pending' = Pending
    BY <1>1, <2>1 DEF Dial, CloseConn, CheckTypes, Failed, Pending
  <2>3. caller = "wait"
    BY <1>1 DEF Dial, CloseConn, Bookkeeping
  <2> QED
    BY <2>1, <2>2, <2>3 DEF Bookkeeping
<1>2. CASE Wait
  BY <1>2 DEF Wait, CheckTypes, Bookkeeping, Failed, Pending
<1>3. CASE Collect
  <2>1. CASE rounds < Cardinality(Checked) /\ errCh = <<>>
    <3>1. /\ caller = "collect" /\ rounds' = rounds + 1 /\ UNCHANGED <<errCh, mErr, caller, check>>
          /\ Len(errCh) = 0
      BY <1>3, <2>1, CapacityNat DEF Collect, Capacity, CheckTypes
    <3>2. CheckTypes' /\ Len(errCh') + rounds' <= Capacity
      BY <2>1, <3>1, CapacityNat DEF Capacity, CheckTypes
    <3> QED
      BY <3>1, <3>2 DEF Bookkeeping, Failed, Pending
  <2>2. CASE ~(rounds < Cardinality(Checked))
    BY <1>3, <2>2, CapacityNat DEF Collect, Capacity, CheckTypes, Bookkeeping, Failed, Pending
  <2> QED
    BY <1>3, <2>1, <2>2, TakeStep
<1>4. CASE UNCHANGED vars
  BY <1>4 DEF vars, CheckTypes, Bookkeeping, Failed, Pending
<1> QED
  BY <1>1, <1>2, <1>3, <1>4, SendStep DEF Next

\* The invariant holds throughout.
LEMMA CheckInvariance == Spec => []CheckInv
<1>1. Init => CheckInv
  <2> SUFFICES ASSUME Init PROVE CheckInv
    OBVIOUS
  <2>1. CheckTypes
    BY DEF Init, CheckTypes
  <2>2. Failed = {} /\ Pending = {} /\ Len(errCh) = 0
    BY DEF Init, Failed, Pending
  <2> QED
    BY <2>1, <2>2, CapacityNat, FS_EmptySet DEF Init, CheckInv, Bookkeeping
<1> QED
  BY <1>1, CheckStep, PTL DEF Spec

\* CheckConnections returns the error of every instance that could not be
\* dialled, and of no other.
THEOREM ErrorsReported == Spec => []AllErrorsReported
<1>1. CheckInv => AllErrorsReported
  <2> SUFFICES ASSUME CheckInv, caller = "returned"
               PROVE  mErr = Failed /\ \A m \in Checked : check[m] \in {"done", "failed"}
    BY DEF AllErrorsReported, Failed
  <2>1. Len(errCh) = 0
    BY CapacityNat, LenProperties DEF CheckInv, CheckTypes, Bookkeeping
  <2>2. Pending = {}
    BY <2>1 DEF Pending
  <2> QED
    BY <2>2 DEF CheckInv, Bookkeeping
<1> QED
  BY <1>1, CheckInvariance, PTL

\* However many instances fail, no goroutine waits for room in errCh.
THEOREM SendersRun == Spec => []NoSenderBlocks
<1>1. CheckInv => NoSenderBlocks
  BY FailedFinite, CapacityNat DEF CheckInv, CheckTypes, Bookkeeping, NoSenderBlocks, Failed
<1> QED
  BY <1>1, CheckInvariance, PTL
==============================================================================
