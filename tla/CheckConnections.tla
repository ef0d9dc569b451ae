-------------------------- MODULE CheckConnections --------------------------
(***************************************************************************)
(* Client.CheckConnections: one goroutine per mount dials its instance and *)
(* sends a failure on errCh; the caller waits for all of them and then     *)
(* takes the errors out.  errCh is made for len(c.mnts) errors, and Serve  *)
(* runs the test only without FUSE, where c.mnts are the mounts checked.   *)
(***************************************************************************)
EXTENDS Naturals, FiniteSets, Sequences

CONSTANT Checked    \* c.mnts, the mounts to check

ASSUME CheckAssumption == IsFiniteSet(Checked)

VARIABLES
    check,      \* per mount, where its goroutine is
    errCh,      \* the buffered errors, each named after its mount
    caller,     \* "wait", "collect" or "returned"
    rounds,     \* iterations of the collecting loop
    mErr        \* the errors collected

vars == <<check, errCh, caller, rounds, mErr>>

Init ==
    /\ check = [m \in Checked |-> "dial"]
    /\ errCh = <<>>
    /\ caller = "wait" /\ rounds = 0 /\ mErr = {}

\* Mutant: room for one error.
CapacityOne == 1

\* make(chan error, len(c.mnts))
Capacity == Cardinality(Checked)

\* Dial returns; a connection is closed again, whatever Close says.
Dial(m) ==
    /\ check[m] = "dial"
    /\ \E r \in {"send", "close"} : check' = [check EXCEPT ![m] = r]
    /\ UNCHANGED <<errCh, caller, rounds, mErr>>

CloseConn(m) ==
    /\ check[m] = "close"
    /\ check' = [check EXCEPT ![m] = "done"]
    /\ UNCHANGED <<errCh, caller, rounds, mErr>>

\* errCh <- err, while nobody receives: it needs room in the buffer.
SendErr(m) ==
    /\ check[m] = "send"
    /\ Len(errCh) < Capacity
    /\ errCh' = Append(errCh, m)
    /\ check' = [check EXCEPT ![m] = "failed"]
    /\ UNCHANGED <<caller, rounds, mErr>>

\* Mutant: the caller does not wait for the goroutines.
WaitNot ==
    /\ caller = "wait"
    /\ caller' = "collect"
    /\ UNCHANGED <<check, errCh, rounds, mErr>>

\* wg.Wait()
Wait ==
    /\ caller = "wait"
    /\ \A m \in Checked : check[m] \in {"done", "failed"}
    /\ caller' = "collect"
    /\ UNCHANGED <<check, errCh, rounds, mErr>>

\* One round of the loop takes an error if there is one; after len(mnts)
\* rounds the caller returns.
Collect ==
    /\ caller = "collect"
    /\ \/ /\ rounds < Cardinality(Checked)
          /\ rounds' = rounds + 1
          /\ errCh' = IF errCh = <<>> THEN errCh ELSE Tail(errCh)
          /\ mErr' = IF errCh = <<>> THEN mErr ELSE mErr \cup {Head(errCh)}
          /\ UNCHANGED caller
       \/ /\ rounds = Cardinality(Checked)
          /\ caller' = "returned"
          /\ UNCHANGED <<rounds, errCh, mErr>>
    /\ UNCHANGED check

Next == Wait \/ Collect \/ \E m \in Checked : Dial(m) \/ CloseConn(m) \/ SendErr(m)

Spec == Init /\ [][Next]_vars

\* Every Dial returns, and the goroutines and the caller run when they can.
FairSpec ==
    /\ Spec
    /\ WF_vars(Wait \/ Collect)
    /\ \A m \in Checked : WF_vars(Dial(m) \/ CloseConn(m) \/ SendErr(m))
-----------------------------------------------------------------------------
\* CheckConnections returns the error of every instance that could not be
\* dialled, and of no other.
AllErrorsReported ==
    caller = "returned" => mErr = {m \in Checked : check[m] = "failed"}
                           /\ \A m \in Checked : check[m] \in {"done", "failed"}

\* CheckConnections returns, however many of the instances fail: no goroutine
\* is left waiting for room in errCh with the caller waiting for it.
Returns == <>(caller = "returned")
==============================================================================
